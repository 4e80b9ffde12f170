----------------------------- MODULE Reconnect -----------------------------
(***************************************************************************)
(* What survives a lost link: the table of message handlers, the           *)
(* subscriptions the broker holds for the session, and the automatic       *)
(* reconnect that has to bring the two together again.                     *)
(*                                                                         *)
(* One task makes all the calls (ClientCalls has the interleavings), each  *)
(* call a step between two idle points, except that the link may be lost   *)
(* between two topics of a resubscription.  The YIELD_IN_PROGRESS state is *)
(* therefore CONNECTED_IDLE here.  Sessions are clean: the broker forgets  *)
(* the subscriptions with the session.                                     *)
(***************************************************************************)
EXTENDS Integers

CONSTANTS
    Topics, NoTopic,
    NumHandlers,     \* AWS_IOT_MQTT_NUM_SUBSCRIBE_HANDLERS
    MinWait,         \* AWS_IOT_MQTT_MIN_RECONNECT_WAIT_INTERVAL
    MaxWait,         \* AWS_IOT_MQTT_MAX_RECONNECT_WAIT_INTERVAL
    AutoReconnect    \* isAutoReconnectEnabled

ASSUME ReconnectAssumption ==
    /\ NoTopic \notin Topics
    /\ NumHandlers \in Nat
    /\ MinWait \in Nat \ {0}
    /\ MaxWait \in Nat
    /\ MinWait <= MaxWait
    /\ AutoReconnect \in BOOLEAN

VARIABLES
    state,          \* clientState
    handlers,       \* messageHandlers[..].topicName
    resubscribed,   \* the handlers whose flag is set
    interval,       \* currentReconnectWaitInterval; init does not set it
    caller,         \* who runs aws_iot_mqtt_resubscribe, "none" when nobody does
    next, count,    \* itr and existingSubCount of _aws_iot_mqtt_internal_resubscribe
    network,        \* a connect would succeed
    session,        \* the TLS and MQTT session is alive
    broker,         \* topics the broker has subscribed for the session
    refused,        \* topics it refused when they were last asked for in the session
    wanted,         \* topics the application subscribed and has not given up
    steady          \* the application has only subscribed

vars == <<state, handlers, resubscribed, interval, caller, next, count, network, session,
          broker, refused, wanted, steady>>
pass == <<caller, next, count>>
subscriptions == <<broker, refused>>
world == <<network, session, subscriptions>>

States == {"CONNECTED_IDLE", "RESUBSCRIBE_IN_PROGRESS", "PENDING_RECONNECT",
           "DISCONNECTED_ERROR", "DISCONNECTED_MANUALLY"}
ConnectedStates == {"CONNECTED_IDLE", "RESUBSCRIBE_IN_PROGRESS"}

Handlers == 1..NumHandlers
Active == {handlers[h] : h \in Handlers} \ {NoTopic}

\* A mutant of IsFirstFree: the last slot counts as free when the table is full.
IsFirstFreeOrLast(f) ==
    /\ \A h \in Handlers : h < f => handlers[h] # NoTopic
    /\ f \in Handlers => handlers[f] = NoTopic \/ f = NumHandlers

\* _aws_iot_mqtt_get_free_message_handler_index
IsFirstFree(f) ==
    /\ \A h \in Handlers : h < f => handlers[h] # NoTopic
    /\ f \in Handlers => handlers[f] = NoTopic

\* aws_iot_mqtt_connect with a fresh client was accepted.
Init ==
    /\ state = "CONNECTED_IDLE"
    /\ handlers = [h \in Handlers |-> NoTopic]
    /\ resubscribed = {}
    /\ interval = 0
    /\ caller = "none"
    /\ next = 1
    /\ count = 0
    /\ network = TRUE
    /\ session = TRUE
    /\ broker = {}
    /\ refused = {}
    /\ wanted = {}
    /\ steady = TRUE
-----------------------------------------------------------------------------
(* The world                                                               *)

\* Sessions are clean: a new one starts with nothing, an old one leaves nothing.
Forgotten == broker' = {} /\ refused' = {}

\* The broker's answer to a SUBSCRIBE.  The return code of the SUBACK is stored
\* in a local variable, grantedQoS, and never looked at: SUCCESS either way.
Answered(t) ==
    \/ broker' = broker \union {t} /\ refused' = refused \ {t}
    \/ refused' = refused \union {t} /\ UNCHANGED broker

SessionDies ==
    /\ session
    /\ session' = FALSE
    /\ Forgotten
    /\ UNCHANGED <<state, handlers, resubscribed, interval, pass, network, wanted, steady>>

NetworkChanges ==
    /\ network' = ~network
    /\ session' = FALSE
    /\ Forgotten
    /\ UNCHANGED <<state, handlers, resubscribed, interval, pass, wanted, steady>>
-----------------------------------------------------------------------------
(* Calls of the application                                                *)

\* aws_iot_mqtt_subscribe: the handler is stored and the application promised
\* its messages whatever the SUBACK says; the SUBACK may come too late, and then
\* the broker has a subscription the table does not have.
Subscribe(t) ==
    /\ caller = "none"
    /\ state = "CONNECTED_IDLE"
    /\ session
    /\ Answered(t)
    /\ \E f \in Handlers :
         /\ IsFirstFree(f)
         /\ \/ /\ handlers' = [handlers EXCEPT ![f] = t]
               /\ wanted' = wanted \union {t}
            \/ UNCHANGED <<handlers, wanted>>
    /\ UNCHANGED <<state, resubscribed, interval, pass, network, session, steady>>

\* aws_iot_mqtt_unsubscribe: the UNSUBACK may come too late.
Unsubscribe(t) ==
    /\ steady' = FALSE
    /\ caller = "none"
    /\ state = "CONNECTED_IDLE"
    /\ session
    /\ t \in Active
    /\ broker' = broker \ {t}
    /\ refused' = refused \ {t}
    /\ wanted' = wanted \ {t}
    /\ \/ handlers' = [h \in Handlers |-> IF handlers[h] = t THEN NoTopic ELSE handlers[h]]
       \/ UNCHANGED handlers
    /\ UNCHANGED <<state, resubscribed, interval, pass, network, session>>

\* aws_iot_mqtt_disconnect
Disconnect ==
    /\ steady' = FALSE
    /\ caller = "none"
    /\ state \in ConnectedStates
    /\ state' = "DISCONNECTED_MANUALLY"
    /\ session' = FALSE
    /\ Forgotten
    /\ UNCHANGED <<handlers, resubscribed, interval, pass, network, wanted>>

\* The network part of a successful connect.
NewSession ==
    /\ network
    /\ session' = TRUE
    /\ Forgotten
    /\ UNCHANGED network

\* aws_iot_mqtt_connect
ConnectCall ==
    /\ steady' = FALSE
    /\ caller = "none"
    /\ state \notin ConnectedStates
    /\ \/ NewSession /\ state' = "CONNECTED_IDLE"
       \/ ~network /\ state' = "DISCONNECTED_ERROR" /\ UNCHANGED world
    /\ UNCHANGED <<handlers, resubscribed, interval, pass, wanted>>

\* aws_iot_mqtt_resubscribe gets under way.
StartResubscribe(who) ==
    /\ state' = "RESUBSCRIBE_IN_PROGRESS"
    /\ caller' = who
    /\ next' = 1
    /\ \E f \in 1..NumHandlers + 1 : IsFirstFree(f) /\ count' = f - 1
    /\ UNCHANGED <<handlers, resubscribed, interval, wanted>>

ResubscribeCall ==
    /\ steady' = FALSE
    /\ caller = "none"
    /\ state \in ConnectedStates
    /\ StartResubscribe("resubscribe")
    /\ UNCHANGED world

\* aws_iot_mqtt_attempt_reconnect connects only when the state is not a
\* connected one, whether the session lives or not.
AttemptReconnect(who) ==
    \/ /\ state \notin ConnectedStates
       /\ NewSession
       /\ StartResubscribe(who)
    \/ /\ state = "RESUBSCRIBE_IN_PROGRESS"
       /\ StartResubscribe(who)
       /\ UNCHANGED world

AttemptFails ==
    /\ state \notin ConnectedStates
    /\ ~network
    /\ state' = "PENDING_RECONNECT"
    /\ UNCHANGED <<handlers, resubscribed, pass, world, wanted>>

ManualReconnect ==
    /\ steady' = FALSE
    /\ caller = "none"
    /\ \/ AttemptReconnect("manual")
       \/ AttemptFails /\ UNCHANGED interval
-----------------------------------------------------------------------------
(* _aws_iot_mqtt_internal_resubscribe                                      *)

\* Already done by an attempt that failed later.
ResubscribeSkips ==
    /\ caller # "none"
    /\ next <= count
    /\ next \in resubscribed
    /\ next' = next + 1
    /\ UNCHANGED <<state, handlers, resubscribed, interval, caller, count, world, wanted, steady>>

\* A refusal sets the flag like a grant.
ResubscribeOne ==
    /\ caller # "none"
    /\ next <= count
    /\ next \notin resubscribed
    /\ session
    /\ Answered(handlers[next])
    /\ resubscribed' = resubscribed \union {next}
    /\ next' = next + 1
    /\ UNCHANGED <<state, handlers, interval, caller, count, network, session, wanted, steady>>

\* No SUBACK in time.  The state stays for the next attempt; only yield's
\* attempts count against the back-off.
ResubscribeFails ==
    /\ caller # "none"
    /\ next <= count
    /\ next \notin resubscribed
    /\ \/ session /\ Answered(handlers[next])
       \/ UNCHANGED subscriptions
    /\ caller' = "none"
    /\ interval' = IF caller = "yield" THEN 2 * interval ELSE interval
    /\ UNCHANGED <<state, handlers, resubscribed, next, count, network, session, wanted, steady>>

ResubscribeDone ==
    /\ caller # "none"
    /\ next > count
    /\ state' = "CONNECTED_IDLE"
    /\ caller' = "none"
    /\ UNCHANGED <<handlers, resubscribed, interval, next, count, world, wanted, steady>>
-----------------------------------------------------------------------------
(* Turns of _aws_iot_mqtt_internal_yield                                   *)

\* A mutant of DetectLoss: the flags of the last reconnect stay set.
DetectLossKeepsFlags ==
    /\ caller = "none"
    /\ state = "CONNECTED_IDLE"
    /\ ~session
    /\ IF AutoReconnect
       THEN state' = "PENDING_RECONNECT" /\ interval' = MinWait
       ELSE state' = "DISCONNECTED_ERROR" /\ UNCHANGED interval
    /\ UNCHANGED <<handlers, resubscribed, pass, world, wanted, steady>>

\* The keep-alive or a read finds the session dead.
DetectLoss ==
    /\ caller = "none"
    /\ state = "CONNECTED_IDLE"
    /\ ~session
    /\ IF AutoReconnect
       THEN /\ state' = "PENDING_RECONNECT"
            /\ interval' = MinWait
            /\ resubscribed' = {}
       ELSE /\ state' = "DISCONNECTED_ERROR"
            /\ UNCHANGED <<interval, resubscribed>>
    /\ UNCHANGED <<handlers, pass, world, wanted, steady>>

\* Mutants of YieldReconnect: the maximum is not looked at; the interval is not
\* doubled.
YieldReconnectForever ==
    /\ caller = "none"
    /\ state \in {"PENDING_RECONNECT", "RESUBSCRIBE_IN_PROGRESS"}
    /\ interval <= 2 * MaxWait
    /\ \/ AttemptReconnect("yield")
       \/ AttemptFails /\ interval' = 2 * interval
    /\ UNCHANGED steady

YieldReconnectSteadily ==
    /\ caller = "none"
    /\ state \in {"PENDING_RECONNECT", "RESUBSCRIBE_IN_PROGRESS"}
    /\ interval <= MaxWait
    /\ \/ AttemptReconnect("yield")
       \/ AttemptFails /\ UNCHANGED interval
    /\ UNCHANGED steady

\* _aws_iot_mqtt_handle_reconnect, once reconnectDelayTimer has expired and
\* unless the back-off has passed its maximum.
YieldReconnect ==
    /\ caller = "none"
    /\ state \in {"PENDING_RECONNECT", "RESUBSCRIBE_IN_PROGRESS"}
    /\ interval <= MaxWait
    /\ \/ AttemptReconnect("yield")
       \/ AttemptFails /\ interval' = 2 * interval
    /\ UNCHANGED steady
-----------------------------------------------------------------------------
ResubscribeStep == ResubscribeOne \/ ResubscribeSkips \/ ResubscribeFails \/ ResubscribeDone

Next ==
    \/ SessionDies \/ NetworkChanges
    \/ \E t \in Topics : Subscribe(t) \/ Unsubscribe(t)
    \/ Disconnect \/ ConnectCall \/ ResubscribeCall \/ ManualReconnect
    \/ ResubscribeStep
    \/ DetectLoss \/ YieldReconnect

Spec == Init /\ [][Next]_vars

\* taskRunner calls yield for ever, and a resubscription either gets its
\* SUBACKs or times out.
FairSpec == Spec /\ WF_vars(YieldReconnect) /\ WF_vars(ResubscribeStep)
-----------------------------------------------------------------------------
(* Properties                                                              *)

\* Every variable stays in its declared range; the back-off never exceeds twice
\* the maximum.
TypeOK ==
    /\ state \in States
    /\ handlers \in [Handlers -> Topics \union {NoTopic}]
    /\ resubscribed \subseteq Handlers
    /\ interval \in 0..2 * MaxWait
    /\ caller \in {"none", "yield", "manual", "resubscribe"}
    /\ next \in 1..NumHandlers + 1
    /\ count \in 0..NumHandlers
    /\ network \in BOOLEAN
    /\ session \in BOOLEAN
    /\ broker \subseteq Topics
    /\ refused \subseteq Topics
    /\ wanted \subseteq Topics
    /\ steady \in BOOLEAN

\* As long as the application has only subscribed: once the client reports an
\* idle connection on a live session, whatever losses, half-done resubscriptions
\* and back-offs preceded, the broker has every subscription the application
\* was promised, but for those it refused when they were asked for in this very
\* session, a refusal that aws_iot_mqtt_subscribe and the resubscription take
\* for success.  No promise is dropped because of an earlier session.
SubscriptionsLive ==
    steady /\ state = "CONNECTED_IDLE" /\ session => wanted \subseteq broker \union refused

\* A promised subscription keeps its handler until the application gives it up,
\* across every sequence of calls.
HandlersKept == wanted \subseteq Active

\* A reconnect under way ends, unless the application interferes: the client
\* is idle again or has given up.
RecoveryEnds ==
    state \in {"PENDING_RECONNECT", "RESUBSCRIBE_IN_PROGRESS"} /\ steady
        ~> state = "CONNECTED_IDLE" \/ interval > MaxWait \/ ~steady
=============================================================================
