------------------------------- MODULE Shadow -------------------------------
(***************************************************************************)
(* Device shadow actions: aws_iot_shadow_update, _get and _delete with a   *)
(* callback, the list of actions that wait for an answer and the list of   *)
(* subscriptions to the topics on which the answers come.                  *)
(*                                                                         *)
(* One task makes the calls.  Wherever the MQTT client waits for an        *)
(* acknowledgement it also reads the answers of the service, whose handler *)
(* calls the application back, which may start the next action: the calls  *)
(* form a stack.  A key is a thing and an action; its answers come on the  *)
(* topics <<key, "accepted">> and <<key, "rejected">>.                     *)
(*                                                                         *)
(* Left out: an action without callback or client token, which only        *)
(* publishes; one that finds no free record, which fails and changes       *)
(* nothing; a shadow_yield from a callback.                                *)
(***************************************************************************)
EXTENDS Integers, Sequences

CONSTANTS
    Keys, NoTopic,
    Uses,            \* <<key, isPersistentSubscribe>> as the application uses them
    NumAcks,         \* MAX_ACKS_TO_COMEIN_AT_ANY_GIVEN_TIME
    NumTopics,       \* MAX_TOPICS_AT_ANY_GIVEN_TIME
    MaxCalls,        \* bound of the model: actions of a behaviour
    MaxDepth,        \* bound of the model: calls and callbacks in progress
    MaxFaults        \* bound of the model: calls of the MQTT client that fail, and
                     \* connections

Answers == {"accepted", "rejected"}
Topics == Keys \X Answers

ASSUME ShadowAssumption ==
    /\ NoTopic \notin Topics
    /\ Uses \subseteq Keys \X BOOLEAN
    /\ NumAcks \in Nat \ {0}
    /\ NumTopics \in Nat \ {0}
    /\ MaxCalls \in Nat \ {0}
    /\ MaxDepth \in Nat \ {0}
    /\ MaxFaults \in Nat

VARIABLES
    stack,           \* calls and callbacks in progress, the innermost last
    keyOf,           \* thing and action of each action started so far
    acks,            \* AckWaitList
    expired,         \* records whose timer has run out
    subs,            \* SubscriptionList; an entry that was freed keeps its content
    handlers,        \* topics for which the MQTT client has AckStatusCallback
    deaf,            \* those of them that the broker does not serve
    service,         \* actions published of which no answer was read
    faults,          \* failed calls and connections so far
    outcome,         \* the last callback of each action
    acted,           \* a callback has started an action since the last connect
    troubled         \* keys of which the subscriptions are in disorder

vars == <<stack, keyOf, acks, expired, subs, handlers, deaf, service, faults, outcome,
          acted, troubled>>
mqtt == <<handlers, deaf>>
world == <<service, faults>>

Slots == 1..NumAcks
Entries == 1..NumTopics
Requests == 1..MaxCalls
Outcomes == {"none", "pending", "accepted", "rejected", "timeout", "dropped"}

Heard == handlers \ deaf
Top == stack[Len(stack)]
Below == SubSeq(stack, 1, Len(stack) - 1)
Replace(frame) == Append(Below, frame)

Least(S, x) == x \in S /\ \A y \in S : x <= y
KeyAt(slot) == keyOf[acks[slot].req]
NoEntry == [topic |-> NoTopic, count |-> 0, sticky |-> FALSE, free |-> TRUE]
NoRecord == [req |-> 0, free |-> TRUE]

\* The MQTT client waits for an acknowledgement, or yields.
Exchanging(f) ==
    \/ f.op = "action" /\ f.pc # "publish"
    \/ f.op \in {"answered", "expiring"} /\ f.entry > 0
    \/ f.op = "yield"

FrameKey(f) == IF f.op = "action" THEN keyOf[f.req] ELSE f.key

\* The calls that wait for the MQTT client, and the entries of SubscriptionList
\* that such a call goes on to change when its wait is over.
Working == {f \in DOMAIN stack : Exchanging(stack[f]) /\ stack[f].op # "yield"}
InHand(f) == IF f.op = "action" THEN {f.a, f.b} \ {0} ELSE {f.entry}
Holders(j) == {f \in Working : j \in InHand(stack[f])}
KeysOf(calls) == {FrameKey(stack[f]) : f \in calls}

\* The action, other than req, that loses its record.
Displaced(slot, req) ==
    IF ~acks[slot].free /\ acks[slot].req # req
    THEN [outcome EXCEPT ![acks[slot].req] = "dropped"] ELSE outcome

\* A freed record keeps its content, which only matters while a call further
\* out works on it.
Freed(slot) ==
    IF \E f \in 1..Len(stack) - 1 : stack[f].op = "expiring" /\ stack[f].slot = slot
    THEN [acks[slot] EXCEPT !.free = TRUE] ELSE NoRecord

Init ==
    /\ stack = <<>>
    /\ keyOf = <<>>
    /\ acks = [i \in Slots |-> NoRecord]
    /\ expired = {}
    /\ subs = [j \in Entries |-> NoEntry]
    /\ handlers = {}
    /\ deaf = {}
    /\ service = {}
    /\ faults = 0
    /\ outcome = [r \in Requests |-> "none"]
    /\ acted = FALSE
    /\ troubled = {}
\* Something that fails, as often as the bound allows.
Fault == faults < MaxFaults /\ faults' = faults + 1

Scanning == stack # <<>> /\ Top.pc = "scan"
-----------------------------------------------------------------------------
(* The other end, and time                                                 *)

\* A timer only matters where it is looked at.
TimerExpires(i) ==
    /\ stack = <<>> \/ Scanning
    /\ ~acks[i].free
    /\ i \notin expired
    /\ expired' = expired \union {i}
    /\ UNCHANGED <<stack, keyOf, acks, subs, mqtt, world, outcome, acted, troubled>>

\* aws_iot_shadow_connect: initializeRecords frees every record, on a session
\* without subscriptions.  The MQTT client keeps its handlers.
Connect ==
    /\ stack = <<>>
    /\ Fault
    /\ acks' = [i \in Slots |-> NoRecord]
    /\ expired' = {}
    /\ subs' = [j \in Entries |-> [NoEntry EXCEPT !.topic = subs[j].topic]]
    /\ deaf' = handlers
    /\ outcome' = [r \in Requests |-> IF outcome[r] = "pending" THEN "dropped" ELSE outcome[r]]
    /\ acted' = FALSE
    /\ troubled' = {}
    /\ UNCHANGED <<stack, keyOf, handlers, service>>
-----------------------------------------------------------------------------
(* Starting an action                                                      *)

MayCall == stack = <<>> \/ (stack # <<>> /\ Top.pc = "callback")
FreeEntries == {j \in Entries : subs[j].free}

\* isSubscriptionPresent
Present(k) == \A a \in Answers : \E j \in Entries : ~subs[j].free /\ subs[j].topic = <<k, a>>

\* What every start does: the record is chosen here, and taken at the end.
StartAction(k, sticky, pc, a, b) ==
    /\ MayCall
    /\ Len(stack) < MaxDepth
    /\ Len(keyOf) < MaxCalls
    /\ \E i \in Slots :
         /\ Least({s \in Slots : acks[s].free}, i)
         /\ stack' = Append(stack, [op |-> "action", req |-> Len(keyOf) + 1, slot |-> i,
                                    sticky |-> sticky, a |-> a, b |-> b, pc |-> pc,
                                    failed |-> FALSE])
    /\ keyOf' = Append(keyOf, k)
    /\ acted' = (acted \/ stack # <<>>)
    /\ UNCHANGED <<acks, expired, mqtt, world, outcome>>

\* Disorder that an action brings about when it starts while the subscriptions
\* of its key are being changed, or while a call for another key has an entry in
\* hand that still names this one: the topic of the second entry is only written
\* when the first subscription is made.
Crossing(k) ==
    LET calls == {f \in Working : \/ FrameKey(stack[f]) = k
                                  \/ \E j \in InHand(stack[f]) : subs[j].topic \in {k} \X Answers}
    IN IF calls = {} THEN {} ELSE {k} \union KeysOf(calls)

\* Or when it takes an entry that was freed while a call has it in hand.
Retaking(k, a, b) == IF Holders(a) \union Holders(b) = {} THEN {} ELSE {k}

\* A mutant of StartPresent: the count is not raised.
StartPresentUncounted(k, sticky) ==
    /\ Present(k)
    /\ StartAction(k, sticky, "publish", 0, 0)
    /\ subs' = [j \in Entries |->
                  IF ~subs[j].free /\ subs[j].topic \in {k} \X Answers
                  THEN [subs[j] EXCEPT !.sticky = sticky] ELSE subs[j]]
    /\ troubled' = troubled \union Crossing(k)

\* incrementSubscriptionCnt
StartPresent(k, sticky) ==
    /\ Present(k)
    /\ StartAction(k, sticky, "publish", 0, 0)
    /\ subs' = [j \in Entries |->
                  IF ~subs[j].free /\ subs[j].topic \in {k} \X Answers
                  THEN [subs[j] EXCEPT !.count = @ + 1, !.sticky = sticky] ELSE subs[j]]
    /\ troubled' = troubled \union Crossing(k)

\* subscribeToShadowActionAcks with two free entries
StartSubscribing(k, sticky) ==
    /\ ~Present(k)
    /\ \E a, b \in FreeEntries :
         /\ Least(FreeEntries, a)
         /\ Least(FreeEntries \ {a}, b)
         /\ StartAction(k, sticky, "accepted", a, b)
         /\ subs' = [subs EXCEPT ![a].free = FALSE, ![a].topic = <<k, "accepted">>,
                                 ![b].free = FALSE]
         /\ troubled' = troubled \union Crossing(k) \union Retaking(k, a, b)

\* With fewer it gives the entry back, unsubscribes from whatever that was used
\* for last, and reports SUCCESS.
StartCrowded(k, sticky) ==
    /\ ~Present(k)
    /\ \A a, b \in FreeEntries : a = b
    /\ \/ /\ \A j \in FreeEntries : subs[j].count # 1 \/ subs[j].topic \notin handlers
          /\ StartAction(k, sticky, "publish", 0, 0)
          /\ troubled' = troubled \union {k}
       \/ \E j \in FreeEntries :
            /\ subs[j].count = 1
            /\ subs[j].topic \in handlers
            /\ StartAction(k, sticky, "undo", j, 0)
            /\ troubled' = troubled \union {k, subs[j].topic[1]}
    /\ UNCHANGED subs
-----------------------------------------------------------------------------
(* The rest of an action                                                   *)

Acting == stack # <<>> /\ Top.op = "action"

SubscribeAccepted ==
    /\ Acting
    /\ Top.pc = "accepted"
    /\ LET k == keyOf[Top.req]
       IN
         /\ handlers' = handlers \union {<<k, "accepted">>}
         /\ deaf' = deaf \ {<<k, "accepted">>}
         /\ subs' = [subs EXCEPT ![Top.a].count = 1, ![Top.a].sticky = Top.sticky,
                                 ![Top.b].topic = <<k, "rejected">>]
    /\ stack' = Replace([Top EXCEPT !.pc = "rejected"])
    /\ UNCHANGED <<keyOf, acks, expired, world, outcome, acted, troubled>>

SubscribeRejected ==
    /\ Acting
    /\ Top.pc = "rejected"
    /\ LET k == keyOf[Top.req]
       IN
         /\ handlers' = handlers \union {<<k, "rejected">>}
         /\ deaf' = deaf \ {<<k, "rejected">>}
    /\ subs' = [subs EXCEPT ![Top.b].count = 1, ![Top.b].sticky = Top.sticky]
    /\ stack' = Replace([Top EXCEPT !.pc = "publish"])
    /\ UNCHANGED <<keyOf, acks, expired, world, outcome, acted, troubled>>

\* Either subscribe fails: both entries are freed, the first one before the
\* unsubscribe and the second one after it.
SubscribeFails ==
    /\ Acting
    /\ Top.pc \in Answers
    /\ Fault
    /\ IF subs[Top.a].count = 1 /\ subs[Top.a].topic \in handlers
       THEN /\ subs' = [subs EXCEPT ![Top.a].free = TRUE]
            /\ stack' = Replace([Top EXCEPT !.pc = "undo", !.failed = TRUE])
       ELSE /\ subs' = [subs EXCEPT ![Top.a].free = TRUE, ![Top.b].free = TRUE]
            /\ stack' = Below
    /\ UNCHANGED <<keyOf, acks, expired, mqtt, service, outcome, acted, troubled>>

Unsubscribed(t) ==
    /\ handlers' = handlers \ {t}
    /\ deaf' = deaf \ {t}
    /\ UNCHANGED troubled

\* A mutant of UnsubscribeFailed: the handlers are cleared in any case.
UnsubscribeFailedClears(t) ==
    /\ deaf' \in {deaf, deaf \union ({t} \intersect handlers)}
    /\ troubled' = troubled \union {t[1]}
    /\ handlers' = handlers \ {t}

\* An unsubscribe that times out may still have reached the broker.
UnsubscribeFailed(t) ==
    /\ deaf' \in {deaf, deaf \union ({t} \intersect handlers)}
    /\ troubled' = troubled \union {t[1]}
    /\ UNCHANGED handlers

\* The topic is read again from the entry when the handlers are cleared.  This
\* one may fail beyond the bound, like the call before it.
UndoEnds ==
    /\ Acting
    /\ Top.pc = "undo"
    /\ Unsubscribed(subs[Top.a].topic) \/ UnsubscribeFailed(subs[Top.a].topic)
    /\ subs' = IF Top.b > 0 THEN [subs EXCEPT ![Top.b].free = TRUE] ELSE subs
    /\ stack' = IF Top.failed THEN Below ELSE Replace([Top EXCEPT !.pc = "publish"])
    /\ UNCHANGED <<keyOf, acks, expired, world, outcome, acted>>

\* publishToShadowAction and addToAckWaitList: between them nothing is read.
Publish ==
    /\ Acting
    /\ Top.pc = "publish"
    /\ service' = service \union {Top.req}
    /\ acks' = [acks EXCEPT ![Top.slot] = [req |-> Top.req, free |-> FALSE]]
    /\ expired' = expired \ {Top.slot}
    /\ outcome' = [Displaced(Top.slot, Top.req) EXCEPT ![Top.req] = "pending"]
    /\ stack' = Below
    /\ UNCHANGED <<keyOf, subs, mqtt, faults, acted, troubled>>

\* The count stays raised.
PublishFails ==
    /\ Acting
    /\ Top.pc = "publish"
    /\ Fault
    /\ stack' = Below
    /\ UNCHANGED <<keyOf, acks, expired, subs, mqtt, service, outcome, acted, troubled>>
-----------------------------------------------------------------------------
(* Answers and time-outs                                                   *)

\* The record that AckStatusCallback finds by the client token.
Matches(i, r) == Least({s \in Slots : ~acks[s].free /\ acks[s].req = r}, i)

\* The time-out of the same record is being reported.
TimingOut(i) == \E f \in DOMAIN stack :
    stack[f].op = "expiring" /\ stack[f].slot = i /\ stack[f].pc = "callback"

\* AckStatusCallback, up to the callback.  An answer that nobody hears, or that
\* finds no record, changes nothing.
ReadAnswer(r, status) ==
    /\ stack # <<>>
    /\ Exchanging(Top)
    /\ Len(stack) < MaxDepth
    /\ r \in service
    /\ <<keyOf[r], status>> \in Heard
    /\ service' = service \ {r}
    /\ \E i \in Slots :
         /\ Matches(i, r)
         /\ stack' = Append(stack, [op |-> "answered", slot |-> i, req |-> r,
                                    key |-> keyOf[r], pc |-> "callback", entry |-> 0])
         /\ troubled' = IF TimingOut(i) THEN troubled \union {keyOf[r]} ELSE troubled
    /\ outcome' = [outcome EXCEPT ![r] = status]
    /\ UNCHANGED <<keyOf, acks, expired, subs, mqtt, faults, acted>>

\* aws_iot_shadow_yield
Yield ==
    /\ stack = <<>>
    /\ stack' = <<[op |-> "expiring", slot |-> 1, req |-> 0, key |-> NoTopic, pc |-> "scan",
                   entry |-> 0]>>
    /\ UNCHANGED <<keyOf, acks, expired, subs, mqtt, world, outcome, acted, troubled>>

\* A mutant of Due: the last record is not looked at.
DueButLast(from) == {i \in from..NumAcks - 1 : ~acks[i].free /\ i \in expired}

Due(from) == {i \in from..NumAcks : ~acks[i].free /\ i \in expired}

\* HandleExpiredResponseCallbacks: the record is freed after the callback.
Expire ==
    /\ Scanning
    /\ \E i \in Slots :
         /\ Least(Due(Top.slot), i)
         /\ stack' = Replace([Top EXCEPT !.slot = i, !.req = acks[i].req, !.pc = "callback"])
         /\ outcome' = [outcome EXCEPT ![acks[i].req] = "timeout"]
    /\ UNCHANGED <<keyOf, acks, expired, subs, mqtt, world, acted, troubled>>

ScanEnds ==
    /\ Scanning
    /\ Due(Top.slot) = {}
    /\ stack' = Replace([op |-> "yield", pc |-> "yield"])
    /\ UNCHANGED <<keyOf, acks, expired, subs, mqtt, world, outcome, acted, troubled>>

YieldReturns ==
    /\ stack # <<>>
    /\ Top.op = "yield"
    /\ stack' = Below
    /\ UNCHANGED <<keyOf, acks, expired, subs, mqtt, world, outcome, acted, troubled>>

\* A mutant of CallbackReturns: a timed-out record is not freed.
CallbackReturnsKeeps ==
    /\ stack # <<>>
    /\ Top.pc = "callback"
    /\ stack' = Replace([Top EXCEPT !.pc = "accepted", !.key = KeyAt(Top.slot)])
    /\ UNCHANGED <<keyOf, acks, expired, subs, mqtt, world, outcome, acted, troubled>>

CallbackReturns ==
    /\ stack # <<>>
    /\ Top.pc = "callback"
    /\ stack' = Replace([Top EXCEPT !.pc = "accepted", !.key = KeyAt(Top.slot)])
    /\ IF Top.op = "expiring"
       THEN /\ acks' = [acks EXCEPT ![Top.slot] = NoRecord]
            /\ expired' = expired \ {Top.slot}
            /\ outcome' = Displaced(Top.slot, Top.req)
       ELSE UNCHANGED <<acks, expired, outcome>>
    /\ UNCHANGED <<keyOf, subs, mqtt, world, acted, troubled>>
-----------------------------------------------------------------------------
(* unsubscribeFromAcceptedAndRejected                                      *)

Releasing == stack # <<>> /\ Top.op \in {"answered", "expiring"} /\ Top.pc \in Answers

\* findIndexOfSubscriptionList
Found(t, j) == Least({e \in Entries : ~subs[e].free /\ subs[e].topic = t}, j)

\* From "accepted" to "rejected" to the end of the record.
Advance ==
    IF Top.pc = "accepted"
    THEN /\ stack' = Replace([Top EXCEPT !.pc = "rejected", !.entry = 0])
         /\ UNCHANGED <<acks, expired, outcome>>
    ELSE IF Top.op = "expiring"
    THEN /\ stack' = Replace([Top EXCEPT !.pc = "scan", !.slot = @ + 1, !.entry = 0])
         /\ UNCHANGED <<acks, expired, outcome>>
    ELSE /\ stack' = Below
         /\ acks' = [acks EXCEPT ![Top.slot] = Freed(Top.slot)]
         /\ expired' = expired \ {Top.slot}
         /\ outcome' = Displaced(Top.slot, Top.req)

\* The last one that counts: unsubscribe.
Unsubscribe ==
    /\ Releasing
    /\ Top.entry = 0
    /\ \E j \in Entries :
         /\ Found(<<Top.key, Top.pc>>, j)
         /\ ~subs[j].sticky /\ subs[j].count = 1
         /\ <<Top.key, Top.pc>> \in handlers
         /\ stack' = Replace([Top EXCEPT !.entry = j])
         /\ troubled' = troubled \union KeysOf(Holders(j))
    /\ UNCHANGED <<keyOf, acks, expired, subs, mqtt, world, outcome, acted>>

\* Others count, the subscription is sticky or there is none.
Release ==
    /\ Releasing
    /\ Top.entry = 0
    /\ \/ /\ \A j \in Entries : ~Found(<<Top.key, Top.pc>>, j)
          /\ UNCHANGED <<subs, troubled>>
       \/ \E j \in Entries :
            /\ Found(<<Top.key, Top.pc>>, j)
            /\ \/ subs[j].sticky
               \/ subs[j].count # 1
               \/ <<Top.key, Top.pc>> \notin handlers
            /\ subs' = IF subs[j].count > 1 THEN [subs EXCEPT ![j].count = @ - 1] ELSE subs
            /\ troubled' = troubled \union KeysOf(Holders(j))
    /\ Advance
    /\ UNCHANGED <<keyOf, mqtt, world, acted>>

\* The entry is freed if the unsubscribe succeeded.
UnsubscribeEnds ==
    /\ Releasing
    /\ Top.entry > 0
    /\ \/ /\ UNCHANGED faults
          /\ Unsubscribed(<<Top.key, Top.pc>>)
          /\ subs' = [subs EXCEPT ![Top.entry].free = TRUE]
       \/ /\ Fault
          /\ UnsubscribeFailed(<<Top.key, Top.pc>>)
          /\ UNCHANGED subs
    /\ Advance
    /\ UNCHANGED <<keyOf, service, acted>>
-----------------------------------------------------------------------------
Start == \E u \in Uses :
    StartPresent(u[1], u[2]) \/ StartSubscribing(u[1], u[2]) \/ StartCrowded(u[1], u[2])

Proceed ==
    \/ SubscribeAccepted \/ SubscribeRejected \/ SubscribeFails \/ UndoEnds
    \/ Publish \/ PublishFails
    \/ Expire \/ ScanEnds \/ YieldReturns \/ CallbackReturns
    \/ Unsubscribe \/ Release \/ UnsubscribeEnds

Next ==
    \/ \E i \in Slots : TimerExpires(i)
    \/ Connect
    \/ Start
    \/ Proceed
    \/ \E r \in Requests, status \in Answers : ReadAnswer(r, status)
    \/ Yield

Spec == Init /\ [][Next]_vars

\* The application keeps yielding, its callbacks and the calls below return, and
\* time passes.
FairSpec ==
    /\ Spec
    /\ WF_vars(Proceed)
    /\ WF_vars(Yield)
    /\ SF_vars(\E i \in Slots : TimerExpires(i))
-----------------------------------------------------------------------------
(* Properties                                                              *)

\* Every variable stays in its declared range.
TypeOK ==
    /\ Len(stack) \in 0..MaxDepth
    /\ keyOf \in Seq(Keys) /\ Len(keyOf) <= MaxCalls
    /\ acks \in [Slots -> [req : 0..MaxCalls, free : BOOLEAN]]
    /\ \A i \in Slots : acks[i].free \/ acks[i].req > 0
    /\ expired \subseteq Slots
    /\ subs \in [Entries -> [topic : Topics \union {NoTopic}, count : 0..MaxCalls,
                             sticky : BOOLEAN, free : BOOLEAN]]
    /\ deaf \subseteq handlers /\ handlers \subseteq Topics
    /\ service \subseteq Requests
    /\ faults \in 0..MaxFaults
    /\ outcome \in [Requests -> Outcomes]
    /\ acted \in BOOLEAN
    /\ troubled \subseteq Keys

\* While an action waits, both of its answers would be heard, however many
\* actions share its subscriptions and in whatever order they end.  Not so for a
\* key in disorder: one that found the list full, of which an unsubscribe was
\* lost half-way, or that a callback used while its subscriptions were being
\* changed, an entry of SubscriptionList was being passed on from it or to it, or
\* its own time-out was being reported.
WaitingIsHeard ==
    \A i \in Slots :
      \/ acks[i].free
      \/ KeyAt(i) \in troubled
      \/ \E f \in DOMAIN stack : stack[f].op \in {"answered", "expiring"} /\ stack[f].slot = i
                                 /\ stack[f].pc # "scan"
      \/ {KeyAt(i)} \X Answers \subseteq Heard

Actions == INSTANCE ShadowActions

\* An action that waits, or of which the time-out is being reported, loses its
\* record: to another one that takes it now (Publish), or to the end of a time-out
\* that was being reported when it took the record (CallbackReturns).
Overtaken(r) ==
    LET without == [outcome EXCEPT ![r] = "dropped"]
    IN /\ outcome[r] \in {"pending", "timeout"}
       /\ \/ outcome' = without
          \/ \E q \in Requests : outcome[q] = "none" /\ outcome' = [without EXCEPT ![q] = "pending"]

\* An action whose time-out is just being reported gets its answer too.
AnsweredLate(r) ==
    /\ outcome[r] = "timeout"
    /\ \E i \in Slots : TimingOut(i) /\ acks[i].req = r
    /\ \E status \in Answers : outcome' = [outcome EXCEPT ![r] = status]

\* Every action is called back at most once, and forgotten only when the client
\* connects anew, but for two things that need a callback to have started an
\* action since the last connect: an action loses its record to another one,
\* and an action is answered while its time-out is being reported.  A step that
\* does either does nothing else to the other actions.
ActionsImplemented ==
    /\ Actions!Init
    /\ [][\/ Actions!Step
          \/ Actions!Forget /\ Connect
          \/ acted /\ \E r \in Requests : Overtaken(r) \/ AnsweredLate(r)
       ]_outcome

\* Every accepted action is called back, if the application keeps yielding.
EveryActionEnds == \A r \in Requests : outcome[r] = "pending" ~> outcome[r] # "pending"
=============================================================================
