----------------------------- MODULE KeepAlive -----------------------------
(***************************************************************************)
(* Keep-alive: the loop of aws_iot_mqtt_yield reads one packet per turn    *)
(* and then looks at pingTimer.  A PINGREQ that is still unanswered when   *)
(* the timer expires again means that the link is dead.  Time is counted   *)
(* in ticks; the application calls yield as often as its contract asks     *)
(* ("at a rate faster than the keepalive interval ... faster than the      *)
(* incoming message rate").                                                *)
(***************************************************************************)
EXTENDS Integers

CONSTANTS
    Interval,    \* keepAliveInterval, in ticks
    YieldGap,    \* yield finds the socket empty at least this often
    Delay,       \* the broker answers a PINGREQ within this time
    MaxBacklog   \* bound of the model: unread packets in the socket

ASSUME KeepAliveAssumption ==
    /\ Interval \in Nat \ {0}
    /\ YieldGap \in Nat \ {0}
    /\ Delay \in Nat
    /\ MaxBacklog \in Nat

VARIABLES
    connected,        \* FALSE from _aws_iot_mqtt_handle_disconnect to the next connect
    isPingOutstanding,
    pingTimer,        \* ticks left, 0 when expired
    link,             \* "up"; "silent": writes vanish; "stalled": writes time out;
                      \* "closed": reads and writes fail
    deadFor,          \* ticks since the link died
    pong,             \* the PINGRESP: "none", "flight" or in the "socket"
    age,              \* ticks the PINGREQ in flight has taken
    ahead, behind,    \* packets in the socket before and after the PINGRESP
    unread            \* ticks since yield last found the socket empty

vars == <<connected, isPingOutstanding, pingTimer, link, deadFor, pong, age,
          ahead, behind, unread>>
client == <<connected, isPingOutstanding, pingTimer>>
socket == <<pong, ahead, behind>>

\* aws_iot_mqtt_connect was accepted.
Init ==
    /\ connected = TRUE
    /\ isPingOutstanding = FALSE
    /\ pingTimer = Interval
    /\ link = "up"
    /\ deadFor = 0
    /\ pong = "none"
    /\ age = 0
    /\ ahead = 0
    /\ behind = 0
    /\ unread = 0
-----------------------------------------------------------------------------
(* The world: time, the link and the broker.                               *)

Tick ==
    /\ connected
    /\ unread < YieldGap
    /\ pong = "flight" => age < Delay
    /\ unread' = unread + 1
    /\ pingTimer' = IF pingTimer = 0 THEN 0 ELSE pingTimer - 1
    /\ age' = IF pong = "flight" THEN age + 1 ELSE age
    /\ deadFor' = IF link = "up" THEN 0 ELSE deadFor + 1
    /\ UNCHANGED <<connected, isPingOutstanding, link, socket>>

\* What is in the socket stays there; what is in flight is lost.
LinkDies ==
    /\ connected
    /\ link = "up"
    /\ link' \in {"silent", "stalled", "closed"}
    /\ pong' = IF pong = "flight" THEN "none" ELSE pong
    /\ UNCHANGED <<client, deadFor, age, ahead, behind, unread>>

BrokerPublishes ==
    /\ connected
    /\ link = "up"
    /\ ahead + behind < MaxBacklog
    /\ IF pong = "socket"
       THEN behind' = behind + 1 /\ UNCHANGED ahead
       ELSE ahead' = ahead + 1 /\ UNCHANGED behind
    /\ UNCHANGED <<client, link, deadFor, pong, age, unread>>

BrokerAnswers ==
    /\ connected
    /\ link = "up"
    /\ pong = "flight"
    /\ pong' = "socket"
    /\ UNCHANGED <<client, link, deadFor, age, ahead, behind, unread>>
-----------------------------------------------------------------------------
(***************************************************************************)
(* aws_iot_mqtt_internal_cycle_read: take the next packet, if there is     *)
(* one.  A PINGRESP clears the outstanding ping and restarts the timer.    *)
(***************************************************************************)
SocketEmpty == pong # "socket" /\ ahead = 0
PongIsNext == pong = "socket" /\ ahead = 0
ReadFails == link = "closed" /\ SocketEmpty

ReadPong ==
    /\ PongIsNext
    /\ pong' = "none"
    /\ ahead' = behind
    /\ behind' = 0
    /\ isPingOutstanding' = FALSE
    /\ pingTimer' = Interval

ReadOther ==
    /\ ~PongIsNext
    /\ ahead' = IF ahead = 0 THEN 0 ELSE ahead - 1
    /\ UNCHANGED behind

\* A request waits for its acknowledgement: packets are read, the timer is not
\* looked at, and the caller sees what goes wrong.
RequestReads ==
    /\ connected
    /\ \/ ReadPong
       \/ ReadOther /\ UNCHANGED <<pong, isPingOutstanding, pingTimer>>
    /\ UNCHANGED <<connected, link, deadFor, age, unread>>

\* A turn of _aws_iot_mqtt_internal_yield whose read works out.
TurnReads ==
    /\ connected
    /\ ~ReadFails
    /\ unread' = IF SocketEmpty THEN 0 ELSE unread
    /\ UNCHANGED <<link, deadFor>>

\* _aws_iot_mqtt_keep_alive finds nothing to do, ...
TurnQuiet ==
    /\ TurnReads
    /\ \/ ReadPong
       \/ ReadOther /\ pingTimer > 0 /\ UNCHANGED <<pong, isPingOutstanding, pingTimer>>
    /\ UNCHANGED <<connected, age>>

\* Mutants of TurnPing: isPingOutstanding forgotten; the timer armed in the
\* wrong unit.
TurnPingForgotten ==
    /\ TurnReads
    /\ ReadOther
    /\ pingTimer = 0
    /\ ~isPingOutstanding
    /\ pong' = IF link = "up" THEN "flight" ELSE pong
    /\ age' = 0
    /\ pingTimer' = Interval
    /\ UNCHANGED <<connected, isPingOutstanding>>

TurnPingInMilliseconds ==
    /\ TurnReads
    /\ ReadOther
    /\ pingTimer = 0
    /\ ~isPingOutstanding
    /\ pong' = IF link = "up" THEN "flight" ELSE pong
    /\ age' = 0
    /\ isPingOutstanding' = TRUE
    /\ pingTimer' = 1000 * Interval
    /\ UNCHANGED connected

\* ... sends a PINGREQ (send_packet hides that a write failed: the PINGREQ
\* counts as sent), ...
TurnPing ==
    /\ TurnReads
    /\ ReadOther
    /\ pingTimer = 0
    /\ ~isPingOutstanding
    /\ pong' = IF link = "up" THEN "flight" ELSE pong
    /\ age' = 0
    /\ isPingOutstanding' = TRUE
    /\ pingTimer' = Interval
    /\ UNCHANGED connected

\* ... or gives the link up.
TurnDead ==
    /\ TurnReads
    /\ ReadOther
    /\ pingTimer = 0
    /\ isPingOutstanding
    /\ connected' = FALSE
    /\ UNCHANGED <<isPingOutstanding, pingTimer, pong, age>>

\* A read that fails does so at once.
TurnReadFails ==
    /\ connected
    /\ ReadFails
    /\ connected' = FALSE
    /\ UNCHANGED <<isPingOutstanding, pingTimer, link, deadFor, socket, age,
                   unread>>

\* A mutant of Connect: the ping of the last session stays outstanding.
ConnectKeepsPing ==
    /\ ~connected
    /\ connected' = TRUE
    /\ pingTimer' = Interval
    /\ link' = "up"
    /\ deadFor' = 0
    /\ pong' = "none"
    /\ age' = 0
    /\ ahead' = 0
    /\ behind' = 0
    /\ unread' = 0
    /\ UNCHANGED isPingOutstanding

\* _aws_iot_mqtt_internal_connect on a new socket, accepted by the broker.
Connect ==
    /\ ~connected
    /\ connected' = TRUE
    /\ isPingOutstanding' = FALSE
    /\ pingTimer' = Interval
    /\ link' = "up"
    /\ deadFor' = 0
    /\ pong' = "none"
    /\ age' = 0
    /\ ahead' = 0
    /\ behind' = 0
    /\ unread' = 0
-----------------------------------------------------------------------------
Next ==
    \/ Tick \/ LinkDies \/ BrokerPublishes \/ BrokerAnswers
    \/ RequestReads \/ TurnQuiet \/ TurnPing \/ TurnDead \/ TurnReadFails \/ Connect

Spec == Init /\ [][Next]_vars
-----------------------------------------------------------------------------
(* Properties                                                              *)

\* Every variable stays in its declared range.
TypeOK ==
    /\ connected \in BOOLEAN
    /\ isPingOutstanding \in BOOLEAN
    /\ pingTimer \in 0..Interval
    /\ link \in {"up", "silent", "stalled", "closed"}
    /\ deadFor \in Nat
    /\ pong \in {"none", "flight", "socket"}
    /\ age \in 0..Delay
    /\ ahead \in Nat
    /\ behind \in Nat
    /\ unread \in 0..YieldGap

\* A dead link is noticed after two expiries of the ping timer, each less than
\* a gap late, and up to one gap for a PINGRESP that was left in the socket; a
\* request in progress and a backlog of packets do not delay this.
DeadLinkNoticed == 
    connected => deadFor <= 2 * (Interval + YieldGap - 1) + YieldGap

\* A live link is not taken for dead, as long as the answer and the gap before
\* it is read fit into the interval, whatever is queued before the PINGRESP.
NoFalseAlarm == Delay + YieldGap < Interval /\ link = "up" => connected
=============================================================================
