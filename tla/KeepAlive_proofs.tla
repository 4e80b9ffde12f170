-------------------------- MODULE KeepAlive_proofs --------------------------
(***************************************************************************)
(* What the keep-alive of the client promises, for every interval, gap and *)
(* delay: a dead link is noticed within DeadLinkNoticed's bound, and an    *)
(* answer that can arrive in time is never overlooked.                     *)
(***************************************************************************)
EXTENDS KeepAlive, TLAPS

\* A PINGRESP that the link's death left in the socket, or the ping timer,
\* accounts for every tick since.
DeadInv ==
    /\ link = "up" => deadFor = 0
    /\ pong = "flight" => link = "up"
    /\ connected /\ link # "up" =>
         IF pong = "socket"
         THEN deadFor <= unread
         ELSE deadFor + pingTimer <=
                (IF isPingOutstanding THEN 2 * (Interval + YieldGap) - 1
                                      ELSE Interval + YieldGap)
                + (IF pingTimer = 0 THEN unread - 1 ELSE 0)

\* While the link is up, the answer to a PINGREQ is under way or waits to be
\* read, and the timer has not run longer than that took.
AlarmInv ==
    /\ link # "up" \/ connected
    /\ connected /\ link = "up" /\ isPingOutstanding =>
         \/ pong = "flight" /\ pingTimer + age >= Interval
         \/ pong = "socket" /\ pingTimer + age + unread >= Interval

\* The two halves of TypeOK, for provers that are good at one of them.
Flags ==
    /\ connected \in BOOLEAN
    /\ isPingOutstanding \in BOOLEAN

Numbers ==
    /\ pingTimer \in 0..Interval
    /\ link \in {"up", "silent", "stalled", "closed"}
    /\ deadFor \in Nat
    /\ pong \in {"none", "flight", "socket"}
    /\ age \in 0..Delay
    /\ ahead \in Nat
    /\ behind \in Nat
    /\ unread \in 0..YieldGap

LEMMA TypeInit == Init => TypeOK
<1> SUFFICES ASSUME Init PROVE Flags /\ Numbers
    BY Zenon DEF TypeOK, Flags, Numbers
<1>1. Flags BY Zenon DEF Init, Flags
<1>2. Numbers BY KeepAliveAssumption DEF Init, Numbers
<1>3. QED BY <1>1, <1>2

LEMMA FlagsStep == Flags /\ [Next]_vars => Flags'
<1> SUFFICES ASSUME Flags, [Next]_vars PROVE Flags'
    OBVIOUS
<1>1. CASE Next
    BY <1>1, Zenon DEF Next, Tick, LinkDies, BrokerPublishes, BrokerAnswers, RequestReads,
        TurnQuiet, TurnPing, TurnDead, TurnReadFails, Connect, ReadPong, client, Flags
<1>2. CASE UNCHANGED vars BY <1>2, Zenon DEF vars, Flags
<1>3. QED BY <1>1, <1>2

LEMMA NumbersStep == Numbers /\ [Next]_vars => Numbers'
<1> SUFFICES ASSUME Numbers, [Next]_vars PROVE Numbers'
    OBVIOUS
<1> USE KeepAliveAssumption DEF Numbers
<1>1. CASE Tick BY <1>1 DEF Tick, socket
<1>2. CASE LinkDies BY <1>2 DEF LinkDies, client
<1>3. CASE BrokerPublishes BY <1>3 DEF BrokerPublishes, client
<1>4. CASE BrokerAnswers BY <1>4 DEF BrokerAnswers, client
<1>5. CASE RequestReads BY <1>5 DEF RequestReads, ReadPong, ReadOther
<1>6. CASE TurnQuiet BY <1>6 DEF TurnQuiet, TurnReads, ReadPong, ReadOther
<1>7. CASE TurnPing BY <1>7 DEF TurnPing, TurnReads, ReadOther
<1>8. CASE TurnDead BY <1>8 DEF TurnDead, TurnReads, ReadOther
<1>9. CASE TurnReadFails BY <1>9 DEF TurnReadFails, socket
<1>10. CASE Connect BY <1>10 DEF Connect
<1>11. CASE UNCHANGED vars BY <1>11 DEF vars
<1>12. QED
    BY <1>1, <1>2, <1>3, <1>4, <1>5, <1>6, <1>7, <1>8, <1>9, <1>10, <1>11 DEF Next

LEMMA TypeStep == TypeOK /\ [Next]_vars => TypeOK'
<1>1. TypeOK <=> Flags /\ Numbers BY Zenon DEF TypeOK, Flags, Numbers
<1>2. (TypeOK <=> Flags /\ Numbers)' BY Zenon DEF TypeOK, Flags, Numbers
<1>3. QED BY <1>1, <1>2, FlagsStep, NumbersStep

LEMMA DeadStep == Numbers /\ DeadInv /\ [Next]_vars => DeadInv'
<1> SUFFICES ASSUME Numbers, DeadInv, [Next]_vars PROVE DeadInv'
    OBVIOUS
<1> USE KeepAliveAssumption DEF Numbers, DeadInv
<1>1. CASE Tick BY <1>1 DEF Tick, socket
<1>2. CASE LinkDies BY <1>2 DEF LinkDies, client
<1>3. CASE BrokerPublishes BY <1>3 DEF BrokerPublishes, client
<1>4. CASE BrokerAnswers BY <1>4 DEF BrokerAnswers, client
<1>5. CASE RequestReads
    BY <1>5 DEF RequestReads, ReadPong, ReadOther, PongIsNext
<1>6. CASE TurnQuiet
    BY <1>6 DEF TurnQuiet, TurnReads, ReadPong, ReadOther, PongIsNext, SocketEmpty
<1>7. CASE TurnPing
    BY <1>7 DEF TurnPing, TurnReads, ReadOther, PongIsNext, SocketEmpty
<1>8. CASE TurnDead BY <1>8 DEF TurnDead, TurnReads
<1>9. CASE TurnReadFails BY <1>9 DEF TurnReadFails, socket
<1>10. CASE Connect BY <1>10 DEF Connect
<1>11. CASE UNCHANGED vars BY <1>11 DEF vars
<1>12. QED
    BY <1>1, <1>2, <1>3, <1>4, <1>5, <1>6, <1>7, <1>8, <1>9, <1>10, <1>11 DEF Next

LEMMA AlarmStep ==
    ASSUME Delay + YieldGap < Interval
    PROVE  Numbers /\ AlarmInv /\ [Next]_vars => AlarmInv'
<1> SUFFICES ASSUME Numbers, AlarmInv, [Next]_vars PROVE AlarmInv'
    OBVIOUS
<1> USE KeepAliveAssumption DEF Numbers, AlarmInv
<1>1. CASE Tick BY <1>1 DEF Tick, socket
<1>2. CASE LinkDies BY <1>2 DEF LinkDies, client
<1>3. CASE BrokerPublishes BY <1>3 DEF BrokerPublishes, client
<1>4. CASE BrokerAnswers BY <1>4 DEF BrokerAnswers, client
<1>5. CASE RequestReads BY <1>5 DEF RequestReads, ReadPong, ReadOther
<1>6. CASE TurnQuiet
    BY <1>6 DEF TurnQuiet, TurnReads, ReadPong, ReadOther, SocketEmpty
<1>7. CASE TurnPing BY <1>7 DEF TurnPing, TurnReads, ReadOther
<1>8. CASE TurnDead BY <1>8 DEF TurnDead, TurnReads
<1>9. CASE TurnReadFails BY <1>9 DEF TurnReadFails, ReadFails
<1>10. CASE Connect BY <1>10 DEF Connect
<1>11. CASE UNCHANGED vars BY <1>11 DEF vars
<1>12. QED
    BY <1>1, <1>2, <1>3, <1>4, <1>5, <1>6, <1>7, <1>8, <1>9, <1>10, <1>11 DEF Next
-----------------------------------------------------------------------------
\* Every variable of the keep-alive stays in its range.
THEOREM TypeCorrect == Spec => []TypeOK
<1>1. Init => TypeOK BY TypeInit
<1>2. TypeOK /\ [Next]_vars => TypeOK' BY TypeStep
<1>3. QED BY <1>1, <1>2, PTL DEF Spec

\* _aws_iot_mqtt_keep_alive notices a dead link within two ping intervals and
\* three gaps, whatever was unread in the socket when the link died.
THEOREM DeadLinkBound == Spec => []DeadLinkNoticed
<1>1. Init => Numbers /\ DeadInv
    BY KeepAliveAssumption DEF Init, Numbers, DeadInv
<1>2. Numbers /\ DeadInv /\ [Next]_vars => Numbers' /\ DeadInv'
    BY NumbersStep, DeadStep
<1>3. Numbers /\ DeadInv => DeadLinkNoticed
    BY KeepAliveAssumption DEF Numbers, DeadInv, DeadLinkNoticed
<1>4. QED BY <1>1, <1>2, <1>3, PTL DEF Spec

\* A link that is up is never given up, when the broker's delay and the gap
\* between two visits of yield leave room in the keep-alive interval.
THEOREM LiveLinkKept == Spec => []NoFalseAlarm
<1>1. CASE Delay + YieldGap < Interval
    <2>1. Init => Numbers /\ AlarmInv
        BY KeepAliveAssumption DEF Init, Numbers, AlarmInv
    <2>2. Numbers /\ AlarmInv /\ [Next]_vars => Numbers' /\ AlarmInv'
        BY <1>1, NumbersStep, AlarmStep
    <2>3. AlarmInv => NoFalseAlarm
        BY DEF AlarmInv, NoFalseAlarm
    <2>4. QED BY <2>1, <2>2, <2>3, PTL DEF Spec
<1>2. CASE ~(Delay + YieldGap < Interval)
    <2>1. NoFalseAlarm
        BY <1>2 DEF NoFalseAlarm
    <2>2. QED BY <2>1, PTL
<1>3. QED BY <1>1, <1>2
=============================================================================
