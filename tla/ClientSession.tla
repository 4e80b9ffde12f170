--------------------------- MODULE ClientSession ---------------------------
(***************************************************************************)
(* What the calls of one client promise about its connection: it is opened *)
(* only when there is none, counts as connected only once it is open, and  *)
(* is closed before the client counts as disconnected, and only in that    *)
(* state are reconnects scheduled.                                         *)
(***************************************************************************)
VARIABLES
    phase,      \* what the client state says
    session     \* whether there is a TLS session

sessionVars == <<phase, session>>

Init ==
    \/ phase = "closed" /\ session = "down"
    \/ phase = "connected" /\ session = "up"

Connect ==
    /\ phase \in {"closed", "retrying"}
    /\ session = "down"
    /\ phase' = "connecting"
    /\ UNCHANGED session

Open ==
    /\ phase = "connecting"
    /\ session = "down"
    /\ session' = "up"
    /\ UNCHANGED phase

Connected ==
    /\ phase = "connecting"
    /\ session = "up"
    /\ phase' = "connected"
    /\ UNCHANGED session

ConnectFails ==
    /\ phase = "connecting"
    /\ session = "down"
    /\ phase' = "closed"
    /\ UNCHANGED session

Disconnect ==
    /\ phase = "connected"
    /\ session = "up"
    /\ phase' = "closing"
    /\ UNCHANGED session

Close ==
    /\ phase = "closing"
    /\ session = "up"
    /\ session' = "down"
    /\ UNCHANGED phase

Disconnected ==
    /\ phase = "closing"
    /\ session = "down"
    /\ phase' = "closed"
    /\ UNCHANGED session

Retry ==
    /\ phase = "closed"
    /\ session = "down"
    /\ phase' = "retrying"
    /\ UNCHANGED session

Next == \/ Connect \/ Open \/ Connected \/ ConnectFails
        \/ Disconnect \/ Close \/ Disconnected \/ Retry

Spec == Init /\ [][Next]_sessionVars
=============================================================================
