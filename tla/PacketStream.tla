---------------------------- MODULE PacketStream ----------------------------
(***************************************************************************)
(* What reading packets from a connection promises: they come out in the   *)
(* order they were sent, each of them whole, except those that are too     *)
(* large, which are dropped whole, and those lost with the connection.     *)
(***************************************************************************)
EXTENDS Integers, Sequences

CONSTANTS
    Packets,      \* everything that may be sent
    Fits(_),      \* the packets that the reader has room for
    MaxSent       \* bound of the model: packets sent in a behaviour

VARIABLES
    sent,         \* how many packets were sent
    pending,      \* sent and not yet dealt with
    got           \* handed over

streamVars == <<sent, pending, got>>

Init ==
    /\ sent = 0
    /\ pending = <<>>
    /\ got = <<>>

Send ==
    /\ sent < MaxSent
    /\ sent' = sent + 1
    /\ \E p \in Packets : pending' = Append(pending, p)
    /\ UNCHANGED got

Deliver ==
    /\ pending # <<>>
    /\ Fits(Head(pending))
    /\ got' = Append(got, Head(pending))
    /\ pending' = Tail(pending)
    /\ UNCHANGED sent

Drop ==
    /\ pending # <<>>
    /\ ~Fits(Head(pending))
    /\ pending' = Tail(pending)
    /\ UNCHANGED <<sent, got>>

Lose ==
    /\ pending' = <<>>
    /\ UNCHANGED <<sent, got>>

Next == Send \/ Deliver \/ Drop \/ Lose

Spec == Init /\ [][Next]_streamVars
=============================================================================
