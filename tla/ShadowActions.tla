--------------------------- MODULE ShadowActions ---------------------------
(***************************************************************************)
(* What a shadow action with a callback promises: once the call has        *)
(* returned SUCCESS the callback is called exactly once, with the answer   *)
(* of the service or with a time-out, unless the client connects anew and  *)
(* forgets the actions in progress.                                        *)
(***************************************************************************)
CONSTANT Requests      \* the actions of a behaviour

VARIABLE outcome       \* what became of each

Init == outcome = [r \in Requests |-> "none"]

Accept(r) ==
    /\ outcome[r] = "none"
    /\ outcome' = [outcome EXCEPT ![r] = "pending"]

CallBack(r, status) ==
    /\ outcome[r] = "pending"
    /\ outcome' = [outcome EXCEPT ![r] = status]

Forget ==
    outcome' = [r \in Requests |-> IF outcome[r] = "pending" THEN "dropped" ELSE outcome[r]]

Step ==
    \E r \in Requests :
      \/ Accept(r)
      \/ \E status \in {"accepted", "rejected", "timeout"} : CallBack(r, status)

Next == Step \/ Forget

Spec == Init /\ [][Next]_outcome
=============================================================================
