--------------------------- MODULE Wrapper_proofs ---------------------------
(* Theorems about Wrapper, for every number of connections.                *)
EXTENDS Wrapper, TLAPS

\* What makes the two invariants inductive: without disconnect() an object that
\* is not connected has no task, and a connection was always preceded by one.
IInv ==
    /\ TypeOK
    /\ ConnectedIsServed
    /\ ~resigned /\ ~connected => tasks = 0
    /\ app # "loop" /\ ~resigned => ~connected

\* The initial state satisfies the invariant.
LEMMA InitIInv == Init => IInv
<1> SUFFICES ASSUME Init PROVE IInv
  OBVIOUS
<1>1. /\ connected \in BOOLEAN /\ discovered \in BOOLEAN /\ starved \in BOOLEAN
      /\ up \in BOOLEAN /\ resigned \in BOOLEAN
  BY Zenon DEF Init
<1> QED
  BY <1>1, WrapperAssumption DEF Init, IInv, TypeOK, ConnectedIsServed

\* Every step keeps it.
LEMMA NextIInv == IInv /\ [Next]_vars => IInv'
<1> SUFFICES ASSUME IInv, [Next]_vars PROVE IInv'
  OBVIOUS
<1> USE DEF IInv, TypeOK, ConnectedIsServed, object
<1>1. CASE NewObject
  <2>1. connected' \in BOOLEAN /\ discovered' \in BOOLEAN
    BY <1>1, Zenon DEF NewObject
  <2>2. starved' \in BOOLEAN /\ up' \in BOOLEAN /\ resigned' \in BOOLEAN
    BY <1>1, Zenon DEF NewObject
  <2> QED
    BY <1>1, <2>1, <2>2, WrapperAssumption DEF NewObject
<1>2. CASE Disconnect
  <2>1. connected' \in BOOLEAN /\ discovered' \in BOOLEAN
    BY <1>2, Zenon DEF Disconnect
  <2>2. starved' \in BOOLEAN /\ up' \in BOOLEAN /\ resigned' \in BOOLEAN
    BY <1>2, Zenon DEF Disconnect
  <2> QED
    BY <1>2, <2>1, <2>2, WrapperAssumption DEF Disconnect
<1>3. CASE ConnectToGG
  <2>1. connected' \in BOOLEAN /\ discovered' \in BOOLEAN
    BY <1>3, Zenon DEF ConnectToGG
  <2>2. starved' \in BOOLEAN /\ up' \in BOOLEAN /\ resigned' \in BOOLEAN
    BY <1>3, Zenon DEF ConnectToGG
  <2> QED
    BY <1>3, <2>1, <2>2, WrapperAssumption DEF ConnectToGG
<1>4. CASE ConnectToIoTCore
  <2>1. connected' \in BOOLEAN /\ discovered' \in BOOLEAN
    BY <1>4, Zenon DEF ConnectToIoTCore
  <2>2. starved' \in BOOLEAN /\ up' \in BOOLEAN /\ resigned' \in BOOLEAN
    BY <1>4, Zenon DEF ConnectToIoTCore
  <2> QED
    BY <1>4, <2>1, <2>2, WrapperAssumption DEF ConnectToIoTCore
<1>5. CASE DiscoveryFails
  <2>1. connected' \in BOOLEAN /\ discovered' \in BOOLEAN
    BY <1>5, Zenon DEF DiscoveryFails
  <2>2. starved' \in BOOLEAN /\ up' \in BOOLEAN /\ resigned' \in BOOLEAN
    BY <1>5, Zenon DEF DiscoveryFails
  <2> QED
    BY <1>5, <2>1, <2>2, WrapperAssumption DEF DiscoveryFails
<1>6. CASE Discovered
  <2>1. connected' \in BOOLEAN /\ discovered' \in BOOLEAN
    BY <1>6, Zenon DEF Discovered
  <2>2. starved' \in BOOLEAN /\ up' \in BOOLEAN /\ resigned' \in BOOLEAN
    BY <1>6, Zenon DEF Discovered
  <2> QED
    BY <1>6, <2>1, <2>2, WrapperAssumption DEF Discovered
<1>7. CASE InitClient
  <2>1. connected' \in BOOLEAN /\ discovered' \in BOOLEAN
    BY <1>7, Zenon DEF InitClient
  <2>2. starved' \in BOOLEAN /\ up' \in BOOLEAN /\ resigned' \in BOOLEAN
    BY <1>7, Zenon DEF InitClient
  <2> QED
    BY <1>7, <2>1, <2>2, WrapperAssumption DEF InitClient
<1>8. CASE ConnectFails
  <2>1. connected' \in BOOLEAN /\ discovered' \in BOOLEAN
    BY <1>8, Zenon DEF ConnectFails
  <2>2. starved' \in BOOLEAN /\ up' \in BOOLEAN /\ resigned' \in BOOLEAN
    BY <1>8, Zenon DEF ConnectFails
  <2> QED
    BY <1>8, <2>1, <2>2, WrapperAssumption DEF ConnectFails
<1>9. CASE Connected
  <2>1. connected' \in BOOLEAN /\ discovered' \in BOOLEAN
    BY <1>9, Zenon DEF Connected
  <2>2. starved' \in BOOLEAN /\ up' \in BOOLEAN /\ resigned' \in BOOLEAN
    BY <1>9, Zenon DEF Connected
  <2> QED
    BY <1>9, <2>1, <2>2, WrapperAssumption DEF Connected
<1>10. CASE LinkLost
  <2>1. connected' \in BOOLEAN /\ discovered' \in BOOLEAN
    BY <1>10, Zenon DEF LinkLost, EnableAutoReconnect, Yielding
  <2>2. starved' \in BOOLEAN /\ up' \in BOOLEAN /\ resigned' \in BOOLEAN
    BY <1>10, Zenon DEF LinkLost, EnableAutoReconnect, Yielding
  <2> QED
    BY <1>10, <2>1, <2>2, WrapperAssumption DEF LinkLost, EnableAutoReconnect, Yielding
<1>11. CASE Reconnected
  <2>1. connected' \in BOOLEAN /\ discovered' \in BOOLEAN
    BY <1>11, Zenon DEF Reconnected, Yielding
  <2>2. starved' \in BOOLEAN /\ up' \in BOOLEAN /\ resigned' \in BOOLEAN
    BY <1>11, Zenon DEF Reconnected, Yielding
  <2> QED
    BY <1>11, <2>1, <2>2, WrapperAssumption DEF Reconnected, Yielding
<1>12. CASE GivesUp
  <2>1. connected' \in BOOLEAN /\ discovered' \in BOOLEAN
    BY <1>12, Zenon DEF GivesUp, Yielding
  <2>2. starved' \in BOOLEAN /\ up' \in BOOLEAN /\ resigned' \in BOOLEAN
    BY <1>12, Zenon DEF GivesUp, Yielding
  <2> QED
    BY <1>12, <2>1, <2>2, WrapperAssumption DEF GivesUp, Yielding
<1>13. CASE Network
  <2>1. connected' \in BOOLEAN /\ discovered' \in BOOLEAN
    BY <1>13, Zenon DEF Network
  <2>2. starved' \in BOOLEAN /\ up' \in BOOLEAN /\ resigned' \in BOOLEAN
    BY <1>13, Zenon DEF Network
  <2> QED
    BY <1>13, <2>1, <2>2, WrapperAssumption DEF Network
<1>14. CASE UNCHANGED vars
  <2>1. connected' \in BOOLEAN /\ discovered' \in BOOLEAN
    BY <1>14, Zenon DEF vars
  <2>2. starved' \in BOOLEAN /\ up' \in BOOLEAN /\ resigned' \in BOOLEAN
    BY <1>14, Zenon DEF vars
  <2> QED
    BY <1>14, <2>1, <2>2, WrapperAssumption DEF vars
<1> QED
  BY <1>1, <1>2, <1>3, <1>4, <1>5, <1>6, <1>7, <1>8, <1>9, <1>10, <1>11, <1>12, <1>13, <1>14 DEF Next, App

\* The invariant holds throughout.
LEMMA AlwaysIInv == Spec => []IInv
BY InitIInv, NextIInv, PTL DEF Spec

\* Every variable stays in its range.
THEOREM TypeCorrect == Spec => []TypeOK
<1>1. IInv => TypeOK
  BY DEF IInv
<1> QED
  BY <1>1, AlwaysIInv, PTL

\* isConnected() means that the client was connected and, unless there was no
\* memory for the task, that a task reads from it.
THEOREM Served == Spec => []ConnectedIsServed
<1>1. IInv => ConnectedIsServed
  BY DEF IInv
<1> QED
  BY <1>1, AlwaysIInv, PTL

\* Without disconnect() the client is never initialised under a running task,
\* however often discovery and connection fail and objects are replaced.
THEOREM NeverUnderATask == Spec => []NotUnderATask
<1>1. IInv => NotUnderATask
  BY DEF IInv, NotUnderATask
<1> QED
  BY <1>1, AlwaysIInv, PTL
=============================================================================
