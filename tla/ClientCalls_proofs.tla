------------------------ MODULE ClientCalls_proofs ------------------------
(***************************************************************************)
(* Proofs about ClientCalls.                                               *)
(***************************************************************************)
EXTENDS ClientCalls, TLAPS

-----------------------------------------------------------------------------
(***************************************************************************)
(* What the stack operations do to the frames.                             *)
(***************************************************************************)
ResultCodes == {"none", "ok", "error", "already", "skip"}

\* Goto and GotoWith change only the top frame of t, and neither its
\* operation nor what it saved.
TopMoves(t) ==
    /\ depth' = depth
    /\ frame' \in [Tasks -> [0..MaxDepth -> Frames]]
    /\ frame'[t][depth[t]].op = frame[t][depth[t]].op
    /\ frame'[t][depth[t]].saved = frame[t][depth[t]].saved
    /\ \A u \in Tasks : \A j \in 0..MaxDepth :
         u # t \/ j # depth[t] => frame'[u][j] = frame[u][j]

LEMMA DepthBound == MaxDepth \in Nat /\ MaxDepth >= 4
  BY CallsAssumption, SMT DEF MaxDepth

LEMMA GotoFrames ==
  ASSUME TypeOK, NEW t \in Tasks, NEW at \in Points, Goto(t, at)
  PROVE  TopMoves(t) /\ frame'[t][depth[t]].at = at
                     /\ frame'[t][depth[t]].rc = frame[t][depth[t]].rc
<1> DEFINE d == depth[t]
           f == frame[t][d]
           g == [f EXCEPT !.at = at]
<1>1. d \in 0..MaxDepth /\ f \in Frames /\ frame[t] \in [0..MaxDepth -> Frames]
      /\ frame \in [Tasks -> [0..MaxDepth -> Frames]]
  BY DepthBound DEF TypeOK
<1>2. g \in Frames /\ g.op = f.op /\ g.saved = f.saved /\ g.at = at /\ g.rc = f.rc
  BY <1>1 DEF Frames
<1>3. frame' = [frame EXCEPT ![t] = [frame[t] EXCEPT ![d] = g]] /\ depth' = depth
  BY <1>1 DEF Goto
<1> HIDE DEF d, f, g
<1>4. frame' \in [Tasks -> [0..MaxDepth -> Frames]]
  BY <1>1, <1>2, <1>3
<1>5. frame'[t][d] = g
  BY <1>1, <1>2, <1>3
<1>6. \A u \in Tasks : \A j \in 0..MaxDepth :
         u # t \/ j # d => frame'[u][j] = frame[u][j]
  BY <1>1, <1>2, <1>3
<1> QED BY <1>2, <1>3, <1>4, <1>5, <1>6 DEF d, f, TopMoves

LEMMA GotoWithFrames ==
  ASSUME TypeOK, NEW t \in Tasks, NEW at \in Points, NEW rc \in ResultCodes,
         GotoWith(t, at, rc)
  PROVE  TopMoves(t) /\ frame'[t][depth[t]].at = at /\ frame'[t][depth[t]].rc = rc
<1> DEFINE d == depth[t]
           f == frame[t][d]
           g == [f EXCEPT !.at = at, !.rc = rc]
<1>1. d \in 0..MaxDepth /\ f \in Frames /\ frame[t] \in [0..MaxDepth -> Frames]
      /\ frame \in [Tasks -> [0..MaxDepth -> Frames]]
  BY DepthBound DEF TypeOK
<1>2. g \in Frames /\ g.op = f.op /\ g.saved = f.saved /\ g.at = at /\ g.rc = rc
  BY <1>1 DEF Frames, ResultCodes
<1>3. frame' = [frame EXCEPT ![t] = [frame[t] EXCEPT ![d] = g]] /\ depth' = depth
  BY <1>1 DEF GotoWith
<1> HIDE DEF d, f, g
<1>4. frame' \in [Tasks -> [0..MaxDepth -> Frames]]
  BY <1>1, <1>2, <1>3
<1>5. frame'[t][d] = g
  BY <1>1, <1>2, <1>3
<1>6. \A u \in Tasks : \A j \in 0..MaxDepth :
         u # t \/ j # d => frame'[u][j] = frame[u][j]
  BY <1>1, <1>2, <1>3
<1> QED BY <1>2, <1>3, <1>4, <1>5, <1>6 DEF d, f, TopMoves

\* Call adds a frame above the top one, which keeps its operation and what it
\* saved.
Calls(t, callee) ==
    /\ depth[t] + 1 \in 1..MaxDepth
    /\ depth' = [depth EXCEPT ![t] = depth[t] + 1]
    /\ frame' \in [Tasks -> [0..MaxDepth -> Frames]]
    /\ frame'[t][depth[t] + 1] = callee
    /\ frame'[t][depth[t]].op = frame[t][depth[t]].op
    /\ frame'[t][depth[t]].saved = frame[t][depth[t]].saved
    /\ \A u \in Tasks : \A j \in 0..MaxDepth :
         u # t \/ j \notin {depth[t], depth[t] + 1} => frame'[u][j] = frame[u][j]

LEMMA CallFrames ==
  ASSUME TypeOK, NEW t \in Tasks, NEW at \in Points, NEW callee \in Frames,
         Call(t, at, callee)
  PROVE  Calls(t, callee) /\ frame'[t][depth[t]].at = at
                          /\ frame'[t][depth[t]].rc = "none"
<1> DEFINE d == depth[t]
           f == frame[t][d]
           g == [f EXCEPT !.at = at, !.rc = "none"]
<1>1. /\ d \in 0..MaxDepth /\ f \in Frames /\ frame[t] \in [0..MaxDepth -> Frames]
      /\ frame \in [Tasks -> [0..MaxDepth -> Frames]]
      /\ depth \in [Tasks -> 0..MaxDepth]
      /\ d + 1 \in 1..MaxDepth
  BY DepthBound DEF TypeOK, Call
<1>2. g \in Frames /\ g.op = f.op /\ g.saved = f.saved /\ g.at = at /\ g.rc = "none"
  BY <1>1 DEF Frames
<1>3. /\ frame' = [frame EXCEPT ![t] = [frame[t] EXCEPT ![d] = g, ![d + 1] = callee]]
      /\ depth' = [depth EXCEPT ![t] = d + 1]
  BY <1>1 DEF Call
<1> HIDE DEF d, f, g
<1>4. [frame[t] EXCEPT ![d] = g, ![d + 1] = callee] \in [0..MaxDepth -> Frames]
  BY <1>1, <1>2
<1>5. frame' \in [Tasks -> [0..MaxDepth -> Frames]]
  BY <1>1, <1>3, <1>4
<1>6. frame'[t][d] = g /\ frame'[t][d + 1] = callee
  BY <1>1, <1>2, <1>3
<1>7. \A u \in Tasks : \A j \in 0..MaxDepth :
         u # t \/ j \notin {d, d + 1} => frame'[u][j] = frame[u][j]
  BY <1>1, <1>2, <1>3
<1> QED BY <1>1, <1>2, <1>3, <1>5, <1>6, <1>7 DEF d, f, Calls

\* Return removes the top frame and tells the one below how the call ended.
Returns(t) ==
    /\ depth[t] - 1 \in 0..MaxDepth
    /\ depth' = [depth EXCEPT ![t] = depth[t] - 1]
    /\ frame' \in [Tasks -> [0..MaxDepth -> Frames]]
    /\ frame'[t][depth[t] - 1].op = frame[t][depth[t] - 1].op
    /\ frame'[t][depth[t] - 1].at = frame[t][depth[t] - 1].at
    /\ frame'[t][depth[t] - 1].saved = frame[t][depth[t] - 1].saved
    /\ \A u \in Tasks : \A j \in 0..MaxDepth :
         u # t \/ j \notin {depth[t], depth[t] - 1} => frame'[u][j] = frame[u][j]

LEMMA ReturnFrames ==
  ASSUME TypeOK, NEW t \in Tasks, NEW rc \in ResultCodes, depth[t] # 0,
         Return(t, rc)
  PROVE  Returns(t) /\ frame'[t][depth[t] - 1].rc = rc
<1> DEFINE d == depth[t]
           f == frame[t][d - 1]
           g == [f EXCEPT !.rc = rc]
           h == [frame EXCEPT ![t] = [frame[t] EXCEPT ![d] = Idle]]
<1>1. /\ d \in 1..MaxDepth /\ d - 1 \in 0..MaxDepth
      /\ f \in Frames /\ frame[t] \in [0..MaxDepth -> Frames]
      /\ frame \in [Tasks -> [0..MaxDepth -> Frames]]
      /\ depth \in [Tasks -> 0..MaxDepth]
  BY DepthBound DEF TypeOK
<1>2. g \in Frames /\ g.op = f.op /\ g.saved = f.saved /\ g.at = f.at /\ g.rc = rc
  BY <1>1 DEF Frames, ResultCodes
<1>3. Idle \in Frames
  BY DEF Idle, Frame, Frames, Points, ClientStates, ConnectedStates
<1>4. frame' = [h EXCEPT ![t][d - 1].rc = rc] /\ depth' = [depth EXCEPT ![t] = d - 1]
  BY <1>1 DEF Return
<1>5. h \in [Tasks -> [0..MaxDepth -> Frames]] /\ h[t][d - 1] = f
  BY <1>1, <1>3
<1>6. \A u \in Tasks : \A j \in 0..MaxDepth :
         u # t \/ j # d => h[u][j] = frame[u][j]
  BY <1>1, <1>3
<1> HIDE DEF d, f, h
<1>7. frame' = [h EXCEPT ![t] = [h[t] EXCEPT ![d - 1] = g]]
  BY <1>1, <1>4, <1>5
<1> HIDE DEF g
<1>8. frame' \in [Tasks -> [0..MaxDepth -> Frames]] /\ frame'[t][d - 1] = g
  BY <1>1, <1>2, <1>5, <1>7
<1>9. \A u \in Tasks : \A j \in 0..MaxDepth :
         u # t \/ j \notin {d, d - 1} => frame'[u][j] = frame[u][j]
  BY <1>1, <1>2, <1>5, <1>6, <1>7
<1> QED BY <1>1, <1>2, <1>4, <1>8, <1>9 DEF d, f, Returns
-----------------------------------------------------------------------------
(* Types: every step moves the top frame of a task, calls or returns, and   *)
(* the task's own code stays at the bottom of its stack.                    *)

BaseFrame == \A t \in Tasks : frame[t][0].op = "task"
TInv == TypeOK /\ BaseFrame

\* A call that ends with a call of another function: the top frame becomes new.
Replaces(t, new) ==
    /\ depth' = depth
    /\ frame' \in [Tasks -> [0..MaxDepth -> Frames]]
    /\ frame'[t][depth[t]] = new
    /\ \A u \in Tasks : \A j \in 0..MaxDepth :
         u # t \/ j # depth[t] => frame'[u][j] = frame[u][j]

LEMMA ReplaceFrames ==
  ASSUME TypeOK, NEW t \in Tasks, NEW new \in Frames, UNCHANGED depth,
         frame' = [frame EXCEPT ![t][depth[t]] = new]
  PROVE  Replaces(t, new)
<1>1. /\ depth[t] \in 0..MaxDepth
      /\ frame[t] \in [0..MaxDepth -> Frames]
      /\ frame \in [Tasks -> [0..MaxDepth -> Frames]]
  BY DepthBound DEF TypeOK
<1>2. frame' = [frame EXCEPT ![t] = [frame[t] EXCEPT ![depth[t]] = new]]
  OBVIOUS
<1> QED BY <1>1, <1>2 DEF Replaces

\* The shapes of a step.
StackStep(t) ==
    \/ TopMoves(t)
    \/ \E callee \in Frames : Calls(t, callee)
    \/ depth[t] # 0 /\ Returns(t)
    \/ depth[t] # 0 /\ \E new \in Frames : Replaces(t, new)
    \/ UNCHANGED <<frame, depth>>

DataTyped ==
    /\ clientState' \in ClientStates
    /\ holder' \in Tasks \cup {NoTask}
    /\ tls' \in {"up", "down"}
    /\ doublings' \in -1..(MaxDoublings + 1)

LEMMA StackTyped ==
  ASSUME TInv, NEW t \in Tasks, StackStep(t), DataTyped
  PROVE  TInv'
<1>1. depth' \in [Tasks -> 0..MaxDepth] /\ frame' \in [Tasks -> [0..MaxDepth -> Frames]]
  <2>1. depth \in [Tasks -> 0..MaxDepth] /\ frame \in [Tasks -> [0..MaxDepth -> Frames]]
    BY DEF TInv, TypeOK
  <2> QED BY <2>1, DepthBound DEF StackStep, TopMoves, Calls, Returns, Replaces
<1> USE DepthBound DEF TInv, TypeOK, BaseFrame
<1>2. ASSUME NEW u \in Tasks PROVE frame'[u][0].op = "task"
  <2>1. CASE TopMoves(t)
    BY <2>1 DEF TopMoves
  <2>2. CASE \E callee \in Frames : Calls(t, callee)
    <3>1. depth[t] \in 0..MaxDepth
      OBVIOUS
    <3>2. CASE u = t /\ depth[t] = 0
      BY <2>2, <3>2 DEF Calls
    <3>3. CASE u # t \/ depth[t] # 0
      <4>1. 0 \in 0..MaxDepth /\ (u # t \/ 0 \notin {depth[t], depth[t] + 1})
        BY <3>1, <3>3
      <4>2. frame'[u][0] = frame[u][0]
        BY <2>2, <4>1, Zenon DEF Calls
      <4> QED BY <4>2
    <3> QED BY <3>2, <3>3
  <2>3. CASE depth[t] # 0 /\ Returns(t)
    <3>1. CASE u = t /\ depth[t] - 1 = 0
      BY <2>3, <3>1 DEF Returns
    <3>2. CASE u # t \/ depth[t] - 1 # 0
      <4>1. u # t \/ 0 \notin {depth[t], depth[t] - 1}
        BY <2>3, <3>2
      <4> QED BY <2>3, <4>1 DEF Returns
    <3> QED BY <3>1, <3>2
  <2>4. CASE depth[t] # 0 /\ \E new \in Frames : Replaces(t, new)
    <3>1. 0 \in 0..MaxDepth /\ (u # t \/ 0 # depth[t])
      BY <2>4
    <3>2. frame'[u][0] = frame[u][0]
      BY <2>4, <3>1, Zenon DEF Replaces
    <3> QED BY <3>2
  <2> QED BY <2>1, <2>2, <2>3, <2>4 DEF StackStep
<1> QED BY <1>1, <1>2 DEF DataTyped

LEMMA TopTyped ==
  ASSUME TInv, NEW t \in Tasks
  PROVE  /\ Top(t) \in Frames
         /\ Top(t).saved \in ClientStates
         /\ Top(t).at \in Points
         /\ Top(t).op # "task" => depth[t] # 0
  BY DepthBound DEF TInv, TypeOK, BaseFrame, Top, Frames

LEMMA FrameTyped ==
  ASSUME NEW op \in Ops \cup {"task", "deliver"}, NEW at \in Points,
         NEW saved \in ClientStates
  PROVE  Frame(op, at, saved) \in Frames
  BY DEF Frame, Frames

LEMMA ControlPoints ==
  {"run", "claim", "body", "release", "undo", "mark", "callback", "unmark",
   "network", "established", "failed", "finish", "start", "check", "resubscribe",
   "giveup", "loop", "read", "cond", "reconnected", "reclaim", "dropped",
   "handler", "handled", "pend"} \subseteq Points
  BY DEF Points

LEMMA StateNames ==
  /\ ClientStates = {"IDLE", "YIELD", "PUBLISH", "SUBSCRIBE", "UNSUBSCRIBE",
                     "RESUBSCRIBE", "WAIT_FOR_CB", "INITIALIZED", "DISCONNECTED_ERROR",
                     "DISCONNECTED_MANUALLY", "PENDING_RECONNECT", "CONNECTING",
                     "DISCONNECTING"}
  /\ \A op \in Requests : InProgress[op] \in ClientStates
  BY DEF ClientStates, ConnectedStates, ConnectStates, InProgress, Requests

LEMMA ResubscribeTyped ==
  ASSUME TypeOK PROVE ResubscribeFrame \in Frames
  BY FrameTyped, ControlPoints DEF TypeOK, ResubscribeFrame, Ops

\* The compare-and-set keeps the types.
LEMMA SetStateTyped ==
  ASSUME TypeOK, NEW t \in Tasks, NEW expected, NEW new \in ClientStates,
         SetStateAnyway(t, expected, new)
  PROVE  clientState' \in ClientStates /\ holder' \in Tasks \cup {NoTask}
  BY DEF TypeOK, SetStateAnyway, SetState, SetStateFails

\* Calls and returns by the lemmas above, in the form of a stack step.
LEMMA GotoStack ==
  ASSUME TypeOK, NEW t \in Tasks, NEW at \in Points, Goto(t, at)
  PROVE  StackStep(t)
  BY GotoFrames DEF StackStep

LEMMA GotoWithStack ==
  ASSUME TypeOK, NEW t \in Tasks, NEW at \in Points, NEW rc \in ResultCodes,
         GotoWith(t, at, rc)
  PROVE  StackStep(t)
  BY GotoWithFrames DEF StackStep

LEMMA CallStack ==
  ASSUME TypeOK, NEW t \in Tasks, NEW at \in Points, NEW callee \in Frames,
         Call(t, at, callee)
  PROVE  StackStep(t)
  BY CallFrames DEF StackStep

LEMMA ReturnStack ==
  ASSUME TInv, NEW t \in Tasks, Top(t).op # "task", NEW rc \in ResultCodes,
         Return(t, rc)
  PROVE  StackStep(t)
  BY ReturnFrames, TopTyped DEF StackStep, TInv

LEMMA RequestStepTyped ==
  ASSUME TInv, NEW t \in Tasks, RequestStep(t)
  PROVE  StackStep(t) /\ DataTyped
<1> USE CallsAssumption, TopTyped, FrameTyped, ControlPoints, StateNames, SetStateTyped, ResubscribeTyped,
        GotoStack, GotoWithStack, CallStack, ReturnStack
    DEF TInv, TypeOK, DataTyped, ResultCodes, At, SetStateAnyway
<1>1. ASSUME NEW op \in Requests, CallRequest(t, op) PROVE StackStep(t) /\ DataTyped
  BY <1>1 DEF CallRequest, Requests, Ops
<1>2. ASSUME NEW op \in Requests, ClaimRequest(t, op) PROVE StackStep(t) /\ DataTyped
  BY <1>2 DEF ClaimRequest, Requests, Ops
<1>3. ASSUME NEW op \in Requests, FinishRequest(t, op) PROVE StackStep(t) /\ DataTyped
  BY <1>3 DEF FinishRequest, Requests, Ops
<1>4. ASSUME NEW op \in Requests, ReleaseRequest(t, op) PROVE StackStep(t) /\ DataTyped
  BY <1>4 DEF ReleaseRequest, Requests, Ops
<1>5. CASE UndoUnsubscribe(t)
  BY <1>5 DEF UndoUnsubscribe, Ops
<1> QED BY <1>1, <1>2, <1>3, <1>4, <1>5 DEF RequestStep

LEMMA MessageStepTyped ==
  ASSUME TInv, NEW t \in Tasks, MessageStep(t)
  PROVE  StackStep(t) /\ DataTyped
<1> USE CallsAssumption, TopTyped, FrameTyped, ControlPoints, StateNames, SetStateTyped, ResubscribeTyped,
        GotoStack, GotoWithStack, CallStack, ReturnStack
    DEF TInv, TypeOK, DataTyped, ResultCodes, At, SetStateAnyway
<1>1. CASE ReceiveMessage(t)
  BY <1>1 DEF ReceiveMessage, Ops
<1>2. CASE MarkCallback(t)
  BY <1>2 DEF MarkCallback, Ops
<1>3. CASE CallbackReturns(t)
  BY <1>3 DEF CallbackReturns, Ops
<1>4. CASE UnmarkCallback(t)
  BY <1>4 DEF UnmarkCallback, Ops
<1> QED BY <1>1, <1>2, <1>3, <1>4 DEF MessageStep

LEMMA SessionStepTyped ==
  ASSUME TInv, NEW t \in Tasks, SessionStep(t)
  PROVE  StackStep(t) /\ DataTyped
<1> USE CallsAssumption, TopTyped, FrameTyped, ControlPoints, StateNames, SetStateTyped, ResubscribeTyped,
        GotoStack, GotoWithStack, CallStack, ReturnStack
    DEF TInv, TypeOK, DataTyped, ResultCodes, At, SetStateAnyway
<1>1. CASE CallConnect(t)
  BY <1>1 DEF CallConnect, Ops
<1>2. CASE ClaimConnect(t)
  BY <1>2 DEF ClaimConnect, Ops
<1>3. CASE ConnectNetwork(t)
  BY <1>3 DEF ConnectNetwork, Ops
<1>4. CASE FinishConnect(t)
  BY <1>4 DEF FinishConnect, Ops
<1>5. CASE CallDisconnect(t)
  BY <1>5 DEF CallDisconnect, Ops
<1>6. CASE ClaimDisconnect(t)
  BY <1>6 DEF ClaimDisconnect, Ops
<1>7. CASE DisconnectNetwork(t)
  BY <1>7 DEF DisconnectNetwork, Ops
<1>8. CASE FinishDisconnect(t)
  BY <1>8 DEF FinishDisconnect, Ops
<1> QED BY <1>1, <1>2, <1>3, <1>4, <1>5, <1>6, <1>7, <1>8 DEF SessionStep

LEMMA ReconnectStepTyped ==
  ASSUME TInv, NEW t \in Tasks, ReconnectStep(t)
  PROVE  StackStep(t) /\ DataTyped
<1> USE CallsAssumption, TopTyped, FrameTyped, ControlPoints, StateNames, SetStateTyped, ResubscribeTyped,
        GotoStack, GotoWithStack, CallStack, ReturnStack
    DEF TInv, TypeOK, DataTyped, ResultCodes, At, SetStateAnyway
<1>1. CASE CallReconnect(t)
  BY <1>1 DEF CallReconnect, Ops
<1>2. CASE StartReconnect(t)
  BY <1>2 DEF StartReconnect, Ops
<1>3. CASE CheckReconnect(t)
  BY <1>3 DEF CheckReconnect, Ops
<1>4. CASE GiveUpReconnect(t)
  BY <1>4 DEF GiveUpReconnect, Ops
<1>5. CASE CallResubscribe(t)
  BY <1>5 DEF CallResubscribe, Ops
<1>6. CASE ReconnectResubscribe(t)
  <2>1. Top(t).op # "task" /\ depth[t] # 0
    BY <1>6 DEF ReconnectResubscribe
  <2>2. CASE clientState \in {"IDLE", "RESUBSCRIBE"}
    <3>1. Replaces(t, ResubscribeFrame)
      BY <1>6, <2>2, ReplaceFrames DEF ReconnectResubscribe
    <3> QED BY <1>6, <2>1, <3>1 DEF ReconnectResubscribe, StackStep
  <2>3. CASE clientState \notin {"IDLE", "RESUBSCRIBE"}
    BY <1>6, <2>1, <2>3 DEF ReconnectResubscribe
  <2> QED BY <2>2, <2>3
<1>7. CASE ClaimResubscribe(t)
  BY <1>7 DEF ClaimResubscribe, Ops
<1>8. CASE FinishResubscribe(t)
  BY <1>8 DEF FinishResubscribe, Ops
<1>9. CASE ReleaseResubscribe(t)
  BY <1>9 DEF ReleaseResubscribe, Ops
<1> QED BY <1>1, <1>2, <1>3, <1>4, <1>5, <1>6, <1>7, <1>8, <1>9 DEF ReconnectStep

LEMMA YieldStepTyped ==
  ASSUME TInv, NEW t \in Tasks, YieldStep(t)
  PROVE  StackStep(t) /\ DataTyped
<1> USE CallsAssumption, TopTyped, FrameTyped, ControlPoints, StateNames, SetStateTyped, ResubscribeTyped,
        GotoStack, GotoWithStack, CallStack, ReturnStack
    DEF TInv, TypeOK, DataTyped, ResultCodes, At, SetStateAnyway
<1>1. CASE CallYield(t)
  BY <1>1 DEF CallYield, Ops
<1>2. CASE ClaimYield(t)
  BY <1>2 DEF ClaimYield, Ops
<1>3. CASE YieldReconnect(t)
  BY <1>3 DEF YieldReconnect, Ops
<1>4. CASE YieldReconnected(t)
  BY <1>4 DEF YieldReconnected, Ops
<1>5. CASE YieldReclaim(t)
  BY <1>5 DEF YieldReclaim, Ops
<1>6. CASE YieldRead(t)
  BY <1>6 DEF YieldRead, Ops
<1>7. CASE YieldDelivered(t)
  BY <1>7 DEF YieldDelivered, Ops
<1>8. CASE YieldLinkLost(t)
  BY <1>8 DEF YieldLinkLost, Ops
<1>9. CASE YieldDropped(t)
  BY <1>9 DEF YieldDropped, Ops
<1>10. CASE DisconnectHandler(t)
  BY <1>10 DEF DisconnectHandler, Ops
<1>11. CASE YieldMarkLost(t)
  BY <1>11 DEF YieldMarkLost, Ops
<1>12. CASE YieldPend(t)
  BY <1>12 DEF YieldPend, Ops
<1>13. CASE YieldAgain(t)
  BY <1>13 DEF YieldAgain, Ops
<1>14. CASE YieldExit(t)
  BY <1>14 DEF YieldExit, Ops
<1>15. CASE ReleaseYield(t)
  BY <1>15 DEF ReleaseYield, Ops
<1> QED BY <1>1, <1>2, <1>3, <1>4, <1>5, <1>6, <1>7, <1>8, <1>9, <1>10, <1>11, <1>12, <1>13, <1>14, <1>15 DEF YieldStep
\* TypeOK is an invariant of the client for all constants.
THEOREM TypeCorrect == Spec => []TypeOK
<1>1. Init => TInv
  <2> SUFFICES ASSUME Init PROVE TInv
    OBVIOUS
  <2>1. Idle \in Frames /\ Idle.op = "task"
    BY FrameTyped, ControlPoints, StateNames DEF Idle, Frame, Ops
  <2> QED BY <2>1, DepthBound, StateNames, CallsAssumption DEF Init, TInv, TypeOK, BaseFrame
<1>2. TInv /\ [Next]_vars => TInv'
  <2> SUFFICES ASSUME TInv, [Next]_vars PROVE TInv'
    OBVIOUS
  <2>1. CASE UNCHANGED vars
    BY <2>1 DEF TInv, TypeOK, BaseFrame, vars
  <2>2. ASSUME NEW t \in Tasks, TaskStep(t) PROVE StackStep(t) /\ DataTyped
    <3>1. CASE Lock(t)
      BY <3>1 DEF Lock, StackStep, DataTyped, TInv, TypeOK
    <3> QED BY <2>2, <3>1, RequestStepTyped, MessageStepTyped, SessionStepTyped,
               ReconnectStepTyped, YieldStepTyped DEF TaskStep
  <2> QED BY <2>1, <2>2, StackTyped DEF Next
<1>3. TInv => TypeOK
  BY DEF TInv
<1> QED BY <1>1, <1>2, <1>3, PTL DEF Spec

-----------------------------------------------------------------------------
(* Ownership of the transient states.  TransientStateOwned alone is not     *)
(* inductive: a call puts back the state it saved, so that state has to be  *)
(* at rest or held by a call below it, and the calls below wait at points   *)
(* where the result they get does not make them forget their state.         *)

Covered(t, i, s) == s \in RestStates \/ \E j \in 1..(i - 1) : Holds(frame[t][j], s)

SavedCovered ==
    \A t \in Tasks : \A i \in 1..depth[t] :
        frame[t][i].op \in Requests \cup {"deliver"} => Covered(t, i, frame[t][i].saved)

HandlersNeedMessages ==
    ~Messages => \A t \in Tasks : \A i \in 1..depth[t] : frame[t][i].op # "deliver"

Waiting ==
    \A t \in Tasks : \A i \in 1..(depth[t] - 1) :
        frame[t][i].op = "yield" =>
            /\ frame[t][i].at # "cond"
            /\ frame[t][i].at = "dropped" => frame[t][i + 1].op = "disconnect"

StackInv == SavedCovered /\ HandlersNeedMessages /\ Waiting
IInv == TInv /\ TransientStateOwned /\ StackInv

\* A single task, or the blocking mutex and no messages.
OneTaskOrQuiet == (\A t, u \in Tasks : t = u) \/ (~Messages /\ ~TryLock)

\* A frame holds at most one state.
LEMMA HoldsOne ==
  ASSUME NEW f, NEW s1, NEW s2, Holds(f, s1), Holds(f, s2)
  PROVE  s1 = s2
  BY DEF Holds, Requests

LEMMA HeldAfter ==
  ASSUME NEW u \in Tasks, NEW i \in 1..depth'[u], Holds(frame'[u][i], clientState')
  PROVE  TransientStateOwned'
  BY DEF TransientStateOwned, Held

LEMMA MoveOwned ==
  ASSUME IInv, NEW t \in Tasks, TopMoves(t), depth[t] # 0,
         \/ clientState' \in RestStates
         \/ Holds(frame'[t][depth[t]], clientState')
         \/ clientState' = clientState /\ ~Holds(frame[t][depth[t]], clientState)
  PROVE  TransientStateOwned' /\ StackInv'
<1>0. /\ \A u \in Tasks : depth[u] \in 0..MaxDepth
      /\ depth' = depth
  BY DEF IInv, TInv, TypeOK, TopMoves
<1>a. \A u \in Tasks : \A i \in 1..depth[u] :
         /\ frame'[u][i].op = frame[u][i].op
         /\ frame'[u][i].saved = frame[u][i].saved
         /\ u # t \/ i # depth[t] => frame'[u][i] = frame[u][i]
  BY <1>0, DepthBound DEF TopMoves
<1>1. TransientStateOwned'
  <2>1. CASE clientState' \in RestStates
    BY <2>1 DEF TransientStateOwned, RestStates
  <2>2. CASE Holds(frame'[t][depth[t]], clientState')
    <3>1. depth[t] \in 1..depth'[t]
      BY <1>0
    <3> QED BY <2>2, <3>1, HeldAfter
  <2>3. CASE /\ clientState' = clientState /\ ~Holds(frame[t][depth[t]], clientState)
             /\ clientState \notin RestStates
    <3>1x. PICK u \in Tasks : \E i \in 1..depth[u] : Holds(frame[u][i], clientState)
      BY <2>3 DEF IInv, TransientStateOwned, Held
    <3>1. PICK i \in 1..depth[u] : Holds(frame[u][i], clientState)
      BY <3>1x
    <3>2. u # t \/ i # depth[t]
      BY <2>3, <3>1
    <3>3. frame'[u][i] = frame[u][i]
      BY <1>a, <3>2
    <3> QED BY <1>0, <2>3, <3>1, <3>3, HeldAfter
  <2> QED BY <2>1, <2>2, <2>3 DEF RestStates
<1>2. SavedCovered'
  <2> SUFFICES ASSUME NEW u \in Tasks, NEW i \in 1..depth[u],
                      frame'[u][i].op \in Requests \cup {"deliver"}
               PROVE  Covered(u, i, frame[u][i].saved)'
    BY <1>0 DEF SavedCovered
  <2>1. Covered(u, i, frame[u][i].saved)
    BY <1>a DEF IInv, StackInv, SavedCovered
  <2>2. \A j \in 1..(i - 1) : frame'[u][j] = frame[u][j]
    BY <1>0, <1>a
  <2> QED BY <1>a, <2>1, <2>2 DEF Covered, RestStates
<1>3. HandlersNeedMessages'
  BY <1>0, <1>a DEF IInv, StackInv, HandlersNeedMessages
<1>4. Waiting'
  <2> SUFFICES ASSUME NEW u \in Tasks, NEW i \in 1..(depth[u] - 1),
                      frame'[u][i].op = "yield"
               PROVE  /\ frame'[u][i].at # "cond"
                      /\ frame'[u][i].at = "dropped" => frame'[u][i + 1].op = "disconnect"
    BY <1>0 DEF Waiting
  <2>1. i \in 1..depth[u] /\ i + 1 \in 1..depth[u] /\ (u # t \/ i # depth[t])
    BY <1>0
  <2>2. frame'[u][i] = frame[u][i] /\ frame'[u][i + 1].op = frame[u][i + 1].op
    BY <1>a, <2>1
  <2> QED BY <2>2 DEF IInv, StackInv, Waiting
<1> QED BY <1>1, <1>2, <1>3, <1>4 DEF StackInv

LEMMA ReplaceOwned ==
  ASSUME IInv, NEW t \in Tasks, NEW new \in Frames, Replaces(t, new), depth[t] # 0,
         frame[t][depth[t]].op = "reconnect", new.op = "resubscribe",
         clientState' = clientState
  PROVE  TransientStateOwned' /\ StackInv'
<1>0. /\ \A u \in Tasks : depth[u] \in 0..MaxDepth
      /\ depth' = depth
  BY DEF IInv, TInv, TypeOK, Replaces
<1>a. \A u \in Tasks : \A i \in 1..depth[u] :
         u # t \/ i # depth[t] => frame'[u][i] = frame[u][i]
  BY <1>0, DepthBound DEF Replaces
<1>b. frame'[t][depth[t]] = new
  BY DEF Replaces
<1>1. TransientStateOwned'
  <2>1. CASE clientState \in RestStates
    BY <2>1 DEF TransientStateOwned, RestStates
  <2>2. CASE clientState \notin RestStates
    <3>1x. PICK u \in Tasks : \E i \in 1..depth[u] : Holds(frame[u][i], clientState)
      BY <2>2 DEF IInv, TransientStateOwned, Held
    <3>1. PICK i \in 1..depth[u] : Holds(frame[u][i], clientState)
      BY <3>1x
    <3>2. u # t \/ i # depth[t]
      BY <3>1 DEF Holds, Requests
    <3> QED BY <1>0, <1>a, <3>1, <3>2, HeldAfter
  <2> QED BY <2>1, <2>2
<1>2. SavedCovered'
  <2> SUFFICES ASSUME NEW u \in Tasks, NEW i \in 1..depth[u],
                      frame'[u][i].op \in Requests \cup {"deliver"}
               PROVE  Covered(u, i, frame[u][i].saved)'
    BY <1>0 DEF SavedCovered
  <2>1. u # t \/ i # depth[t]
    BY <1>b DEF Requests
  <2>2. frame'[u][i] = frame[u][i] /\ Covered(u, i, frame[u][i].saved)
    BY <1>a, <2>1 DEF IInv, StackInv, SavedCovered
  <2>3. \A j \in 1..(i - 1) : frame'[u][j] = frame[u][j]
    BY <1>0, <1>a
  <2> QED BY <2>2, <2>3 DEF Covered, RestStates
<1>3. HandlersNeedMessages'
  BY <1>0, <1>a, <1>b DEF IInv, StackInv, HandlersNeedMessages
<1>4. Waiting'
  <2> SUFFICES ASSUME NEW u \in Tasks, NEW i \in 1..(depth[u] - 1),
                      frame'[u][i].op = "yield"
               PROVE  /\ frame'[u][i].at # "cond"
                      /\ frame'[u][i].at = "dropped" => frame'[u][i + 1].op = "disconnect"
    BY <1>0 DEF Waiting
  <2>1. i \in 1..depth[u] /\ i + 1 \in 1..depth[u] /\ (u # t \/ i # depth[t])
    BY <1>0
  <2>2. frame'[u][i] = frame[u][i]
    BY <1>a, <2>1
  <2>3. frame[u][i + 1].op = "disconnect" => frame'[u][i + 1].op = "disconnect"
    BY <1>a, <2>1
  <2> QED BY <2>2, <2>3 DEF IInv, StackInv, Waiting
<1> QED BY <1>1, <1>2, <1>3, <1>4 DEF StackInv

LEMMA CallOwned ==
  ASSUME IInv, NEW t \in Tasks, NEW callee \in Frames, Calls(t, callee),
         clientState' = clientState,
         Holds(frame[t][depth[t]], clientState) => Holds(frame'[t][depth[t]], clientState),
         callee.op \in Requests \cup {"deliver"} =>
            callee.saved = clientState /\ (clientState \in RestStates \/ \A u \in Tasks : u = t),
         callee.op = "deliver" => Messages,
         frame[t][depth[t]].op = "yield" =>
            /\ frame'[t][depth[t]].at # "cond"
            /\ frame'[t][depth[t]].at = "dropped" => callee.op = "disconnect"
  PROVE  TransientStateOwned' /\ StackInv'
<1>0. /\ \A u \in Tasks : depth[u] \in 0..MaxDepth
      /\ depth'[t] = depth[t] + 1
      /\ \A u \in Tasks : u # t => depth'[u] = depth[u]
  BY DEF IInv, TInv, TypeOK, Calls
<1>a. \A u \in Tasks : \A i \in 1..depth[u] :
         /\ frame'[u][i].op = frame[u][i].op
         /\ frame'[u][i].saved = frame[u][i].saved
         /\ u # t \/ i # depth[t] => frame'[u][i] = frame[u][i]
  BY <1>0, DepthBound DEF Calls
<1>b. frame'[t][depth[t] + 1] = callee
  BY DEF Calls
<1>c. \A u \in Tasks : \A i \in 1..depth[u] :
         Holds(frame[u][i], clientState) => Holds(frame'[u][i], clientState)
  BY <1>a
<1>1. TransientStateOwned'
  <2>1. CASE clientState \in RestStates
    BY <2>1 DEF TransientStateOwned, RestStates
  <2>2. CASE clientState \notin RestStates
    <3>1x. PICK u \in Tasks : \E i \in 1..depth[u] : Holds(frame[u][i], clientState)
      BY <2>2 DEF IInv, TransientStateOwned, Held
    <3>1. PICK i \in 1..depth[u] : Holds(frame[u][i], clientState)
      BY <3>1x
    <3>2. i \in 1..depth'[u]
      BY <1>0
    <3> QED BY <1>c, <3>1, <3>2, HeldAfter
  <2> QED BY <2>1, <2>2
<1>2. SavedCovered'
  <2> SUFFICES ASSUME NEW u \in Tasks, NEW i \in 1..depth'[u],
                      frame'[u][i].op \in Requests \cup {"deliver"}
               PROVE  Covered(u, i, frame[u][i].saved)'
    BY DEF SavedCovered
  <2>1. CASE u = t /\ i = depth[t] + 1
    <3>1. frame'[u][i].saved = clientState
      BY <1>b, <2>1
    <3>2. CASE clientState \in RestStates
      BY <3>1, <3>2 DEF Covered, RestStates
    <3>3. CASE clientState \notin RestStates
      <4>1x. PICK v \in Tasks : \E j \in 1..depth[v] : Holds(frame[v][j], clientState)
        BY <3>3 DEF IInv, TransientStateOwned, Held
      <4>1. PICK j \in 1..depth[v] : Holds(frame[v][j], clientState)
        BY <4>1x
      <4>2. v = t
        BY <1>b, <2>1, <3>3
      <4>3. j \in 1..(i - 1) /\ Holds(frame'[u][j], clientState)
        BY <1>0, <1>c, <2>1, <4>1, <4>2
      <4> QED BY <3>1, <4>3 DEF Covered
    <3> QED BY <3>2, <3>3
  <2>2. CASE ~(u = t /\ i = depth[t] + 1)
    <3>1. i \in 1..depth[u]
      BY <1>0, <2>2
    <3>2. Covered(u, i, frame[u][i].saved)
      BY <1>a, <3>1 DEF IInv, StackInv, SavedCovered
    <3>3. \A j \in 1..(i - 1) : frame'[u][j] = frame[u][j]
      BY <1>0, <1>a, <3>1
    <3> QED BY <1>a, <3>1, <3>2, <3>3 DEF Covered, RestStates
  <2> QED BY <2>1, <2>2
<1>3. HandlersNeedMessages'
  <2> SUFFICES ASSUME ~Messages, NEW u \in Tasks, NEW i \in 1..depth'[u]
               PROVE  frame'[u][i].op # "deliver"
    BY DEF HandlersNeedMessages
  <2>1. CASE u = t /\ i = depth[t] + 1
    BY <1>b, <2>1
  <2>2. CASE ~(u = t /\ i = depth[t] + 1)
    <3>1. i \in 1..depth[u]
      BY <1>0, <2>2
    <3> QED BY <1>a, <3>1 DEF IInv, StackInv, HandlersNeedMessages
  <2> QED BY <2>1, <2>2
<1>4. Waiting'
  <2> SUFFICES ASSUME NEW u \in Tasks, NEW i \in 1..(depth'[u] - 1),
                      frame'[u][i].op = "yield"
               PROVE  /\ frame'[u][i].at # "cond"
                      /\ frame'[u][i].at = "dropped" => frame'[u][i + 1].op = "disconnect"
    BY DEF Waiting
  <2>1. CASE u = t /\ i = depth[t]
    <3>1. frame[t][depth[t]].op = "yield"
      BY <1>0, <1>a, <2>1
    <3> QED BY <1>b, <2>1, <3>1
  <2>2. CASE ~(u = t /\ i = depth[t])
    <3>1. i \in 1..(depth[u] - 1) /\ i \in 1..depth[u] /\ i + 1 \in 1..depth[u]
      BY <1>0, <2>2
    <3>2. frame'[u][i] = frame[u][i] /\ frame'[u][i + 1].op = frame[u][i + 1].op
      BY <1>a, <2>2, <3>1
    <3> QED BY <3>1, <3>2 DEF IInv, StackInv, Waiting
  <2> QED BY <2>1, <2>2
<1> QED BY <1>1, <1>2, <1>3, <1>4 DEF StackInv

LEMMA ReturnOwned ==
  ASSUME IInv, NEW t \in Tasks, Returns(t), depth[t] # 0,
         \/ clientState' \in RestStates
         \/ Covered(t, depth[t], clientState')
         \/ clientState' = clientState /\ ~Holds(frame[t][depth[t]], clientState),
         \/ frame[t][depth[t]].op # "disconnect"
         \/ frame'[t][depth[t] - 1].rc # "ok"
         \/ clientState' \in RestStates
  PROVE  TransientStateOwned' /\ StackInv'
<1>0. /\ \A u \in Tasks : depth[u] \in 0..MaxDepth
      /\ depth[t] \in 1..MaxDepth
      /\ depth'[t] = depth[t] - 1
      /\ \A u \in Tasks : u # t => depth'[u] = depth[u]
  BY DEF IInv, TInv, TypeOK, Returns
<1>a. \A u \in Tasks : \A i \in 1..depth'[u] :
         /\ i \in 1..depth[u]
         /\ frame'[u][i].op = frame[u][i].op
         /\ frame'[u][i].at = frame[u][i].at
         /\ frame'[u][i].saved = frame[u][i].saved
         /\ u # t \/ i # depth[t] - 1 => frame'[u][i] = frame[u][i]
  BY <1>0, DepthBound DEF Returns
<1>b. ASSUME NEW u \in Tasks, NEW i \in 1..depth'[u], NEW s, Holds(frame[u][i], s),
             clientState' \notin RestStates
      PROVE  Holds(frame'[u][i], s)
  <2>1. CASE u # t \/ i # depth[t] - 1
    BY <1>a, <1>b, <2>1
  <2>2. CASE u = t /\ i = depth[t] - 1
    <3>1. i \in 1..(depth[t] - 1) /\ i + 1 = depth[t]
      BY <1>0, <1>b, <2>2
    <3>2. frame[t][i].op = "yield" =>
            /\ frame[t][i].at # "cond"
            /\ frame[t][i].at = "dropped" => frame'[t][i].rc # "ok"
      BY <1>b, <2>2, <3>1 DEF IInv, StackInv, Waiting
    <3>3. frame'[t][i].op = frame[t][i].op /\ frame'[t][i].at = frame[t][i].at
      BY <1>a, <2>2
    <3> QED BY <1>b, <2>2, <3>2, <3>3 DEF Holds
  <2> QED BY <2>1, <2>2
<1>1. TransientStateOwned'
  <2>1. CASE clientState' \in RestStates
    BY <2>1 DEF TransientStateOwned, RestStates
  <2>2. CASE Covered(t, depth[t], clientState') /\ clientState' \notin RestStates
    <3>1. PICK j \in 1..(depth[t] - 1) : Holds(frame[t][j], clientState')
      BY <2>2 DEF Covered
    <3>2. j \in 1..depth'[t]
      BY <1>0
    <3> QED BY <1>b, <2>2, <3>1, <3>2, HeldAfter
  <2>3. CASE /\ clientState' = clientState /\ ~Holds(frame[t][depth[t]], clientState)
             /\ clientState \notin RestStates
    <3>1x. PICK u \in Tasks : \E i \in 1..depth[u] : Holds(frame[u][i], clientState)
      BY <2>3 DEF IInv, TransientStateOwned, Held
    <3>1. PICK i \in 1..depth[u] : Holds(frame[u][i], clientState)
      BY <3>1x
    <3>2. i \in 1..depth'[u]
      BY <1>0, <2>3, <3>1
    <3>3. clientState' \notin RestStates
      BY <2>3 DEF RestStates
    <3> QED BY <1>b, <2>3, <3>1, <3>2, <3>3, HeldAfter
  <2> QED BY <2>1, <2>2, <2>3 DEF RestStates
<1>2. SavedCovered'
  <2> SUFFICES ASSUME NEW u \in Tasks, NEW i \in 1..depth'[u],
                      frame'[u][i].op \in Requests \cup {"deliver"}
               PROVE  Covered(u, i, frame[u][i].saved)'
    BY DEF SavedCovered
  <2>1. i \in 1..depth[u] /\ Covered(u, i, frame[u][i].saved)
    BY <1>a DEF IInv, StackInv, SavedCovered
  <2>2. \A j \in 1..(i - 1) : frame'[u][j] = frame[u][j]
    BY <1>0, <1>a, <2>1
  <2> QED BY <1>a, <2>1, <2>2 DEF Covered, RestStates
<1>3. HandlersNeedMessages'
  BY <1>a DEF IInv, StackInv, HandlersNeedMessages
<1>4. Waiting'
  <2> SUFFICES ASSUME NEW u \in Tasks, NEW i \in 1..(depth'[u] - 1),
                      frame'[u][i].op = "yield"
               PROVE  /\ frame'[u][i].at # "cond"
                      /\ frame'[u][i].at = "dropped" => frame'[u][i + 1].op = "disconnect"
    BY DEF Waiting
  <2>1. i \in 1..(depth[u] - 1) /\ i \in 1..depth'[u] /\ i + 1 \in 1..depth'[u]
    BY <1>0
  <2>2. /\ frame'[u][i].op = frame[u][i].op /\ frame'[u][i].at = frame[u][i].at
        /\ frame'[u][i + 1].op = frame[u][i + 1].op
    BY <1>a, <2>1
  <2> QED BY <2>1, <2>2 DEF IInv, StackInv, Waiting
<1> QED BY <1>1, <1>2, <1>3, <1>4 DEF StackInv
\* Without a second task, or with the blocking mutex, the compare-and-set
\* fails only on another state than the expected one.
LEMMA OnlyMismatchFails ==
  ASSUME OneTaskOrQuiet, TypeOK, NEW t \in Tasks, NEW expected, SetStateFails(t, expected)
  PROVE  clientState' = clientState /\ clientState # expected
<1>1. CASE holder = t /\ clientState # expected
  BY <1>1 DEF SetStateFails
<1>2. CASE TryLock /\ holder \notin {NoTask, t}
  <2>1. holder \in Tasks /\ holder # t
    BY <1>2 DEF TypeOK
  <2> QED BY <1>2, <2>1 DEF OneTaskOrQuiet
<1> QED BY <1>1, <1>2 DEF SetStateFails

\* The forms in which the actions use the lemmas above.
LEMMA GotoOwned ==
  ASSUME IInv, NEW t \in Tasks, NEW at \in Points, Goto(t, at), Top(t).op # "task",
         \/ clientState' \in RestStates
         \/ \A f \in Frames : f.op = Top(t).op /\ f.at = at /\ f.rc = Top(t).rc
                                => Holds(f, clientState')
         \/ clientState' = clientState /\ ~Holds(Top(t), clientState)
  PROVE  TransientStateOwned' /\ StackInv'
<1>1. /\ TopMoves(t) /\ depth[t] \in 0..MaxDepth /\ depth[t] # 0
      /\ frame'[t][depth[t]].at = at /\ frame'[t][depth[t]].rc = Top(t).rc
  BY GotoFrames, TopTyped DEF IInv, TInv, TypeOK, Top
<1>2. frame'[t][depth[t]] \in Frames /\ frame'[t][depth[t]].op = Top(t).op
  BY <1>1, DepthBound DEF TopMoves, Top
<1> QED BY <1>1, <1>2, MoveOwned DEF Top

LEMMA GotoWithOwned ==
  ASSUME IInv, NEW t \in Tasks, NEW at \in Points, NEW rc \in ResultCodes,
         GotoWith(t, at, rc), Top(t).op # "task",
         \/ clientState' \in RestStates
         \/ \A f \in Frames : f.op = Top(t).op /\ f.at = at /\ f.rc = rc
                                => Holds(f, clientState')
         \/ clientState' = clientState /\ ~Holds(Top(t), clientState)
  PROVE  TransientStateOwned' /\ StackInv'
<1>1. /\ TopMoves(t) /\ depth[t] \in 0..MaxDepth /\ depth[t] # 0
      /\ frame'[t][depth[t]].at = at /\ frame'[t][depth[t]].rc = rc
  BY GotoWithFrames, TopTyped DEF IInv, TInv, TypeOK, Top
<1>2. frame'[t][depth[t]] \in Frames /\ frame'[t][depth[t]].op = Top(t).op
  BY <1>1, DepthBound DEF TopMoves, Top
<1> QED BY <1>1, <1>2, MoveOwned DEF Top

LEMMA ReturnsOwned ==
  ASSUME IInv, NEW t \in Tasks, NEW rc \in ResultCodes, Return(t, rc), Top(t).op # "task",
         \/ clientState' \in RestStates
         \/ clientState' = Top(t).saved /\ Top(t).op \in Requests \cup {"deliver"}
         \/ clientState' = clientState /\ ~Holds(Top(t), clientState),
         Top(t).op # "disconnect" \/ rc # "ok" \/ clientState' \in RestStates
  PROVE  TransientStateOwned' /\ StackInv'
<1>1. /\ Returns(t) /\ frame'[t][depth[t] - 1].rc = rc
      /\ depth[t] # 0 /\ depth[t] \in 0..MaxDepth
  BY ReturnFrames, TopTyped DEF IInv, TInv, TypeOK
<1>2. /\ clientState' = Top(t).saved /\ Top(t).op \in Requests \cup {"deliver"}
      => Covered(t, depth[t], clientState')
  <2>1. depth[t] \in 1..depth[t]
    BY <1>1
  <2> QED BY <2>1 DEF IInv, StackInv, SavedCovered, Top
<1> QED BY <1>1, <1>2, ReturnOwned DEF Top

\* A call leaves the state alone.
LEMMA CallsOwned ==
  ASSUME IInv, NEW t \in Tasks, NEW at \in Points, NEW callee \in Frames,
         Call(t, at, callee), clientState' = clientState,
         \A f \in Frames : /\ f.op = Top(t).op /\ f.at = at /\ f.rc = "none"
                           /\ Holds(Top(t), clientState)
                           => Holds(f, clientState),
         callee.op \in Requests \cup {"deliver"} =>
            callee.saved = clientState /\ (clientState \in RestStates \/ \A u \in Tasks : u = t),
         callee.op = "deliver" => Messages,
         Top(t).op = "yield" => at # "cond" /\ (at = "dropped" => callee.op = "disconnect")
  PROVE  TransientStateOwned' /\ StackInv'
<1>1. /\ Calls(t, callee) /\ depth[t] \in 0..MaxDepth
      /\ frame'[t][depth[t]].at = at /\ frame'[t][depth[t]].rc = "none"
  BY CallFrames DEF IInv, TInv, TypeOK
<1>2. frame'[t][depth[t]] \in Frames /\ frame'[t][depth[t]].op = Top(t).op
  BY <1>1, DepthBound DEF Calls, Top
<1>3. Holds(Top(t), clientState) => Holds(frame'[t][depth[t]], clientState)
  BY <1>1, <1>2
<1> HIDE DEF Holds
<1> QED BY <1>1, <1>2, <1>3, CallOwned DEF Top
\* In the quiet case no handler runs and nobody waits for one.
LEMMA QuietNeverWaits ==
  ASSUME IInv, ~Messages
  PROVE  clientState # "WAIT_FOR_CB" /\ \A t \in Tasks : Top(t).op # "deliver"
<1>1. clientState # "WAIT_FOR_CB"
  <2> SUFFICES ASSUME clientState = "WAIT_FOR_CB" PROVE FALSE
    OBVIOUS
  <2>1. Held("WAIT_FOR_CB")
    BY DEF IInv, TransientStateOwned, RestStates, ConnectStates
  <2>2. PICK t \in Tasks : \E i \in 1..depth[t] : Holds(frame[t][i], "WAIT_FOR_CB")
    BY <2>1 DEF Held
  <2>3. PICK i \in 1..depth[t] : Holds(frame[t][i], "WAIT_FOR_CB")
    BY <2>2
  <2>4. frame[t][i].op = "deliver"
    BY <2>3 DEF Holds, InProgress, Requests
  <2> QED BY <2>4 DEF IInv, StackInv, HandlersNeedMessages
<1>2. ASSUME NEW t \in Tasks PROVE Top(t).op # "deliver"
  <2>1. CASE depth[t] = 0
    BY <2>1 DEF IInv, TInv, BaseFrame, Top
  <2>2. CASE depth[t] # 0
    <3>1. depth[t] \in 1..depth[t]
      BY <2>2 DEF IInv, TInv, TypeOK
    <3> QED BY <3>1 DEF IInv, StackInv, HandlersNeedMessages, Top
  <2> QED BY <2>1, <2>2
<1> QED BY <1>1, <1>2

LEMMA RequestStepOwned ==
  ASSUME OneTaskOrQuiet, IInv, NEW t \in Tasks, RequestStep(t)
  PROVE  TransientStateOwned' /\ StackInv'
<1> USE GotoOwned, GotoWithOwned, ReturnsOwned, CallsOwned, OnlyMismatchFails,
        TopTyped, FrameTyped, ControlPoints, StateNames
    DEF ResultCodes, At, SetStateAnyway, SetState, RestStates, ConnectStates
<1>0. TInv /\ TypeOK /\ clientState \in ClientStates
  BY DEF IInv, TInv, TypeOK
<1>1. ASSUME NEW op \in Requests, CallRequest(t, op)
      PROVE  TransientStateOwned' /\ StackInv'
  <2>1. clientState \in RestStates \/ \A u \in Tasks : u = t
    BY <1>1, QuietNeverWaits DEF CallRequest, OneTaskOrQuiet
  <2>2. Frame(op, "claim", clientState) \in Frames
    BY <1>0 DEF Requests, Ops
  <2>3. Top(t).at \in Points /\ Top(t).op \in {"task", "deliver"}
    BY <1>0, <1>1 DEF CallRequest, MayCall
  <2>4. /\ Frame(op, "claim", clientState).op = op /\ op # "deliver"
        /\ Frame(op, "claim", clientState).saved = clientState
    BY DEF Frame, Requests
  <2>5. \A f \in Frames : /\ f.op = Top(t).op /\ f.at = Top(t).at
                          /\ Holds(Top(t), clientState)
                          => Holds(f, clientState)
    BY <2>3 DEF Holds, Requests
  <2>6. Call(t, Top(t).at, Frame(op, "claim", clientState)) /\ clientState' = clientState
    BY <1>1 DEF CallRequest
  <2> QED BY <2>1, <2>2, <2>3, <2>4, <2>5, <2>6
<1>2. ASSUME NEW op \in Requests, ClaimRequest(t, op)
      PROVE  TransientStateOwned' /\ StackInv'
  BY <1>0, <1>2 DEF ClaimRequest, Holds, InProgress, Requests
<1>3. ASSUME NEW op \in Requests, FinishRequest(t, op)
      PROVE  TransientStateOwned' /\ StackInv'
  BY <1>0, <1>3 DEF FinishRequest, Holds, InProgress, Requests
<1>4. ASSUME NEW op \in Requests, ReleaseRequest(t, op)
      PROVE  TransientStateOwned' /\ StackInv'
  BY <1>0, <1>4 DEF ReleaseRequest, Holds, InProgress, Requests
<1>5. CASE UndoUnsubscribe(t)
  BY <1>0, <1>5 DEF UndoUnsubscribe, Holds, Requests
<1> QED BY <1>1, <1>2, <1>3, <1>4, <1>5 DEF RequestStep

LEMMA MessageStepOwned ==
  ASSUME OneTaskOrQuiet, IInv, NEW t \in Tasks, MessageStep(t)
  PROVE  TransientStateOwned' /\ StackInv'
<1> USE GotoOwned, GotoWithOwned, ReturnsOwned, CallsOwned, OnlyMismatchFails,
        TopTyped, FrameTyped, ControlPoints, StateNames
    DEF ResultCodes, At, SetStateAnyway, SetState, RestStates, ConnectStates
<1>0. TInv /\ TypeOK /\ clientState \in ClientStates
  BY DEF IInv, TInv, TypeOK
<1>1. CASE ReceiveMessage(t)
  <2> DEFINE callee == Frame("deliver", "mark", clientState)
             at == IF Top(t).op = "yield" THEN "read" ELSE "body"
  <2>1. callee \in Frames /\ at \in Points
    BY <1>0
  <2>2. callee.op = "deliver" /\ callee.saved = clientState
    BY DEF Frame
  <2>3. Messages /\ \A u \in Tasks : u = t
    BY <1>1 DEF ReceiveMessage, OneTaskOrQuiet
  <2>4. \A f \in Frames : /\ f.op = Top(t).op /\ f.at = at
                          /\ Holds(Top(t), clientState)
                          => Holds(f, clientState)
    BY <1>1 DEF ReceiveMessage, Reading, Holds, Requests
  <2>5. Call(t, at, callee) /\ clientState' = clientState
    BY <1>1 DEF ReceiveMessage
  <2>6. at \notin {"cond", "dropped"}
    OBVIOUS
  <2> HIDE DEF callee, at
  <2> QED BY <2>1, <2>2, <2>3, <2>4, <2>5, <2>6
<1>2. CASE MarkCallback(t)
  BY <1>0, <1>2 DEF MarkCallback, Holds, Requests
<1>3. CASE CallbackReturns(t)
  BY <1>0, <1>3 DEF CallbackReturns, Holds, Requests
<1>4. CASE UnmarkCallback(t)
  BY <1>0, <1>4 DEF UnmarkCallback, Holds, Requests
<1> QED BY <1>1, <1>2, <1>3, <1>4 DEF MessageStep

LEMMA SessionStepOwned ==
  ASSUME OneTaskOrQuiet, IInv, NEW t \in Tasks, SessionStep(t)
  PROVE  TransientStateOwned' /\ StackInv'
<1> USE GotoOwned, GotoWithOwned, ReturnsOwned, CallsOwned, OnlyMismatchFails,
        TopTyped, FrameTyped, ControlPoints, StateNames
    DEF ResultCodes, At, SetStateAnyway, SetState, RestStates, ConnectStates
<1>0. TInv /\ TypeOK /\ clientState \in ClientStates
  BY DEF IInv, TInv, TypeOK
<1>1. CASE CallConnect(t)
  BY <1>0, <1>1 DEF CallConnect, Holds, Requests, Ops, Frame, MayCall
<1>2. CASE ClaimConnect(t)
  BY <1>0, <1>2 DEF ClaimConnect, Holds, Requests
<1>3. CASE ConnectNetwork(t)
  BY <1>0, <1>3 DEF ConnectNetwork, Holds, Requests
<1>4. CASE FinishConnect(t)
  BY <1>0, <1>4 DEF FinishConnect, Holds, Requests
<1>5. CASE CallDisconnect(t)
  <2> DEFINE callee == Frame("disconnect", "claim", clientState)
  <2>1. callee \in Frames /\ callee.op = "disconnect" /\ Top(t).at \in Points
    BY <1>0 DEF Ops, Frame
  <2>2. Top(t).op \in {"task", "deliver"}
    BY <1>5 DEF CallDisconnect, MayCall
  <2>3. \A f \in Frames : /\ f.op = Top(t).op /\ f.at = Top(t).at
                          /\ Holds(Top(t), clientState)
                          => Holds(f, clientState)
    BY <2>2 DEF Holds, Requests
  <2>4. Call(t, Top(t).at, callee) /\ clientState' = clientState
    BY <1>5 DEF CallDisconnect
  <2> HIDE DEF callee
  <2> QED BY <2>1, <2>2, <2>3, <2>4 DEF Requests
<1>6. CASE ClaimDisconnect(t)
  BY <1>0, <1>6 DEF ClaimDisconnect, Holds, Requests
<1>7. CASE DisconnectNetwork(t)
  BY <1>0, <1>7 DEF DisconnectNetwork, Holds, Requests
<1>8. CASE FinishDisconnect(t)
  BY <1>0, <1>8 DEF FinishDisconnect, Holds, Requests
<1> QED BY <1>1, <1>2, <1>3, <1>4, <1>5, <1>6, <1>7, <1>8 DEF SessionStep

LEMMA ReconnectStepOwned ==
  ASSUME OneTaskOrQuiet, IInv, NEW t \in Tasks, ReconnectStep(t)
  PROVE  TransientStateOwned' /\ StackInv'
<1> USE GotoOwned, GotoWithOwned, ReturnsOwned, CallsOwned, OnlyMismatchFails,
        TopTyped, FrameTyped, ControlPoints, StateNames
    DEF ResultCodes, At, SetStateAnyway, SetState, RestStates, ConnectStates
<1>0. TInv /\ TypeOK /\ clientState \in ClientStates
  BY DEF IInv, TInv, TypeOK
<1>1. CASE CallReconnect(t)
  <2> DEFINE callee == Frame("reconnect", "start", clientState)
  <2>1. callee \in Frames /\ callee.op = "reconnect" /\ Top(t).at \in Points
    BY <1>0 DEF Ops, Frame
  <2>2. Top(t).op \in {"task", "deliver"}
    BY <1>1 DEF CallReconnect, MayCall
  <2>3. \A f \in Frames : /\ f.op = Top(t).op /\ f.at = Top(t).at
                          /\ Holds(Top(t), clientState)
                          => Holds(f, clientState)
    BY <2>2 DEF Holds, Requests
  <2>4. Call(t, Top(t).at, callee) /\ clientState' = clientState
    BY <1>1 DEF CallReconnect
  <2> HIDE DEF callee
  <2> QED BY <2>1, <2>2, <2>3, <2>4 DEF Requests
<1>2. CASE StartReconnect(t)
  BY <1>0, <1>2 DEF StartReconnect, Holds, Requests, Ops, Frame, MayCall, ResubscribeFrame
<1>3. CASE CheckReconnect(t)
  BY <1>0, <1>3 DEF CheckReconnect, Holds, Requests
<1>4. CASE GiveUpReconnect(t)
  BY <1>0, <1>4 DEF GiveUpReconnect, Holds, Requests
<1>5. CASE CallResubscribe(t)
  BY <1>0, <1>5 DEF CallResubscribe, Holds, Requests, Ops, Frame, MayCall, ResubscribeFrame
<1>6. CASE ReconnectResubscribe(t)
  <2>1. Top(t).op = "reconnect" /\ depth[t] # 0 /\ clientState' = clientState
    BY <1>0, <1>6 DEF ReconnectResubscribe
  <2>2. CASE clientState \in {"IDLE", "RESUBSCRIBE"}
    <3>1. Replaces(t, ResubscribeFrame) /\ ResubscribeFrame \in Frames
      BY <1>0, <1>6, <2>2, ReplaceFrames, ResubscribeTyped DEF ReconnectResubscribe
    <3>2. ResubscribeFrame.op = "resubscribe"
      BY DEF ResubscribeFrame, Frame
    <3> QED BY <2>1, <3>1, <3>2, ReplaceOwned DEF Top
  <2>3. CASE clientState \notin {"IDLE", "RESUBSCRIBE"}
    BY <1>0, <1>6, <2>1, <2>3 DEF ReconnectResubscribe, Holds, Requests
  <2> QED BY <2>2, <2>3
<1>7. CASE ClaimResubscribe(t)
  BY <1>0, <1>7 DEF ClaimResubscribe, Holds, Requests
<1>8. CASE FinishResubscribe(t)
  BY <1>0, <1>8 DEF FinishResubscribe, Holds, Requests
<1>9. CASE ReleaseResubscribe(t)
  BY <1>0, <1>9 DEF ReleaseResubscribe, Holds, Requests
<1> QED BY <1>1, <1>2, <1>3, <1>4, <1>5, <1>6, <1>7, <1>8, <1>9 DEF ReconnectStep

LEMMA YieldStepOwned ==
  ASSUME OneTaskOrQuiet, IInv, NEW t \in Tasks, YieldStep(t)
  PROVE  TransientStateOwned' /\ StackInv'
<1> USE GotoOwned, GotoWithOwned, ReturnsOwned, CallsOwned, OnlyMismatchFails,
        TopTyped, FrameTyped, ControlPoints, StateNames
    DEF ResultCodes, At, SetStateAnyway, SetState, RestStates, ConnectStates
<1>0. TInv /\ TypeOK /\ clientState \in ClientStates
  BY DEF IInv, TInv, TypeOK
<1>1. CASE CallYield(t)
  BY <1>0, <1>1 DEF CallYield, Holds, Requests, Ops, Frame, MayCall
<1>2. CASE ClaimYield(t)
  BY <1>0, <1>2 DEF ClaimYield, Holds, Requests
<1>3. CASE YieldReconnect(t)
  BY <1>0, <1>3 DEF YieldReconnect, Holds, Requests, Ops, Frame, MayCall
<1>4. CASE YieldReconnected(t)
  BY <1>0, <1>4 DEF YieldReconnected, Holds, Requests
<1>5. CASE YieldReclaim(t)
  BY <1>0, <1>5 DEF YieldReclaim, Holds, Requests
<1>6. CASE YieldRead(t)
  BY <1>0, <1>6 DEF YieldRead, Holds, Requests
<1>7. CASE YieldDelivered(t)
  BY <1>0, <1>7 DEF YieldDelivered, Holds, Requests
<1>8. CASE YieldLinkLost(t)
  <2>1. Top(t).op = "yield"
    BY <1>8 DEF YieldLinkLost
  <2>2. CASE clientState \in ConnectedStates
    <3> DEFINE callee == Frame("disconnect", "claim", clientState)
    <3>1. callee \in Frames /\ callee.op = "disconnect"
      BY <1>0 DEF Ops, Frame
    <3>2. \A f \in Frames : /\ f.op = "yield" /\ f.at = "dropped" /\ f.rc = "none"
                            /\ Holds(Top(t), clientState)
                            => Holds(f, clientState)
      BY <2>1 DEF Holds, Requests
    <3>3. Call(t, "dropped", callee) /\ clientState' = clientState
      BY <1>8, <2>2 DEF YieldLinkLost
    <3> HIDE DEF callee
    <3> QED BY <2>1, <3>1, <3>2, <3>3 DEF Requests
  <2>3. CASE clientState \notin ConnectedStates
    <3>1. GotoWith(t, "dropped", "error") /\ clientState' = clientState
      BY <1>8, <2>3 DEF YieldLinkLost
    <3> QED BY <2>1, <3>1 DEF Holds, Requests
  <2> QED BY <2>2, <2>3
<1>9. CASE YieldDropped(t)
  BY <1>0, <1>9 DEF YieldDropped, Holds, Requests
<1>10. CASE DisconnectHandler(t)
  <2>1. Top(t).op = "yield" /\ Top(t).at = "handler" /\ clientState' = clientState
    BY <1>10 DEF DisconnectHandler
  <2>2. CASE AutoReconnect
    <3>1. Goto(t, "handled")
      BY <1>10, <2>2 DEF DisconnectHandler
    <3> QED BY <2>1, <3>1 DEF Holds, Requests
  <2>3. CASE ~AutoReconnect
    <3> DEFINE callee == Frame("reconnect", "start", clientState)
    <3>1. callee \in Frames /\ callee.op = "reconnect"
      BY <1>0 DEF Ops, Frame
    <3>2. ~Holds(Top(t), clientState)
      BY <2>1 DEF Holds, Requests
    <3>3. Call(t, "handled", callee)
      BY <1>10, <2>3 DEF DisconnectHandler
    <3> HIDE DEF callee
    <3> QED BY <2>1, <3>1, <3>2, <3>3 DEF Requests
  <2> QED BY <2>2, <2>3
<1>11. CASE YieldMarkLost(t)
  BY <1>0, <1>11 DEF YieldMarkLost, Holds, Requests
<1>12. CASE YieldPend(t)
  BY <1>0, <1>12 DEF YieldPend, Holds, Requests
<1>13. CASE YieldAgain(t)
  BY <1>0, <1>13 DEF YieldAgain, Holds, Requests
<1>14. CASE YieldExit(t)
  BY <1>0, <1>14 DEF YieldExit, Holds, Requests
<1>15. CASE ReleaseYield(t)
  BY <1>0, <1>15 DEF ReleaseYield, Holds, Requests
<1> QED BY <1>1, <1>2, <1>3, <1>4, <1>5, <1>6, <1>7, <1>8, <1>9, <1>10, <1>11, <1>12, <1>13, <1>14, <1>15 DEF YieldStep

LEMMA OwnedInit ==
  ASSUME Init PROVE IInv
<1>1. TInv
  <2>1. Idle \in Frames /\ Idle.op = "task"
    BY FrameTyped, ControlPoints, StateNames DEF Idle, Frame, Ops
  <2> QED BY <2>1, DepthBound, StateNames, CallsAssumption DEF Init, TInv, TypeOK, BaseFrame
<1>2. TransientStateOwned
  BY CallsAssumption DEF Init, TransientStateOwned, RestStates, ConnectStates
<1>3. StackInv
  BY DEF Init, StackInv, SavedCovered, HandlersNeedMessages, Waiting
<1> QED BY <1>1, <1>2, <1>3 DEF IInv

LEMMA OwnedStep ==
  ASSUME OneTaskOrQuiet, IInv, [Next]_vars PROVE IInv'
<1>1. CASE UNCHANGED vars
  <2>1. TInv'
    BY <1>1 DEF IInv, TInv, TypeOK, BaseFrame, vars
  <2>2. TransientStateOwned'
    BY <1>1 DEF IInv, TransientStateOwned, Held, vars
  <2>3. SavedCovered' /\ HandlersNeedMessages' /\ Waiting'
    BY <1>1 DEF IInv, StackInv, SavedCovered, Covered, HandlersNeedMessages, Waiting, vars
  <2> QED BY <2>1, <2>2, <2>3 DEF IInv, StackInv
<1>2. ASSUME NEW t \in Tasks, TaskStep(t) PROVE IInv'
  <2>1. TInv'
    <3>1. StackStep(t) /\ DataTyped
      <4>1. CASE Lock(t)
        BY <4>1 DEF Lock, StackStep, DataTyped, IInv, TInv, TypeOK
      <4> QED BY <1>2, <4>1, RequestStepTyped, MessageStepTyped, SessionStepTyped,
                 ReconnectStepTyped, YieldStepTyped DEF TaskStep, IInv
    <3> QED BY <3>1, StackTyped DEF IInv
  <2>2. TransientStateOwned' /\ StackInv'
    <3>1. CASE Lock(t)
      <4>1. clientState' = clientState /\ frame' = frame /\ depth' = depth
        BY <3>1 DEF Lock
      <4>2. TransientStateOwned'
        BY <4>1 DEF IInv, TransientStateOwned, Held
      <4>3. SavedCovered' /\ HandlersNeedMessages' /\ Waiting'
        BY <4>1 DEF IInv, StackInv, SavedCovered, Covered, HandlersNeedMessages, Waiting
      <4> QED BY <4>2, <4>3 DEF StackInv
    <3> QED BY <1>2, <3>1, RequestStepOwned, MessageStepOwned, SessionStepOwned,
               ReconnectStepOwned, YieldStepOwned DEF TaskStep
  <2> QED BY <2>1, <2>2 DEF IInv
<1> QED BY <1>1, <1>2 DEF Next

\* TransientStateOwned is an invariant whenever one task uses the client,
\* whatever its message handlers call and however the lock attempts fail, and
\* whenever the mutex blocks and no application messages arrive, whatever the
\* number of tasks.
THEOREM Ownership == ASSUME OneTaskOrQuiet PROVE Spec => []TransientStateOwned
<1>1. Init => IInv
  BY OwnedInit
<1>2. IInv /\ [Next]_vars => IInv'
  BY OwnedStep
<1>3. IInv => TransientStateOwned
  BY DEF IInv
<1> QED BY <1>1, <1>2, <1>3, PTL DEF Spec
-----------------------------------------------------------------------------
(* Exclusive exchange on an established connection: any number of tasks     *)
(* publish, subscribe and yield, nothing arrives and no link is lost.       *)

SteadyOps == {"publish", "subscribe", "yield"}
SteadyUse == /\ \A t \in Tasks : TaskOps[t] \subseteq SteadyOps
             /\ InitialStates = {"IDLE"}
             /\ ~Messages
             /\ ~LinkFaults

\* The state a call of SteadyOps holds, and the call that holds it.
OwnState(op) == IF op = "yield" THEN "YIELD" ELSE InProgress[op]
Busy(t) == depth[t] = 1 /\ frame[t][1].at # "claim"

SteadyFrame(f) ==
    /\ f.op \in SteadyOps
    /\ f.op = "yield" => f.at \in {"claim", "loop", "cond", "release"}
    /\ f.op # "yield" => f.at \in {"claim", "body", "release"} /\ f.saved = "IDLE"

SteadyInv ==
    /\ TInv
    /\ clientState \in {"IDLE", "YIELD", "PUBLISH", "SUBSCRIBE"}
    /\ \A t \in Tasks : depth[t] \in {0, 1}
    /\ \A t \in Tasks : depth[t] = 1 => SteadyFrame(frame[t][1])
    /\ \A t \in Tasks : Busy(t) => clientState = OwnState(frame[t][1].op)
    /\ \A t, u \in Tasks : Busy(t) /\ Busy(u) => t = u

\* A call starts: nobody's ownership changes.
LEMMA SteadyCall ==
  ASSUME SteadyInv, TInv', NEW t \in Tasks, NEW callee \in Frames, Calls(t, callee),
         depth[t] = 0, clientState' = clientState,
         SteadyFrame(callee), callee.at = "claim"
  PROVE  SteadyInv'
<1>1. /\ depth'[t] = 1 /\ frame'[t][1] = callee
      /\ \A u \in Tasks : u # t => depth'[u] = depth[u] /\ frame'[u][1] = frame[u][1]
  BY DepthBound DEF Calls, SteadyInv, TInv, TypeOK
<1>2. ~Busy(t)' /\ \A u \in Tasks : u # t => (Busy(u)' <=> Busy(u))
  BY <1>1 DEF Busy
<1>3. \A u \in Tasks : depth'[u] \in {0, 1} /\ (depth'[u] = 1 => SteadyFrame(frame'[u][1]))
  BY <1>1 DEF SteadyInv
<1>4. \A u \in Tasks : Busy(u)' => clientState' = OwnState(frame'[u][1].op)
  BY <1>1, <1>2 DEF SteadyInv
<1>5. \A u, v \in Tasks : Busy(u)' /\ Busy(v)' => u = v
  BY <1>2 DEF SteadyInv
<1> QED BY <1>3, <1>4, <1>5 DEF SteadyInv, SteadyFrame

\* A call moves on: either it owned the client already, or it takes it from IDLE.
LEMMA SteadyMove ==
  ASSUME SteadyInv, TInv', NEW t \in Tasks, TopMoves(t), depth[t] = 1,
         SteadyFrame(frame'[t][1]),
         clientState' \in {"IDLE", "YIELD", "PUBLISH", "SUBSCRIBE"},
         clientState' = OwnState(frame[t][1].op),
         clientState = "IDLE" \/ Busy(t)
  PROVE  SteadyInv'
<1>1. /\ depth' = depth /\ frame'[t][1].op = frame[t][1].op
      /\ \A u \in Tasks : u # t => frame'[u][1] = frame[u][1]
  BY DepthBound DEF TopMoves, SteadyInv, TInv, TypeOK
<1>2. \A u \in Tasks : Busy(u) => u = t
  BY DEF SteadyInv, OwnState, SteadyOps, InProgress, Requests, SteadyFrame, Busy
<1>3. \A u \in Tasks : Busy(u)' => u = t
  BY <1>1, <1>2 DEF Busy
<1>4. \A u \in Tasks : depth'[u] \in {0, 1} /\ (depth'[u] = 1 => SteadyFrame(frame'[u][1]))
  BY <1>1 DEF SteadyInv
<1>5. \A u \in Tasks : Busy(u)' => clientState' = OwnState(frame'[u][1].op)
  BY <1>1, <1>3
<1>6. \A u, v \in Tasks : Busy(u)' /\ Busy(v)' => u = v
  BY <1>3
<1> QED BY <1>4, <1>5, <1>6 DEF SteadyInv, SteadyFrame

\* A call ends: nobody else owned the client if its state changes.
LEMMA SteadyReturn ==
  ASSUME SteadyInv, TInv', NEW t \in Tasks, Returns(t), depth[t] = 1,
         clientState' = clientState \/ (Busy(t) /\ clientState' = "IDLE")
  PROVE  SteadyInv'
<1>1. /\ depth'[t] = 0
      /\ \A u \in Tasks : u # t => depth'[u] = depth[u] /\ frame'[u][1] = frame[u][1]
  BY DepthBound DEF Returns, SteadyInv, TInv, TypeOK
<1>2. ~Busy(t)' /\ \A u \in Tasks : u # t => (Busy(u)' <=> Busy(u))
  BY <1>1 DEF Busy
<1>3. \A u \in Tasks : depth'[u] \in {0, 1} /\ (depth'[u] = 1 => SteadyFrame(frame'[u][1]))
  BY <1>1 DEF SteadyInv
<1>4. \A u \in Tasks : Busy(u)' => clientState' = OwnState(frame'[u][1].op)
  BY <1>1, <1>2 DEF SteadyInv
<1>5. \A u, v \in Tasks : Busy(u)' /\ Busy(v)' => u = v
  BY <1>2 DEF SteadyInv
<1>6. clientState' \in {"IDLE", "YIELD", "PUBLISH", "SUBSCRIBE"}
  BY DEF SteadyInv
<1> QED BY <1>3, <1>4, <1>5, <1>6 DEF SteadyInv, SteadyFrame

\* What a task of the steady client can be doing.
LEMMA SteadyTop ==
  ASSUME SteadyInv, NEW t \in Tasks
  PROVE  /\ TypeOK /\ TInv
         /\ depth[t] = 0 => Top(t).op = "task"
         /\ depth[t] # 0 => depth[t] = 1 /\ Top(t) = frame[t][1] /\ SteadyFrame(Top(t))
         /\ Busy(t) <=> depth[t] # 0 /\ Top(t).at # "claim"
         /\ Busy(t) => clientState = OwnState(Top(t).op)
  BY DEF SteadyInv, TInv, BaseFrame, Top, Busy

LEMMA SteadyGoto ==
  ASSUME SteadyInv, TInv', NEW t \in Tasks, NEW at \in Points, depth[t] # 0,
         Goto(t, at) \/ GotoWith(t, at, "ok"),
         at \in (IF Top(t).op = "yield" THEN {"loop", "cond", "release"}
                                        ELSE {"body", "release"}),
         clientState' = OwnState(Top(t).op),
         clientState = "IDLE" \/ Busy(t)
  PROVE  SteadyInv'
<1>1. depth[t] = 1 /\ Top(t) = frame[t][1] /\ SteadyFrame(Top(t)) /\ TypeOK
  BY SteadyTop
<1>2. TopMoves(t) /\ frame'[t][1].at = at
  BY <1>1, GotoFrames, GotoWithFrames DEF ResultCodes
<1>3. SteadyFrame(frame'[t][1])
  BY <1>1, <1>2 DEF TopMoves, SteadyFrame
<1>4. clientState' \in {"IDLE", "YIELD", "PUBLISH", "SUBSCRIBE"}
  BY <1>1 DEF OwnState, SteadyFrame, SteadyOps, InProgress, Requests
<1> QED BY <1>1, <1>2, <1>3, <1>4, SteadyMove

LEMMA SteadyReturns ==
  ASSUME SteadyInv, TInv', NEW t \in Tasks, depth[t] # 0,
         Return(t, "ok") \/ Return(t, "error"),
         clientState' = clientState \/ (Busy(t) /\ clientState' = "IDLE")
  PROVE  SteadyInv'
<1>1. depth[t] = 1 /\ TypeOK
  BY SteadyTop
<1>2. Returns(t)
  BY <1>1, ReturnFrames DEF ResultCodes
<1> QED BY <1>1, <1>2, SteadyReturn

LEMMA SteadyCallStep ==
  ASSUME SteadyUse, SteadyInv, TInv', NEW t \in Tasks, NEW op \in Ops, MayCall(t, op),
         Call(t, Top(t).at, Frame(op, "claim", "IDLE")), clientState' = clientState
  PROVE  SteadyInv'
<1>1. depth[t] = 0 /\ op \in SteadyOps /\ TypeOK
  BY SteadyTop DEF MayCall, At, SteadyFrame, SteadyOps, SteadyUse
<1>2. /\ Frame(op, "claim", "IDLE") \in Frames /\ SteadyFrame(Frame(op, "claim", "IDLE"))
      /\ Frame(op, "claim", "IDLE").at = "claim"
  BY <1>1, FrameTyped, ControlPoints, StateNames DEF SteadyFrame, Frame
<1>3. Top(t).at \in Points
  BY TopTyped, SteadyTop
<1>4. Calls(t, Frame(op, "claim", "IDLE"))
  BY <1>1, <1>2, <1>3, CallFrames
<1> QED BY <1>1, <1>2, <1>4, SteadyCall

LEMMA SteadyRequest ==
  ASSUME SteadyUse, SteadyInv, TInv', NEW t \in Tasks, RequestStep(t)
  PROVE  SteadyInv'
<1> USE ControlPoints, SteadyTop DEF At
<1>1. ASSUME NEW op \in Requests, CallRequest(t, op) PROVE SteadyInv'
  <2>1. clientState = "IDLE"
    BY <1>1 DEF CallRequest, SteadyInv
  <2>2. /\ MayCall(t, op) /\ Call(t, Top(t).at, Frame(op, "claim", "IDLE"))
        /\ clientState' = clientState /\ op \in Ops
    BY <1>1, <2>1 DEF CallRequest, Ops
  <2> QED BY <2>2, SteadyCallStep
<1>2. ASSUME NEW op \in Requests, ClaimRequest(t, op) PROVE SteadyInv'
  <2>1. depth[t] # 0 /\ op \in {"publish", "subscribe"} /\ Top(t).op = op /\ Top(t).saved = "IDLE"
    BY <1>2 DEF ClaimRequest, SteadyFrame, SteadyOps, Requests
  <2>2. CASE SetState(t, "IDLE", InProgress[op]) /\ Goto(t, "body")
    BY <2>1, <2>2, SteadyGoto DEF SetState, OwnState
  <2>3. CASE SetStateFails(t, "IDLE") /\ Return(t, "error")
    BY <2>1, <2>3, SteadyReturns DEF SetStateFails
  <2> QED BY <1>2, <2>1, <2>2, <2>3 DEF ClaimRequest
<1>3. ASSUME NEW op \in Requests, FinishRequest(t, op) PROVE SteadyInv'
  <2>1. /\ depth[t] # 0 /\ Top(t).op # "yield" /\ Busy(t)
        /\ Goto(t, "release") /\ clientState' = clientState
    BY <1>3 DEF FinishRequest, Requests
  <2> QED BY <2>1, SteadyGoto
<1>4. ASSUME NEW op \in Requests, ReleaseRequest(t, op) PROVE SteadyInv'
  <2>1. depth[t] # 0 /\ Busy(t) /\ Top(t).saved = "IDLE" /\ Return(t, "ok")
    BY <1>4 DEF ReleaseRequest, SteadyFrame, Requests
  <2>2. clientState' = clientState \/ clientState' = "IDLE"
    BY <1>4, <2>1 DEF ReleaseRequest, SetStateAnyway, SetState, SetStateFails
  <2> QED BY <2>1, <2>2, SteadyReturns
<1>5. ~UndoUnsubscribe(t)
  BY DEF UndoUnsubscribe, SteadyFrame, SteadyOps
<1> QED BY <1>1, <1>2, <1>3, <1>4, <1>5 DEF RequestStep

LEMMA SteadyYield ==
  ASSUME SteadyUse, SteadyInv, TInv', NEW t \in Tasks, YieldStep(t)
  PROVE  SteadyInv'
<1> USE ControlPoints, SteadyTop DEF At
<1>1. CASE CallYield(t)
  <2>1. clientState = "IDLE"
    BY <1>1 DEF CallYield, SteadyInv
  <2>2. /\ MayCall(t, "yield") /\ Call(t, Top(t).at, Frame("yield", "claim", "IDLE"))
        /\ clientState' = clientState /\ "yield" \in Ops
    BY <1>1, <2>1 DEF CallYield, Ops
  <2> QED BY <2>2, SteadyCallStep
<1>2. CASE ClaimYield(t)
  <2>1. depth[t] # 0 /\ Top(t).op = "yield"
    BY <1>2 DEF ClaimYield
  <2>2. CASE SetState(t, "IDLE", "YIELD") /\ Goto(t, "loop")
    BY <2>1, <2>2, SteadyGoto DEF SetState, OwnState
  <2>3. CASE SetStateFails(t, "IDLE") /\ Return(t, "error")
    BY <2>1, <2>3, SteadyReturns DEF SetStateFails
  <2> QED BY <1>2, <2>2, <2>3 DEF ClaimYield
<1>3. CASE YieldRead(t)
  <2>1. /\ depth[t] # 0 /\ Top(t).op = "yield" /\ Busy(t) /\ clientState' = clientState
        /\ GotoWith(t, "cond", "ok") \/ GotoWith(t, "release", "ok")
    BY <1>3 DEF YieldRead
  <2> QED BY <2>1, SteadyGoto
<1>4. CASE YieldAgain(t)
  <2>1. /\ depth[t] # 0 /\ Top(t).op = "yield" /\ Busy(t) /\ clientState' = clientState
        /\ GotoWith(t, "loop", "ok")
    BY <1>4 DEF YieldAgain
  <2> QED BY <2>1, SteadyGoto
<1>5. CASE YieldExit(t)
  <2>1. /\ depth[t] # 0 /\ Top(t).op = "yield" /\ Busy(t) /\ clientState' = clientState
        /\ Return(t, "error") \/ Goto(t, "release")
    BY <1>5 DEF YieldExit
  <2> QED BY <2>1, SteadyGoto, SteadyReturns
<1>6. CASE ReleaseYield(t)
  <2>1. depth[t] # 0 /\ Busy(t) /\ Return(t, "ok")
    BY <1>6 DEF ReleaseYield
  <2>2. clientState' = clientState \/ clientState' = "IDLE"
    BY <1>6 DEF ReleaseYield, SetStateAnyway, SetState, SetStateFails
  <2> QED BY <2>1, <2>2, SteadyReturns
<1>7. ~YieldReconnect(t) /\ ~YieldLinkLost(t)
  BY DEF YieldReconnect, YieldLinkLost, SteadyUse, SteadyInv
<1>8. /\ ~YieldReconnected(t) /\ ~YieldReclaim(t) /\ ~YieldDelivered(t) /\ ~YieldDropped(t)
      /\ ~DisconnectHandler(t) /\ ~YieldMarkLost(t) /\ ~YieldPend(t)
  BY DEF YieldReconnected, YieldReclaim, YieldDelivered, YieldDropped, DisconnectHandler,
         YieldMarkLost, YieldPend, SteadyFrame
<1> QED BY <1>1, <1>2, <1>3, <1>4, <1>5, <1>6, <1>7, <1>8 DEF YieldStep

\* No other call starts, and no other call is in progress.
LEMMA SteadyNothingElse ==
  ASSUME SteadyUse, SteadyInv, NEW t \in Tasks
  PROVE  ~MessageStep(t) /\ ~SessionStep(t) /\ ~ReconnectStep(t)
<1>1. Top(t).op \in SteadyOps \cup {"task"} /\ \A op \in Ops : MayCall(t, op) => op \in SteadyOps
  BY SteadyTop DEF MayCall, At, SteadyUse, SteadyFrame, SteadyOps
<1>2. ~MessageStep(t)
  BY <1>1 DEF MessageStep, ReceiveMessage, MarkCallback, CallbackReturns, UnmarkCallback,
              SteadyUse, At, SteadyOps
<1>3. ~SessionStep(t)
  BY <1>1 DEF SessionStep, CallConnect, ClaimConnect, ConnectNetwork, FinishConnect,
              CallDisconnect, ClaimDisconnect, DisconnectNetwork, FinishDisconnect,
              At, SteadyOps, Ops
<1>4. ~ReconnectStep(t)
  BY <1>1 DEF ReconnectStep, CallReconnect, StartReconnect, CheckReconnect, GiveUpReconnect,
              CallResubscribe, ReconnectResubscribe, ClaimResubscribe, FinishResubscribe,
              ReleaseResubscribe, At, SteadyOps, Ops
<1> QED BY <1>2, <1>3, <1>4

\* ExclusiveExchange is an invariant of any number of tasks that publish,
\* subscribe and yield, even when the non-blocking mutex loses releases.
THEOREM SteadyExclusion == ASSUME SteadyUse PROVE Spec => []ExclusiveExchange
<1>1. Init => SteadyInv
  <2> SUFFICES ASSUME Init PROVE SteadyInv
    OBVIOUS
  <2>1. TInv
    <3>1. Idle \in Frames /\ Idle.op = "task"
      BY FrameTyped, ControlPoints, StateNames DEF Idle, Frame, Ops
    <3> QED BY <3>1, DepthBound, StateNames, CallsAssumption DEF Init, TInv, TypeOK, BaseFrame
  <2> QED BY <2>1 DEF Init, SteadyInv, SteadyUse, Busy
<1>2. SteadyInv /\ [Next]_vars => SteadyInv'
  <2> SUFFICES ASSUME SteadyInv, [Next]_vars PROVE SteadyInv'
    OBVIOUS
  <2>1. CASE UNCHANGED vars
    BY <2>1 DEF SteadyInv, TInv, TypeOK, BaseFrame, Busy, SteadyFrame, vars
  <2>2. ASSUME NEW t \in Tasks, TaskStep(t) PROVE SteadyInv'
    <3>1. TInv'
      <4>1. CASE Lock(t)
        BY <4>1 DEF Lock, SteadyInv, TInv, TypeOK, BaseFrame
      <4>2. CASE ~Lock(t)
        <5>1. StackStep(t) /\ DataTyped
          BY <2>2, <4>2, RequestStepTyped, MessageStepTyped, SessionStepTyped,
             ReconnectStepTyped, YieldStepTyped DEF TaskStep, SteadyInv
        <5> QED BY <5>1, StackTyped DEF SteadyInv
      <4> QED BY <4>1, <4>2
    <3>2. CASE Lock(t)
      BY <3>1, <3>2 DEF Lock, SteadyInv, Busy, SteadyFrame
    <3> QED BY <2>2, <3>1, <3>2, SteadyRequest, SteadyYield, SteadyNothingElse DEF TaskStep
  <2> QED BY <2>1, <2>2 DEF Next
<1>3. SteadyInv => ExclusiveExchange
  <2> SUFFICES ASSUME SteadyInv, NEW t \in Tasks, NEW u \in Tasks,
                      Exchanging(t), Exchanging(u)
               PROVE  t = u
    BY DEF ExclusiveExchange
  <2>1. ASSUME NEW v \in Tasks, Exchanging(v) PROVE Busy(v)
    BY <2>1 DEF Exchanging, SteadyInv, Busy
  <2> QED BY <2>1 DEF SteadyInv
<1> QED BY <1>1, <1>2, <1>3, PTL DEF Spec
-----------------------------------------------------------------------------
(* The session of one task: no other task changes the client state, so a    *)
(* call finds the state it was called in, and a state that says connected   *)
(* never outlives the TLS session.                                          *)

OneTask == \A t, u \in Tasks : t = u

\* Disconnected, and not waiting to reconnect.
ClosedStates == ConnectStates \ {"PENDING_RECONNECT"}

\* The innermost call f, where the client is in state s and its session is l.
SessionAt(f, s, l) ==
    /\ s = "CONNECTING" => f.op = "connect"
    /\ s = "DISCONNECTING" => f.op = "disconnect"
    /\ f.op \in {"connect", "disconnect"} /\ f.at = "claim" => s = f.saved
    /\ f.op = "connect" =>
         /\ f.at = "claim" => s \in ConnectStates
         /\ f.at \in {"network", "established", "failed"} => s = "CONNECTING"
         /\ f.at = "established" => l = "up"
         /\ f.at \in {"network", "failed"} => l = "down"
    /\ f.op = "disconnect" =>
         /\ f.at = "claim" => s \in ConnectedStates
         /\ f.at # "claim" => s = "DISCONNECTING"
         /\ f.at = "network" => l = "up"
         /\ f.at = "finish" => l = "down"
    /\ f.op = "deliver" /\ f.at = "mark" => s = f.saved
    /\ f.op = "yield" =>
         /\ f.at = "read" /\ f.rc = "ok" => s \in ConnectedStates
         /\ f.at \in {"dropped", "handler", "handled"} => s \in ClosedStates

\* The call f waits for g: the disconnect handler makes no calls.
Suspended(f, g) ==
    /\ f.op \notin {"connect", "disconnect"}
    /\ f.op = "yield" => f.at \notin {"handler", "handled"}
    /\ f.op = "yield" /\ f.at = "read" => g.op = "deliver"
    /\ f.op = "deliver" => f.at = "callback"

\* What these calls put back is a connected state.
SavedConnected(f) == f.op \in Requests \cup {"deliver"} => f.saved \in ConnectedStates

SessionInv ==
    /\ IInv
    /\ SessionMatchesState
    /\ \A t \in Tasks : SessionAt(Top(t), clientState, tls)
    /\ \A t \in Tasks : \A i \in 1..depth[t] : SavedConnected(frame[t][i])
    /\ \A t \in Tasks : \A i \in 1..(depth[t] - 1) : Suspended(frame[t][i], frame[t][i + 1])

\* The top call moves on, or ends with a call of another function.
LEMMA SessionMove ==
  ASSUME OneTask, SessionInv, IInv', NEW t \in Tasks, depth[t] # 0,
         TopMoves(t) \/ \E new \in Frames : Replaces(t, new),
         frame[t][depth[t]].op = "deliver" => frame'[t][depth[t]].op = "deliver",
         SavedConnected(frame'[t][depth[t]]),
         SessionMatchesState', SessionAt(frame'[t][depth[t]], clientState', tls')
  PROVE  SessionInv'
<1>1. /\ depth' = depth /\ depth[t] \in 1..MaxDepth
      /\ \A j \in 0..MaxDepth : j # depth[t] => frame'[t][j] = frame[t][j]
  BY DEF SessionInv, IInv, TInv, TypeOK, TopMoves, Replaces
<1>2. \A u \in Tasks : u = t
  BY DEF OneTask
<1>3. frame'[t][depth'[t]] = frame'[t][depth[t]]
  BY <1>1
<1>4. \A u \in Tasks : SessionAt(Top(u), clientState, tls)'
  BY <1>2, <1>3 DEF Top
<1>5. ASSUME NEW u \in Tasks, NEW i \in 1..depth'[u] PROVE SavedConnected(frame'[u][i])
  <2>1. CASE i = depth[t]
    BY <1>2, <2>1
  <2>2. CASE i # depth[t]
    <3>1. u = t /\ i \in 1..depth[t] /\ i \in 0..MaxDepth
      BY <1>1, <1>2, DepthBound
    <3>2. frame'[t][i] = frame[t][i] /\ SavedConnected(frame[t][i])
      BY <1>1, <2>2, <3>1 DEF SessionInv
    <3> QED BY <3>1, <3>2
  <2> QED BY <2>1, <2>2
<1>6. ASSUME NEW u \in Tasks, NEW i \in 1..(depth'[u] - 1)
      PROVE  Suspended(frame'[u][i], frame'[u][i + 1])
  <2>1. /\ u = t /\ i \in 1..(depth[t] - 1) /\ i \in 0..MaxDepth /\ i # depth[t]
        /\ i + 1 \in 0..MaxDepth
    BY <1>1, <1>2, DepthBound
  <2>2. frame'[t][i] = frame[t][i] /\ Suspended(frame[t][i], frame[t][i + 1])
    BY <1>1, <2>1 DEF SessionInv
  <2>3. frame[t][i + 1].op = "deliver" => frame'[t][i + 1].op = "deliver"
    BY <1>1, <2>1
  <2> QED BY <2>1, <2>2, <2>3 DEF Suspended
<1>7. (\A u \in Tasks : \A i \in 1..depth[u] : SavedConnected(frame[u][i]))'
  BY <1>5
<1>8. (\A u \in Tasks : \A i \in 1..(depth[u] - 1) : Suspended(frame[u][i], frame[u][i + 1]))'
  BY <1>6
<1> QED BY <1>4, <1>7, <1>8 DEF SessionInv

\* A call changes neither the state nor the session.
LEMMA SessionCall ==
  ASSUME OneTask, SessionInv, IInv', NEW t \in Tasks, NEW callee \in Frames,
         Calls(t, callee), clientState' = clientState, tls' = tls,
         depth[t] # 0 => Suspended(frame'[t][depth[t]], callee),
         SavedConnected(callee), SessionAt(callee, clientState, tls)
  PROVE  SessionInv'
<1>1. /\ depth'[t] = depth[t] + 1 /\ depth[t] \in 0..MaxDepth
      /\ frame'[t][depth[t] + 1] = callee
      /\ frame'[t][depth[t]].op = frame[t][depth[t]].op
      /\ frame'[t][depth[t]].saved = frame[t][depth[t]].saved
      /\ \A j \in 0..MaxDepth :
           j \notin {depth[t], depth[t] + 1} => frame'[t][j] = frame[t][j]
  BY DEF SessionInv, IInv, TInv, TypeOK, Calls
<1>2. \A u \in Tasks : u = t
  BY DEF OneTask
<1>3. SessionMatchesState'
  BY DEF SessionInv, SessionMatchesState
<1>4. \A u \in Tasks : SessionAt(Top(u), clientState, tls)'
  BY <1>1, <1>2 DEF Top
<1>5. ASSUME NEW u \in Tasks, NEW i \in 1..depth'[u] PROVE SavedConnected(frame'[u][i])
  <2>0. u = t /\ i \in 1..(depth[t] + 1)
    BY <1>1, <1>2
  <2>1. CASE i = depth[t] + 1
    BY <1>1, <2>0, <2>1
  <2>2. CASE i # depth[t] + 1
    <3>1. i \in 1..depth[t] /\ i \in 0..MaxDepth
      BY <1>1, <2>0, <2>2, DepthBound
    <3>2. SavedConnected(frame[t][i])
      BY <3>1 DEF SessionInv
    <3>3. frame'[t][i].op = frame[t][i].op /\ frame'[t][i].saved = frame[t][i].saved
      BY <1>1, <2>2, <3>1
    <3> QED BY <2>0, <3>2, <3>3 DEF SavedConnected
  <2> QED BY <2>1, <2>2
<1>6. ASSUME NEW u \in Tasks, NEW i \in 1..(depth'[u] - 1)
      PROVE  Suspended(frame'[u][i], frame'[u][i + 1])
  <2>0. u = t /\ i \in 1..depth[t]
    BY <1>1, <1>2
  <2>1. CASE i = depth[t]
    BY <1>1, <2>0, <2>1
  <2>2. CASE i # depth[t]
    <3>1. /\ i \in 1..(depth[t] - 1) /\ i \in 0..MaxDepth /\ i # depth[t] + 1
          /\ i + 1 \in 0..MaxDepth /\ i + 1 # depth[t] + 1
      BY <1>1, <2>0, <2>2, DepthBound
    <3>2. frame'[t][i] = frame[t][i] /\ Suspended(frame[t][i], frame[t][i + 1])
      BY <1>1, <2>2, <3>1 DEF SessionInv
    <3>3. frame'[t][i + 1].op = frame[t][i + 1].op
      BY <1>1, <3>1
    <3> QED BY <2>0, <3>2, <3>3 DEF Suspended
  <2> QED BY <2>1, <2>2
<1>7. (\A u \in Tasks : \A i \in 1..depth[u] : SavedConnected(frame[u][i]))'
  BY <1>5
<1>8. (\A u \in Tasks : \A i \in 1..(depth[u] - 1) : Suspended(frame[u][i], frame[u][i + 1]))'
  BY <1>6
<1> QED BY <1>3, <1>4, <1>7, <1>8 DEF SessionInv

\* A call that ends is over with connecting and disconnecting; a disconnect
\* has disconnected, and a message was delivered in a connected state.
LEMMA SessionReturn ==
  ASSUME OneTask, SessionInv, IInv', NEW t \in Tasks, Returns(t), depth[t] # 0,
         SessionMatchesState', clientState' \notin {"CONNECTING", "DISCONNECTING"},
         frame[t][depth[t]].op = "disconnect" => clientState' \in ClosedStates,
         frame[t][depth[t]].op = "deliver" /\ frame'[t][depth[t] - 1].rc = "ok"
           => clientState' \in ConnectedStates
  PROVE  SessionInv'
<1>1. /\ depth'[t] = depth[t] - 1 /\ depth[t] \in 1..MaxDepth /\ depth[t] - 1 \in 0..MaxDepth
      /\ frame'[t][depth[t] - 1].op = frame[t][depth[t] - 1].op
      /\ frame'[t][depth[t] - 1].at = frame[t][depth[t] - 1].at
      /\ frame'[t][depth[t] - 1].saved = frame[t][depth[t] - 1].saved
      /\ \A j \in 0..MaxDepth :
           j \notin {depth[t], depth[t] - 1} => frame'[t][j] = frame[t][j]
  BY DEF SessionInv, IInv, TInv, TypeOK, Returns
<1>2. \A u \in Tasks : u = t
  BY DEF OneTask
<1>3. SessionAt(frame'[t][depth[t] - 1], clientState', tls')
  <2>1. CASE depth[t] = 1
    <3>1. frame'[t][depth[t] - 1].op = "task"
      BY <1>1, <2>1 DEF SessionInv, IInv, TInv, BaseFrame
    <3> QED BY <3>1 DEF SessionAt
  <2>2. CASE depth[t] # 1
    <3>1. depth[t] - 1 \in 1..(depth[t] - 1) /\ (depth[t] - 1) + 1 = depth[t]
      BY <1>1, <2>2
    <3>2. Suspended(frame[t][depth[t] - 1], frame[t][depth[t]])
      BY <3>1 DEF SessionInv
    <3>3. frame[t][depth[t] - 1].op = "yield" /\ frame[t][depth[t] - 1].at = "dropped"
            => frame[t][depth[t]].op = "disconnect"
      BY <3>1 DEF SessionInv, IInv, StackInv, Waiting
    <3> QED BY <1>1, <3>2, <3>3 DEF SessionAt, Suspended
  <2> QED BY <2>1, <2>2
<1>4. \A u \in Tasks : SessionAt(Top(u), clientState, tls)'
  BY <1>1, <1>2, <1>3 DEF Top
<1>5. ASSUME NEW u \in Tasks, NEW i \in 1..depth'[u] PROVE SavedConnected(frame'[u][i])
  <2>1. u = t /\ i \in 1..depth[t] /\ i \in 0..MaxDepth /\ i # depth[t]
    BY <1>1, <1>2, DepthBound
  <2>2. SavedConnected(frame[t][i])
    BY <2>1 DEF SessionInv
  <2>3. frame'[t][i].op = frame[t][i].op /\ frame'[t][i].saved = frame[t][i].saved
    BY <1>1, <2>1
  <2> QED BY <2>1, <2>2, <2>3 DEF SavedConnected
<1>6. ASSUME NEW u \in Tasks, NEW i \in 1..(depth'[u] - 1)
      PROVE  Suspended(frame'[u][i], frame'[u][i + 1])
  <2>1. /\ u = t /\ i \in 1..(depth[t] - 1) /\ i \in 0..MaxDepth
        /\ i # depth[t] /\ i # depth[t] - 1 /\ i + 1 \in 0..MaxDepth /\ i + 1 # depth[t]
    BY <1>1, <1>2, DepthBound
  <2>2. frame'[t][i] = frame[t][i] /\ Suspended(frame[t][i], frame[t][i + 1])
    BY <1>1, <2>1 DEF SessionInv
  <2>3. frame'[t][i + 1].op = frame[t][i + 1].op
    BY <1>1, <2>1
  <2> QED BY <2>1, <2>2, <2>3 DEF Suspended
<1>7. (\A u \in Tasks : \A i \in 1..depth[u] : SavedConnected(frame[u][i]))'
  BY <1>5
<1>8. (\A u \in Tasks : \A i \in 1..(depth[u] - 1) : Suspended(frame[u][i], frame[u][i + 1]))'
  BY <1>6
<1> QED BY <1>4, <1>7, <1>8 DEF SessionInv

\* The innermost call of a task, which is in no connect or disconnect unless
\* that is the call.
LEMMA SessionTop ==
  ASSUME OneTask, SessionInv, NEW t \in Tasks
  PROVE  /\ OneTaskOrQuiet /\ IInv /\ TInv /\ TypeOK
         /\ SessionMatchesState
         /\ SessionAt(Top(t), clientState, tls)
         /\ Top(t).op # "task" => depth[t] # 0 /\ SavedConnected(Top(t))
<1>1. Top(t).op # "task" => depth[t] \in 1..depth[t]
  BY TopTyped DEF SessionInv, IInv, TInv, TypeOK
<1> QED BY <1>1, TopTyped DEF SessionInv, IInv, TInv, OneTask, OneTaskOrQuiet, Top

\* The forms in which the actions use the lemmas above.
LEMMA SessionGoto ==
  ASSUME OneTask, SessionInv, IInv', NEW t \in Tasks, NEW at \in Points, Goto(t, at),
         Top(t).op # "task", SessionMatchesState',
         \A f \in Frames : /\ f.op = Top(t).op /\ f.saved = Top(t).saved
                           /\ f.at = at /\ f.rc = Top(t).rc
                           => SessionAt(f, clientState', tls')
  PROVE  SessionInv'
<1>1. /\ TopMoves(t) /\ depth[t] \in 0..MaxDepth /\ depth[t] # 0
      /\ frame'[t][depth[t]].at = at /\ frame'[t][depth[t]].rc = Top(t).rc
      /\ SavedConnected(Top(t))
  BY GotoFrames, SessionTop DEF TypeOK, Top
<1>2. /\ frame'[t][depth[t]] \in Frames
      /\ frame'[t][depth[t]].op = Top(t).op
      /\ frame'[t][depth[t]].saved = Top(t).saved
  BY <1>1, DepthBound DEF TopMoves, Top
<1>3. SavedConnected(frame'[t][depth[t]])
  BY <1>1, <1>2 DEF SavedConnected
<1>4. SessionAt(frame'[t][depth[t]], clientState', tls')
  BY <1>1, <1>2
<1> QED BY <1>1, <1>2, <1>3, <1>4, SessionMove DEF Top

LEMMA SessionGotoWith ==
  ASSUME OneTask, SessionInv, IInv', NEW t \in Tasks, NEW at \in Points,
         NEW rc \in ResultCodes, GotoWith(t, at, rc),
         Top(t).op # "task", SessionMatchesState',
         \A f \in Frames : /\ f.op = Top(t).op /\ f.saved = Top(t).saved
                           /\ f.at = at /\ f.rc = rc
                           => SessionAt(f, clientState', tls')
  PROVE  SessionInv'
<1>1. /\ TopMoves(t) /\ depth[t] \in 0..MaxDepth /\ depth[t] # 0
      /\ frame'[t][depth[t]].at = at /\ frame'[t][depth[t]].rc = rc
      /\ SavedConnected(Top(t))
  BY GotoWithFrames, SessionTop DEF TypeOK
<1>2. /\ frame'[t][depth[t]] \in Frames
      /\ frame'[t][depth[t]].op = Top(t).op
      /\ frame'[t][depth[t]].saved = Top(t).saved
  BY <1>1, DepthBound DEF TopMoves, Top
<1>3. SavedConnected(frame'[t][depth[t]])
  BY <1>1, <1>2 DEF SavedConnected
<1>4. SessionAt(frame'[t][depth[t]], clientState', tls')
  BY <1>1, <1>2
<1> QED BY <1>1, <1>2, <1>3, <1>4, SessionMove DEF Top

LEMMA SessionCalls ==
  ASSUME OneTask, SessionInv, IInv', NEW t \in Tasks, NEW at \in Points,
         NEW callee \in Frames, Call(t, at, callee),
         clientState' = clientState, tls' = tls,
         Top(t).op \notin {"connect", "disconnect"},
         Top(t).op = "yield" => at \notin {"handler", "handled"},
         Top(t).op = "yield" /\ at = "read" => callee.op = "deliver",
         Top(t).op = "deliver" => at = "callback",
         SavedConnected(callee), SessionAt(callee, clientState, tls)
  PROVE  SessionInv'
<1>1. /\ Calls(t, callee)
      /\ frame'[t][depth[t]].at = at /\ frame'[t][depth[t]].op = Top(t).op
  BY CallFrames, SessionTop DEF Calls, Top
<1>2. Suspended(frame'[t][depth[t]], callee)
  BY <1>1 DEF Suspended
<1> QED BY <1>1, <1>2, SessionCall

LEMMA SessionReturns ==
  ASSUME OneTask, SessionInv, IInv', NEW t \in Tasks, NEW rc \in ResultCodes,
         Return(t, rc), Top(t).op # "task",
         SessionMatchesState', clientState' \notin {"CONNECTING", "DISCONNECTING"},
         Top(t).op = "disconnect" => clientState' \in ClosedStates,
         Top(t).op = "deliver" /\ rc = "ok" => clientState' \in ConnectedStates
  PROVE  SessionInv'
<1>1. /\ Returns(t) /\ frame'[t][depth[t] - 1].rc = rc /\ depth[t] # 0
  BY ReturnFrames, SessionTop
<1> QED BY <1>1, SessionReturn DEF Top

LEMMA RequestStepSession ==
  ASSUME OneTask, SessionInv, IInv', NEW t \in Tasks, RequestStep(t)
  PROVE  SessionInv'
<1> USE SessionTop, SessionGoto, SessionReturns, OnlyMismatchFails, TopTyped, FrameTyped,
        ControlPoints, StateNames
    DEF ResultCodes, At, SetStateAnyway, SetState, SavedConnected, SessionMatchesState,
        ConnectedStates, ConnectStates, ClosedStates
<1>0. clientState \in ClientStates
  BY DEF TypeOK
<1>1. ASSUME NEW op \in Requests, CallRequest(t, op) PROVE SessionInv'
  <2> DEFINE callee == Frame(op, "claim", clientState)
  <2>1. /\ Top(t).at \in Points /\ Top(t).op \in {"task", "deliver"}
        /\ Top(t).op = "deliver" => Top(t).at = "callback"
    BY <1>1 DEF CallRequest, MayCall
  <2>2. /\ callee \in Frames /\ callee.op = op /\ callee.saved = clientState
        /\ callee.at = "claim"
    BY <1>0 DEF Frame, Requests, Ops
  <2>3. clientState \in {"IDLE", "WAIT_FOR_CB"}
    BY <1>1 DEF CallRequest
  <2>4. SavedConnected(callee) /\ SessionAt(callee, clientState, tls)
    BY <2>2, <2>3 DEF SessionAt, Requests
  <2>5. Call(t, Top(t).at, callee) /\ clientState' = clientState /\ tls' = tls
    BY <1>1 DEF CallRequest
  <2> HIDE DEF callee
  <2> QED BY <2>1, <2>2, <2>4, <2>5, SessionCalls
<1>2. ASSUME NEW op \in Requests, ClaimRequest(t, op) PROVE SessionInv'
  BY <1>0, <1>2 DEF ClaimRequest, SessionAt, InProgress, Requests
<1>3. ASSUME NEW op \in Requests, FinishRequest(t, op) PROVE SessionInv'
  BY <1>0, <1>3 DEF FinishRequest, SessionAt, Requests
<1>4. ASSUME NEW op \in Requests, ReleaseRequest(t, op) PROVE SessionInv'
  BY <1>0, <1>4 DEF ReleaseRequest, SessionAt, InProgress, Requests
<1>5. CASE UndoUnsubscribe(t)
  BY <1>0, <1>5 DEF UndoUnsubscribe, SessionAt, Requests
<1> QED BY <1>1, <1>2, <1>3, <1>4, <1>5 DEF RequestStep

LEMMA MessageStepSession ==
  ASSUME OneTask, SessionInv, IInv', NEW t \in Tasks, MessageStep(t)
  PROVE  SessionInv'
<1> USE SessionTop, SessionGoto, SessionReturns, OnlyMismatchFails, TopTyped, FrameTyped,
        ControlPoints, StateNames
    DEF ResultCodes, At, SetStateAnyway, SetState, SavedConnected, SessionMatchesState,
        ConnectedStates, ConnectStates, ClosedStates
<1>0. clientState \in ClientStates
  BY DEF TypeOK
<1>1. CASE ReceiveMessage(t)
  <2> DEFINE callee == Frame("deliver", "mark", clientState)
             at == IF Top(t).op = "yield" THEN "read" ELSE "body"
  <2>1. /\ Top(t).op \in Requests \cup {"resubscribe", "yield"}
        /\ at \in {"read", "body"} /\ at \in Points
    BY <1>1 DEF ReceiveMessage, Reading
  <2>2. /\ callee \in Frames /\ callee.op = "deliver" /\ callee.saved = clientState
        /\ callee.at = "mark"
    BY <1>0 DEF Frame
  <2>3. clientState \in ConnectedStates
    BY <1>0, <1>1, <2>1 DEF ReceiveMessage, SessionAt, Requests
  <2>4. SavedConnected(callee) /\ SessionAt(callee, clientState, tls)
    BY <2>2, <2>3 DEF SessionAt
  <2>5. Call(t, at, callee) /\ clientState' = clientState /\ tls' = tls
    BY <1>1 DEF ReceiveMessage
  <2> HIDE DEF callee, at
  <2> QED BY <2>1, <2>2, <2>4, <2>5, SessionCalls DEF Requests
<1>2. CASE MarkCallback(t)
  BY <1>0, <1>2 DEF MarkCallback, SessionAt
<1>3. CASE CallbackReturns(t)
  BY <1>0, <1>3 DEF CallbackReturns, SessionAt
<1>4. CASE UnmarkCallback(t)
  BY <1>0, <1>4 DEF UnmarkCallback, SessionAt
<1> QED BY <1>1, <1>2, <1>3, <1>4 DEF MessageStep

LEMMA SessionStepSession ==
  ASSUME OneTask, SessionInv, IInv', NEW t \in Tasks, SessionStep(t)
  PROVE  SessionInv'
<1> USE SessionTop, SessionGoto, SessionGotoWith, SessionReturns, OnlyMismatchFails,
        TopTyped, FrameTyped, ControlPoints, StateNames
    DEF ResultCodes, At, SetStateAnyway, SetState, SavedConnected, SessionMatchesState,
        ConnectedStates, ConnectStates, ClosedStates
<1>0. clientState \in ClientStates
  BY DEF TypeOK
<1>1. CASE CallConnect(t)
  <2> DEFINE callee == Frame("connect", "claim", clientState)
  <2>1. /\ Top(t).at \in Points /\ Top(t).op \in {"task", "deliver"}
        /\ Top(t).op = "deliver" => Top(t).at = "callback"
    BY <1>1 DEF CallConnect, MayCall
  <2>2. /\ callee \in Frames /\ callee.op = "connect" /\ callee.saved = clientState
        /\ callee.at = "claim"
    BY <1>0 DEF Frame, Ops
  <2>3. SavedConnected(callee) /\ SessionAt(callee, clientState, tls)
    BY <1>1, <2>1, <2>2 DEF CallConnect, SessionAt, Requests
  <2>4. Call(t, Top(t).at, callee) /\ clientState' = clientState /\ tls' = tls
    BY <1>1 DEF CallConnect
  <2> HIDE DEF callee
  <2> QED BY <2>1, <2>2, <2>3, <2>4, SessionCalls DEF Requests
<1>2. CASE ClaimConnect(t)
  BY <1>0, <1>2 DEF ClaimConnect, SessionAt, Requests
<1>3. CASE ConnectNetwork(t)
  BY <1>0, <1>3 DEF ConnectNetwork, SessionAt, Requests
<1>4. CASE FinishConnect(t)
  BY <1>0, <1>4 DEF FinishConnect, SessionAt, Requests
<1>5. CASE CallDisconnect(t)
  <2> DEFINE callee == Frame("disconnect", "claim", clientState)
  <2>1. /\ Top(t).at \in Points /\ Top(t).op \in {"task", "deliver"}
        /\ Top(t).op = "deliver" => Top(t).at = "callback"
    BY <1>5 DEF CallDisconnect, MayCall
  <2>2. /\ callee \in Frames /\ callee.op = "disconnect" /\ callee.saved = clientState
        /\ callee.at = "claim"
    BY <1>0 DEF Frame, Ops
  <2>3. SavedConnected(callee) /\ SessionAt(callee, clientState, tls)
    BY <1>5, <2>1, <2>2 DEF CallDisconnect, SessionAt, Requests
  <2>4. Call(t, Top(t).at, callee) /\ clientState' = clientState /\ tls' = tls
    BY <1>5 DEF CallDisconnect
  <2> HIDE DEF callee
  <2> QED BY <2>1, <2>2, <2>3, <2>4, SessionCalls DEF Requests
<1>6. CASE ClaimDisconnect(t)
  BY <1>0, <1>6 DEF ClaimDisconnect, SessionAt, Requests
<1>7. CASE DisconnectNetwork(t)
  BY <1>0, <1>7 DEF DisconnectNetwork, SessionAt, Requests
<1>8. CASE FinishDisconnect(t)
  BY <1>0, <1>8 DEF FinishDisconnect, SessionAt, Requests
<1> QED BY <1>1, <1>2, <1>3, <1>4, <1>5, <1>6, <1>7, <1>8 DEF SessionStep

LEMMA ReconnectStepSession ==
  ASSUME OneTask, SessionInv, IInv', NEW t \in Tasks, ReconnectStep(t)
  PROVE  SessionInv'
<1> USE SessionTop, SessionGoto, SessionGotoWith, SessionReturns, OnlyMismatchFails,
        TopTyped, FrameTyped, ControlPoints, StateNames
    DEF ResultCodes, At, SetStateAnyway, SetState, SavedConnected, SessionMatchesState,
        ConnectedStates, ConnectStates, ClosedStates
<1>0. clientState \in ClientStates
  BY DEF TypeOK
<1>1. CASE CallReconnect(t)
  <2> DEFINE callee == Frame("reconnect", "start", clientState)
  <2>1. /\ Top(t).at \in Points /\ Top(t).op \in {"task", "deliver"}
        /\ Top(t).op = "deliver" => Top(t).at = "callback"
    BY <1>1 DEF CallReconnect, MayCall
  <2>2. /\ callee \in Frames /\ callee.op = "reconnect" /\ callee.saved = clientState
        /\ callee.at = "start"
    BY <1>0 DEF Frame, Ops
  <2>3. SavedConnected(callee) /\ SessionAt(callee, clientState, tls)
    BY <1>1, <2>1, <2>2 DEF CallReconnect, SessionAt, Requests
  <2>4. Call(t, Top(t).at, callee) /\ clientState' = clientState /\ tls' = tls
    BY <1>1 DEF CallReconnect
  <2> HIDE DEF callee
  <2> QED BY <2>1, <2>2, <2>3, <2>4, SessionCalls DEF Requests
<1>2. CASE StartReconnect(t)
  <2>0. Top(t).op = "reconnect"
    BY <1>2 DEF StartReconnect
  <2>1. CASE clientState \in ConnectStates /\ Call(t, "check", Frame("connect", "claim", clientState))
    <3> DEFINE callee == Frame("connect", "claim", clientState)
    <3>1. /\ callee \in Frames /\ callee.op = "connect" /\ callee.saved = clientState
          /\ callee.at = "claim"
      BY <1>0 DEF Frame, Ops
    <3>2. SavedConnected(callee) /\ SessionAt(callee, clientState, tls)
      BY <2>1, <3>1 DEF SessionAt, Requests
    <3>3. Call(t, "check", callee) /\ clientState' = clientState /\ tls' = tls
      BY <1>2, <2>1 DEF StartReconnect
    <3> HIDE DEF callee
    <3> QED BY <2>0, <3>1, <3>2, <3>3, SessionCalls
  <2>2. CASE ~(clientState \in ConnectStates
               /\ Call(t, "check", Frame("connect", "claim", clientState)))
    BY <1>0, <1>2, <2>0, <2>2 DEF StartReconnect, SessionAt
  <2> QED BY <2>1, <2>2
<1>3. CASE CheckReconnect(t)
  BY <1>0, <1>3 DEF CheckReconnect, SessionAt, Requests
<1>4. CASE GiveUpReconnect(t)
  BY <1>0, <1>4 DEF GiveUpReconnect, SessionAt, Requests
<1>5. CASE CallResubscribe(t)
  <2>1. /\ Top(t).at \in Points /\ Top(t).op \in {"task", "deliver"}
        /\ Top(t).op = "deliver" => Top(t).at = "callback"
    BY <1>5 DEF CallResubscribe, MayCall
  <2>2. /\ ResubscribeFrame \in Frames /\ ResubscribeFrame.op = "resubscribe"
    BY ResubscribeTyped DEF ResubscribeFrame, Frame
  <2>3. SavedConnected(ResubscribeFrame) /\ SessionAt(ResubscribeFrame, clientState, tls)
    BY <1>5, <2>2 DEF CallResubscribe, SessionAt, Requests
  <2>4. /\ Call(t, Top(t).at, ResubscribeFrame)
        /\ clientState' = clientState /\ tls' = tls
    BY <1>5 DEF CallResubscribe
  <2> QED BY <2>1, <2>2, <2>3, <2>4, SessionCalls
<1>6. CASE ReconnectResubscribe(t)
  <2>1. /\ Top(t).op = "reconnect" /\ depth[t] # 0
        /\ clientState' = clientState /\ tls' = tls
    BY <1>6 DEF ReconnectResubscribe
  <2>2. CASE clientState \in {"IDLE", "RESUBSCRIBE"}
    <3>1. Replaces(t, ResubscribeFrame) /\ ResubscribeFrame \in Frames
      BY <1>6, <2>2, ReplaceFrames, ResubscribeTyped DEF ReconnectResubscribe
    <3>2. frame'[t][depth[t]] = ResubscribeFrame /\ ResubscribeFrame.op = "resubscribe"
      BY <3>1 DEF ResubscribeFrame, Frame, Replaces
    <3>3. SavedConnected(ResubscribeFrame) /\ SessionAt(ResubscribeFrame, clientState', tls')
      BY <2>1, <2>2, <3>2 DEF SessionAt, Requests
    <3>4. frame[t][depth[t]].op # "deliver"
      BY <2>1 DEF Top
    <3> QED BY <2>1, <3>1, <3>2, <3>3, <3>4, SessionMove
  <2>3. CASE clientState \notin {"IDLE", "RESUBSCRIBE"}
    BY <1>0, <1>6, <2>1, <2>3 DEF ReconnectResubscribe, SessionAt
  <2> QED BY <2>2, <2>3
<1>7. CASE ClaimResubscribe(t)
  BY <1>0, <1>7 DEF ClaimResubscribe, SessionAt, Requests
<1>8. CASE FinishResubscribe(t)
  BY <1>0, <1>8 DEF FinishResubscribe, SessionAt, Requests
<1>9. CASE ReleaseResubscribe(t)
  BY <1>0, <1>9 DEF ReleaseResubscribe, SessionAt, Requests
<1> QED BY <1>1, <1>2, <1>3, <1>4, <1>5, <1>6, <1>7, <1>8, <1>9 DEF ReconnectStep

LEMMA YieldStepSession ==
  ASSUME AutoReconnect, OneTask, SessionInv, IInv', NEW t \in Tasks, YieldStep(t)
  PROVE  SessionInv'
<1> USE SessionTop, SessionGoto, SessionGotoWith, SessionReturns, OnlyMismatchFails,
        TopTyped, FrameTyped, ControlPoints, StateNames
    DEF ResultCodes, At, SetStateAnyway, SetState, SavedConnected, SessionMatchesState,
        ConnectedStates, ConnectStates, ClosedStates
<1>0. clientState \in ClientStates
  BY DEF TypeOK
<1>1. CASE CallYield(t)
  <2>1. PICK at \in {"claim", "loop"} : Call(t, Top(t).at, Frame("yield", at, clientState))
    BY <1>1 DEF CallYield
  <2> DEFINE callee == Frame("yield", at, clientState)
  <2>2. /\ Top(t).at \in Points /\ Top(t).op \in {"task", "deliver"}
        /\ Top(t).op = "deliver" => Top(t).at = "callback"
    BY <1>1 DEF CallYield, MayCall
  <2>3. callee \in Frames /\ callee.op = "yield" /\ callee.at \in {"claim", "loop"}
    BY <1>0 DEF Frame, Ops
  <2>4. SavedConnected(callee) /\ SessionAt(callee, clientState, tls)
    BY <1>1, <2>3 DEF CallYield, SessionAt, Requests
  <2>5. Call(t, Top(t).at, callee) /\ clientState' = clientState /\ tls' = tls
    BY <1>1, <2>1 DEF CallYield
  <2> HIDE DEF callee
  <2> QED BY <2>2, <2>4, <2>5, <2>3, SessionCalls
<1>2. CASE ClaimYield(t)
  BY <1>0, <1>2 DEF ClaimYield, SessionAt, Requests
<1>3. CASE YieldReconnect(t)
  <2> DEFINE callee == Frame("reconnect", "start", clientState)
  <2>1. Top(t).op = "yield" /\ clientState' = clientState /\ tls' = tls
    BY <1>3 DEF YieldReconnect
  <2>2. CASE Call(t, "reconnected", callee)
    <3>1. callee \in Frames /\ callee.op = "reconnect"
      BY <1>0 DEF Frame, Ops
    <3>2. SavedConnected(callee) /\ SessionAt(callee, clientState, tls)
      BY <1>3, <3>1 DEF YieldReconnect, SessionAt, Requests
    <3> HIDE DEF callee
    <3> QED BY <2>1, <2>2, <3>1, <3>2, SessionCalls
  <2>3. CASE ~Call(t, "reconnected", callee)
    BY <1>0, <1>3, <2>3 DEF YieldReconnect, SessionAt
  <2> QED BY <2>2, <2>3
<1>4. CASE YieldReconnected(t)
  BY <1>0, <1>4 DEF YieldReconnected, SessionAt, Requests
<1>5. CASE YieldReclaim(t)
  BY <1>0, <1>5 DEF YieldReclaim, SessionAt, Requests
<1>6. CASE YieldRead(t)
  BY <1>0, <1>6 DEF YieldRead, SessionAt, Requests
<1>7. CASE YieldDelivered(t)
  BY <1>0, <1>7 DEF YieldDelivered, SessionAt, Requests
<1>8. CASE YieldLinkLost(t)
  <2>1. Top(t).op = "yield" /\ clientState' = clientState /\ tls' = tls
    BY <1>8 DEF YieldLinkLost
  <2>2. CASE clientState \in ConnectedStates
    <3> DEFINE callee == Frame("disconnect", "claim", clientState)
    <3>1. /\ callee \in Frames /\ callee.op = "disconnect" /\ callee.saved = clientState
          /\ callee.at = "claim"
      BY <1>0 DEF Ops, Frame
    <3>2. SavedConnected(callee) /\ SessionAt(callee, clientState, tls)
      BY <2>2, <3>1 DEF SessionAt, Requests
    <3>3. Call(t, "dropped", callee)
      BY <1>8, <2>2 DEF YieldLinkLost
    <3> HIDE DEF callee
    <3> QED BY <2>1, <3>1, <3>2, <3>3, SessionCalls
  <2>3. CASE clientState \notin ConnectedStates
    <3>1. GotoWith(t, "dropped", "error")
      BY <1>8, <2>3 DEF YieldLinkLost
    <3>2. clientState \in ClosedStates
      BY <1>0, <1>8, <2>1, <2>3 DEF YieldLinkLost, SessionAt
    <3> QED BY <2>1, <3>1, <3>2 DEF SessionAt
  <2> QED BY <2>2, <2>3
<1>9. CASE YieldDropped(t)
  BY <1>0, <1>9 DEF YieldDropped, SessionAt, Requests
<1>10. CASE DisconnectHandler(t)
  BY <1>0, <1>10 DEF DisconnectHandler, SessionAt, Requests
<1>11. CASE YieldMarkLost(t)
  BY <1>0, <1>11 DEF YieldMarkLost, SessionAt, Requests
<1>12. CASE YieldPend(t)
  BY <1>0, <1>12 DEF YieldPend, SessionAt, Requests
<1>13. CASE YieldAgain(t)
  BY <1>0, <1>13 DEF YieldAgain, SessionAt, Requests
<1>14. CASE YieldExit(t)
  BY <1>0, <1>14 DEF YieldExit, SessionAt, Requests
<1>15. CASE ReleaseYield(t)
  BY <1>0, <1>15 DEF ReleaseYield, SessionAt, Requests
<1> QED BY <1>1, <1>2, <1>3, <1>4, <1>5, <1>6, <1>7, <1>8, <1>9, <1>10, <1>11, <1>12, <1>13, <1>14, <1>15 DEF YieldStep

LEMMA SessionStart == Init => SessionInv
<1> SUFFICES ASSUME Init PROVE SessionInv
  OBVIOUS
<1>1. SessionMatchesState
  BY CallsAssumption DEF Init, SessionMatchesState, ConnectedStates, ConnectStates
<1>2. \A t \in Tasks : SessionAt(Top(t), clientState, tls)
  BY CallsAssumption, DepthBound DEF Init, SessionAt, Top, Idle, Frame
<1>3. \A t \in Tasks : depth[t] = 0
  BY DEF Init
<1> QED BY <1>1, <1>2, <1>3, OwnedInit DEF SessionInv

LEMMA SessionStepped ==
  ASSUME OneTask, AutoReconnect PROVE SessionInv /\ [Next]_vars => SessionInv'
<1> SUFFICES ASSUME SessionInv, [Next]_vars PROVE SessionInv'
  OBVIOUS
<1>1. IInv'
  BY OwnedStep DEF SessionInv, OneTask, OneTaskOrQuiet
<1>2. ASSUME UNCHANGED <<clientState, tls, frame, depth>> PROVE SessionInv'
  BY <1>1, <1>2 DEF SessionInv, SessionMatchesState, Top
<1>3. ASSUME NEW t \in Tasks, TaskStep(t) PROVE SessionInv'
  BY <1>1, <1>2, <1>3, RequestStepSession, MessageStepSession, SessionStepSession,
     ReconnectStepSession, YieldStepSession DEF TaskStep, Lock
<1> QED BY <1>2, <1>3 DEF Next, vars

\* SessionMatchesState is an invariant of one task with auto-reconnect,
\* whatever its message handlers call, links that drop and connects that fail.
\* With auto-reconnect off it is not: a disconnect handler that reconnects is
\* followed by an unconditional DISCONNECTED_ERROR over the new session.
THEOREM SessionKept ==
  ASSUME OneTask, AutoReconnect PROVE Spec => []SessionMatchesState
<1>1. SessionInv => SessionMatchesState
  BY DEF SessionInv
<1> QED BY <1>1, SessionStart, SessionStepped, PTL DEF Spec
-----------------------------------------------------------------------------
(* The refinement of ClientSession, action by action, under the invariant   *)
(* of the session.                                                          *)

LEMMA Phases ==
  /\ \A s \in ConnectedStates : PhaseOf(s) = "connected"
  /\ \A s \in ClosedStates : PhaseOf(s) = "closed"
  /\ PhaseOf("CONNECTING") = "connecting"
  /\ PhaseOf("DISCONNECTING") = "closing"
  /\ PhaseOf("PENDING_RECONNECT") = "retrying"
  BY DEF PhaseOf, ConnectedStates, ConnectStates, ClosedStates

SessionMoves == [Session!Next]_(Session!sessionVars)

\* Most steps leave the session alone and the client connected, or closed.
LEMMA SessionStays ==
  ASSUME tls' = tls,
         \/ clientState' = clientState
         \/ clientState \in ConnectedStates /\ clientState' \in ConnectedStates
         \/ clientState \in ClosedStates /\ clientState' \in ClosedStates
  PROVE  SessionMoves
  BY Phases DEF SessionMoves, Session!sessionVars

LEMMA RequestStepMoves ==
  ASSUME OneTask, SessionInv, NEW t \in Tasks, RequestStep(t)
  PROVE  SessionMoves
<1> USE SessionTop, SessionStays, OnlyMismatchFails
    DEF At, SetStateAnyway, SetState, SavedConnected, ConnectedStates
<1>1. ASSUME NEW op \in Requests, CallRequest(t, op) PROVE SessionMoves
  BY <1>1 DEF CallRequest
<1>2. ASSUME NEW op \in Requests, ClaimRequest(t, op) PROVE SessionMoves
  BY <1>2 DEF ClaimRequest, InProgress, Requests
<1>3. ASSUME NEW op \in Requests, FinishRequest(t, op) PROVE SessionMoves
  BY <1>3 DEF FinishRequest
<1>4. ASSUME NEW op \in Requests, ReleaseRequest(t, op) PROVE SessionMoves
  BY <1>4 DEF ReleaseRequest, InProgress, Requests
<1>5. CASE UndoUnsubscribe(t)
  BY <1>5 DEF UndoUnsubscribe, Requests
<1> QED BY <1>1, <1>2, <1>3, <1>4, <1>5 DEF RequestStep

LEMMA MessageStepMoves ==
  ASSUME OneTask, SessionInv, NEW t \in Tasks, MessageStep(t)
  PROVE  SessionMoves
<1> USE SessionTop, SessionStays, OnlyMismatchFails
    DEF At, SetStateAnyway, SetState, SavedConnected, ConnectedStates
<1>1. CASE ReceiveMessage(t)
  BY <1>1 DEF ReceiveMessage
<1>2. CASE MarkCallback(t)
  BY <1>2 DEF MarkCallback
<1>3. CASE CallbackReturns(t)
  BY <1>3 DEF CallbackReturns
<1>4. CASE UnmarkCallback(t)
  BY <1>4 DEF UnmarkCallback
<1> QED BY <1>1, <1>2, <1>3, <1>4 DEF MessageStep

LEMMA SessionStepMoves ==
  ASSUME OneTask, SessionInv, NEW t \in Tasks, SessionStep(t)
  PROVE  SessionMoves
<1> USE SessionTop, SessionStays, OnlyMismatchFails, StateNames, Phases
    DEF At, SetStateAnyway, SetState, SessionAt, SessionMatchesState, Session!Next
<1>1. CASE CallConnect(t)
  BY <1>1 DEF CallConnect
<1>2. CASE ClaimConnect(t)
  <2>1. /\ clientState \in ConnectStates /\ clientState = Top(t).saved /\ tls = "down"
    BY <1>2 DEF ClaimConnect
  <2>2. clientState' = "CONNECTING" /\ tls' = tls
    BY <1>2, <2>1 DEF ClaimConnect
  <2>3. PhaseOf(clientState) \in {"closed", "retrying"}
    BY <2>1 DEF ClosedStates
  <2> QED BY <2>1, <2>2, <2>3 DEF SessionMoves, Session!Connect
<1>3. CASE ConnectNetwork(t)
  <2>1. clientState = "CONNECTING" /\ clientState' = clientState /\ tls = "down"
    BY <1>3 DEF ConnectNetwork
  <2>2. CASE tls' = "up"
    BY <2>1, <2>2 DEF SessionMoves, Session!Open
  <2>3. CASE tls' = "down"
    BY <2>1, <2>3
  <2> QED BY <1>3, <2>2, <2>3 DEF ConnectNetwork
<1>4. CASE FinishConnect(t)
  <2>1. clientState = "CONNECTING" /\ tls' = tls
    BY <1>4 DEF FinishConnect
  <2>2. CASE At(t, "connect", "established")
    <3>1. tls = "up" /\ clientState' = "IDLE"
      BY <1>4, <2>1, <2>2 DEF FinishConnect
    <3>2. PhaseOf(clientState') = "connected"
      BY <3>1 DEF ConnectedStates
    <3> QED BY <2>1, <3>1, <3>2 DEF SessionMoves, Session!Connected
  <2>3. CASE At(t, "connect", "failed")
    <3>1. tls = "down" /\ clientState' = "DISCONNECTED_ERROR"
      BY <1>4, <2>1, <2>3 DEF FinishConnect
    <3>2. PhaseOf(clientState') = "closed"
      BY <3>1 DEF ConnectStates, ClosedStates
    <3> QED BY <2>1, <3>1, <3>2 DEF SessionMoves, Session!ConnectFails
  <2> QED BY <1>4, <2>2, <2>3 DEF FinishConnect
<1>5. CASE CallDisconnect(t)
  BY <1>5 DEF CallDisconnect
<1>6. CASE ClaimDisconnect(t)
  <2>1. clientState \in ConnectedStates /\ clientState = Top(t).saved /\ tls = "up"
    BY <1>6 DEF ClaimDisconnect
  <2>2. clientState' = "DISCONNECTING" /\ tls' = tls
    BY <1>6, <2>1 DEF ClaimDisconnect
  <2> QED BY <2>1, <2>2 DEF SessionMoves, Session!Disconnect
<1>7. CASE DisconnectNetwork(t)
  <2>1. clientState = "DISCONNECTING" /\ clientState' = clientState /\ tls = "up" /\ tls' = "down"
    BY <1>7 DEF DisconnectNetwork
  <2> QED BY <2>1 DEF SessionMoves, Session!Close
<1>8. CASE FinishDisconnect(t)
  <2>1. /\ clientState = "DISCONNECTING" /\ clientState' = "DISCONNECTED_MANUALLY"
        /\ tls = "down" /\ tls' = tls
    BY <1>8 DEF FinishDisconnect
  <2>2. PhaseOf(clientState') = "closed"
    BY <2>1 DEF ConnectStates, ClosedStates
  <2> QED BY <2>1, <2>2 DEF SessionMoves, Session!Disconnected
<1> QED BY <1>1, <1>2, <1>3, <1>4, <1>5, <1>6, <1>7, <1>8 DEF SessionStep

\* Only a client that is disconnected by an error goes on to reconnect.
LEMMA RetryMoves ==
  ASSUME SessionMatchesState, clientState = "DISCONNECTED_ERROR",
         clientState' = "PENDING_RECONNECT", tls' = tls
  PROVE  SessionMoves
<1>1. tls = "down" /\ PhaseOf(clientState) = "closed"
  BY Phases DEF SessionMatchesState, ConnectStates, ClosedStates
<1> QED BY <1>1, Phases DEF SessionMoves, Session!Next, Session!Retry

LEMMA ReconnectStepMoves ==
  ASSUME OneTask, SessionInv, NEW t \in Tasks, ReconnectStep(t)
  PROVE  SessionMoves
<1> USE SessionTop, SessionStays, OnlyMismatchFails
    DEF At, SetStateAnyway, SetState, ConnectedStates
<1>1. CASE CallReconnect(t)
  BY <1>1 DEF CallReconnect
<1>2. CASE StartReconnect(t)
  BY <1>2 DEF StartReconnect
<1>3. CASE CheckReconnect(t)
  BY <1>3 DEF CheckReconnect
<1>4. CASE GiveUpReconnect(t)
  BY <1>4, RetryMoves DEF GiveUpReconnect
<1>5. CASE CallResubscribe(t)
  BY <1>5 DEF CallResubscribe
<1>6. CASE ReconnectResubscribe(t)
  BY <1>6 DEF ReconnectResubscribe
<1>7. CASE ClaimResubscribe(t)
  BY <1>7 DEF ClaimResubscribe
<1>8. CASE FinishResubscribe(t)
  BY <1>8 DEF FinishResubscribe
<1>9. CASE ReleaseResubscribe(t)
  BY <1>9 DEF ReleaseResubscribe
<1> QED BY <1>1, <1>2, <1>3, <1>4, <1>5, <1>6, <1>7, <1>8, <1>9 DEF ReconnectStep

LEMMA YieldStepMoves ==
  ASSUME AutoReconnect, OneTask, SessionInv, NEW t \in Tasks, YieldStep(t)
  PROVE  SessionMoves
<1> USE SessionTop, SessionStays, OnlyMismatchFails
    DEF At, SetStateAnyway, SetState, ConnectedStates
<1>1. CASE CallYield(t)
  BY <1>1 DEF CallYield
<1>2. CASE ClaimYield(t)
  BY <1>2 DEF ClaimYield
<1>3. CASE YieldReconnect(t)
  BY <1>3 DEF YieldReconnect
<1>4. CASE YieldReconnected(t)
  BY <1>4 DEF YieldReconnected
<1>5. CASE YieldReclaim(t)
  BY <1>5 DEF YieldReclaim
<1>6. CASE YieldRead(t)
  BY <1>6 DEF YieldRead
<1>7. CASE YieldDelivered(t)
  BY <1>7 DEF YieldDelivered
<1>8. CASE YieldLinkLost(t)
  BY <1>8 DEF YieldLinkLost
<1>9. CASE YieldDropped(t)
  BY <1>9 DEF YieldDropped, SessionAt, SessionMatchesState, ClosedStates, ConnectStates
<1>10. CASE DisconnectHandler(t)
  BY <1>10 DEF DisconnectHandler
<1>11. CASE YieldMarkLost(t)
  BY <1>11 DEF YieldMarkLost, SessionAt, ClosedStates, ConnectStates
<1>12. CASE YieldPend(t)
  BY <1>12, RetryMoves DEF YieldPend
<1>13. CASE YieldAgain(t)
  BY <1>13 DEF YieldAgain
<1>14. CASE YieldExit(t)
  BY <1>14 DEF YieldExit
<1>15. CASE ReleaseYield(t)
  BY <1>15 DEF ReleaseYield
<1> QED BY <1>1, <1>2, <1>3, <1>4, <1>5, <1>6, <1>7, <1>8, <1>9, <1>10, <1>11, <1>12,
           <1>13, <1>14, <1>15 DEF YieldStep

\* The calls of one task with auto-reconnect implement ClientSession, whatever
\* its message handlers call, links that drop and connects that fail.
THEOREM SessionRefined ==
  ASSUME OneTask, AutoReconnect PROVE Spec => SessionImplemented
<1>1. Init => Session!Init
  <2> SUFFICES ASSUME Init PROVE Session!Init
    OBVIOUS
  <2>1. clientState \in {"INITIALIZED", "IDLE"} /\ tls = IF clientState = "IDLE" THEN "up" ELSE "down"
    BY CallsAssumption DEF Init
  <2>2. PhaseOf("INITIALIZED") = "closed" /\ PhaseOf("IDLE") = "connected"
    BY Phases DEF ClosedStates, ConnectStates, ConnectedStates
  <2> QED BY <2>1, <2>2 DEF Session!Init
<1>2. SessionInv /\ [Next]_vars => [Session!Next]_(Session!sessionVars)
  <2> SUFFICES ASSUME SessionInv, [Next]_vars PROVE SessionMoves
    BY DEF SessionMoves
  <2>1. ASSUME UNCHANGED <<clientState, tls>> PROVE SessionMoves
    BY <2>1, SessionStays
  <2>2. ASSUME NEW t \in Tasks, TaskStep(t) PROVE SessionMoves
    BY <2>1, <2>2, RequestStepMoves, MessageStepMoves, SessionStepMoves,
       ReconnectStepMoves, YieldStepMoves DEF TaskStep, Lock
  <2> QED BY <2>1, <2>2 DEF Next, vars
<1> QED BY <1>1, <1>2, SessionStart, SessionStepped, PTL DEF Spec, SessionImplemented, Session!Spec
-----------------------------------------------------------------------------
(* No yield during a handler.  Everything called from a handler of one task *)
(* is a request or a delivery, each of which puts back the state it was     *)
(* called in, so the handler runs in WAIT_FOR_CB_RETURN to its end and      *)
(* every yield it tries is refused.                                         *)

HandlerCalls == Requests \cup {"deliver"}

\* The innermost call f, where the client is in state s.
CallbackAt(f, s) ==
    /\ f.op = "deliver" =>
         /\ f.at = "mark" => s = f.saved
         /\ f.at \in {"callback", "unmark"} => s = "WAIT_FOR_CB"
    /\ f.op \in Requests =>
         /\ f.at = "claim" => s = f.saved
         /\ f.at \in {"body", "release"} => s = InProgress[f.op]
         /\ f.at # "undo"

\* g is called by f.
CallbackLink(f, g) ==
    /\ f.op = "deliver" =>
         f.at = "callback" /\ g.op \in Requests /\ g.saved = "WAIT_FOR_CB"
    /\ f.op \in Requests =>
         f.at = "body" /\ g.op = "deliver" /\ g.saved = InProgress[f.op]

CallbackInv ==
    /\ IInv
    /\ \A t \in Tasks : CallbackAt(Top(t), clientState)
    /\ \A t \in Tasks : \A i \in 1..(depth[t] - 1) : CallbackLink(frame[t][i], frame[t][i + 1])
    /\ \A t \in Tasks : \A i, j \in 1..depth[t] :
         i < j /\ frame[t][i].op = "deliver" => frame[t][j].op \in HandlerCalls

\* The parts of CallbackInv for the only task.
LEMMA CallbackIntro ==
  ASSUME OneTask, NEW t \in Tasks, IInv', CallbackAt(frame'[t][depth'[t]], clientState'),
         \A i \in 1..(depth'[t] - 1) : CallbackLink(frame'[t][i], frame'[t][i + 1]),
         \A i, j \in 1..depth'[t] :
            i < j /\ frame'[t][i].op = "deliver" => frame'[t][j].op \in HandlerCalls
  PROVE  CallbackInv'
<1>1. \A u \in Tasks : u = t
  BY DEF OneTask
<1>2. (\A u \in Tasks : CallbackAt(Top(u), clientState))'
  BY <1>1 DEF Top
<1>3. (\A u \in Tasks : \A i \in 1..(depth[u] - 1) : CallbackLink(frame[u][i], frame[u][i + 1]))'
  BY <1>1
<1>4. (\A u \in Tasks : \A i, j \in 1..depth[u] :
          i < j /\ frame[u][i].op = "deliver" => frame[u][j].op \in HandlerCalls)'
  BY <1>1
<1> QED BY <1>2, <1>3, <1>4 DEF CallbackInv

LEMMA CallbackMove ==
  ASSUME OneTask, CallbackInv, IInv', NEW t \in Tasks, TopMoves(t), depth[t] # 0,
         CallbackAt(frame'[t][depth[t]], clientState')
  PROVE  CallbackInv'
<1>1. /\ depth' = depth /\ depth[t] \in 1..MaxDepth
      /\ \A i \in 1..depth[t] : /\ frame'[t][i].op = frame[t][i].op
                                /\ frame'[t][i].saved = frame[t][i].saved
      /\ \A i \in 1..(depth[t] - 1) : frame'[t][i] = frame[t][i]
  <2>1. depth[t] \in 1..MaxDepth
    BY DEF CallbackInv, IInv, TInv, TypeOK
  <2>2. \A i \in 1..depth[t] : i \in 0..MaxDepth
    BY <2>1, DepthBound
  <2>3. \A i \in 1..(depth[t] - 1) : i \in 0..MaxDepth /\ i # depth[t]
    BY <2>1, DepthBound
  <2> QED BY <2>1, <2>2, <2>3 DEF TopMoves
<1>2. ASSUME NEW i \in 1..(depth'[t] - 1)
      PROVE  CallbackLink(frame'[t][i], frame'[t][i + 1])
  <2>1. i \in 1..(depth[t] - 1) /\ i + 1 \in 1..depth[t]
    BY <1>1
  <2>2. CallbackLink(frame[t][i], frame[t][i + 1])
    BY <2>1 DEF CallbackInv
  <2>3. /\ frame'[t][i] = frame[t][i]
        /\ frame'[t][i + 1].op = frame[t][i + 1].op
        /\ frame'[t][i + 1].saved = frame[t][i + 1].saved
    BY <1>1, <2>1
  <2> QED BY <2>2, <2>3 DEF CallbackLink
<1>3. \A i, j \in 1..depth'[t] :
         i < j /\ frame'[t][i].op = "deliver" => frame'[t][j].op \in HandlerCalls
  BY <1>1 DEF CallbackInv
<1>4. CallbackAt(frame'[t][depth'[t]], clientState')
  BY <1>1
<1> QED BY <1>2, <1>3, <1>4, CallbackIntro

\* Only reconnect ends with a call of another function, and it has no handler
\* below it.
LEMMA CallbackReplace ==
  ASSUME OneTask, CallbackInv, IInv', NEW t \in Tasks, NEW new \in Frames, Replaces(t, new),
         depth[t] # 0, Top(t).op \notin HandlerCalls, new.op \notin HandlerCalls
  PROVE  CallbackInv'
<1>1. /\ depth' = depth /\ depth[t] \in 1..MaxDepth /\ frame'[t][depth[t]] = new
      /\ \A i \in 1..(depth[t] - 1) : frame'[t][i] = frame[t][i]
      /\ frame[t][depth[t]].op \notin HandlerCalls
  BY DepthBound DEF CallbackInv, IInv, TInv, TypeOK, Replaces, Top
<1>2. \A i \in 1..(depth[t] - 1) : frame[t][i].op # "deliver"
  BY <1>1 DEF CallbackInv
<1>3. ASSUME NEW i \in 1..(depth'[t] - 1)
      PROVE  CallbackLink(frame'[t][i], frame'[t][i + 1])
  <2>1. i \in 1..(depth[t] - 1) /\ (i + 1 # depth[t] => i + 1 \in 1..(depth[t] - 1))
    BY <1>1
  <2>2. CallbackLink(frame[t][i], frame[t][i + 1]) /\ frame'[t][i] = frame[t][i]
    BY <1>1, <2>1 DEF CallbackInv
  <2>3. CASE i + 1 = depth[t]
    BY <1>1, <1>2, <2>1, <2>2, <2>3 DEF CallbackLink, HandlerCalls
  <2>4. CASE i + 1 # depth[t]
    BY <1>1, <2>1, <2>2, <2>4
  <2> QED BY <2>3, <2>4
<1>4. \A i, j \in 1..depth'[t] :
         i < j /\ frame'[t][i].op = "deliver" => frame'[t][j].op \in HandlerCalls
  <2> SUFFICES ASSUME NEW i \in 1..depth'[t], NEW j \in 1..depth'[t], i < j
               PROVE  frame'[t][i].op # "deliver"
    OBVIOUS
  <2>1. i \in 1..(depth[t] - 1)
    BY <1>1
  <2> QED BY <1>1, <1>2, <2>1
<1>5. CallbackAt(frame'[t][depth'[t]], clientState')
  BY <1>1 DEF CallbackAt, HandlerCalls
<1> QED BY <1>3, <1>4, <1>5, CallbackIntro

LEMMA CallbackCall ==
  ASSUME OneTask, CallbackInv, IInv', NEW t \in Tasks, NEW callee \in Frames,
         Calls(t, callee), clientState' = clientState,
         Top(t).op \in HandlerCalls => callee.op \in HandlerCalls,
         depth[t] # 0 => CallbackLink(frame'[t][depth[t]], callee),
         CallbackAt(callee, clientState)
  PROVE  CallbackInv'
<1>1. /\ depth'[t] = depth[t] + 1 /\ depth[t] \in 0..MaxDepth
      /\ frame'[t][depth[t] + 1] = callee
      /\ \A i \in 1..depth[t] : frame'[t][i].op = frame[t][i].op
                                /\ frame'[t][i].saved = frame[t][i].saved
      /\ \A i \in 1..(depth[t] - 1) : frame'[t][i] = frame[t][i]
  <2>1. depth[t] \in 0..MaxDepth /\ depth'[t] = depth[t] + 1
    BY DEF CallbackInv, IInv, TInv, TypeOK, Calls
  <2>2. \A i \in 1..depth[t] : i \in 0..MaxDepth /\ i # depth[t] + 1
    BY <2>1, DepthBound
  <2>3. \A i \in 1..(depth[t] - 1) : i \in 0..MaxDepth /\ i \notin {depth[t], depth[t] + 1}
    BY <2>1, DepthBound
  <2> QED BY <2>1, <2>2, <2>3 DEF Calls
<1>2. ASSUME NEW i \in 1..(depth'[t] - 1)
      PROVE  CallbackLink(frame'[t][i], frame'[t][i + 1])
  <2>1. i \in 1..depth[t]
    BY <1>1
  <2>2. CASE i = depth[t]
    BY <1>1, <2>1, <2>2
  <2>3. CASE i # depth[t]
    <3>1. i \in 1..(depth[t] - 1) /\ i + 1 \in 1..depth[t]
      BY <1>1, <2>1, <2>3
    <3>2. CallbackLink(frame[t][i], frame[t][i + 1])
      BY <3>1 DEF CallbackInv
    <3>3. /\ frame'[t][i] = frame[t][i]
          /\ frame'[t][i + 1].op = frame[t][i + 1].op
          /\ frame'[t][i + 1].saved = frame[t][i + 1].saved
      BY <1>1, <3>1
    <3> QED BY <3>2, <3>3 DEF CallbackLink
  <2> QED BY <2>2, <2>3
<1>3. ASSUME NEW i \in 1..depth'[t], NEW j \in 1..depth'[t], i < j,
             frame'[t][i].op = "deliver"
      PROVE  frame'[t][j].op \in HandlerCalls
  <2>1. i \in 1..depth[t] /\ frame[t][i].op = "deliver"
    BY <1>1, <1>3
  <2>2. CASE j = depth[t] + 1
    <3>1. CASE i = depth[t]
      BY <1>1, <2>1, <2>2, <3>1 DEF HandlerCalls, Top
    <3>2. CASE i # depth[t]
      <4>1. depth[t] \in 1..depth[t] /\ i < depth[t]
        BY <1>1, <2>1, <3>2
      <4>2. frame[t][depth[t]].op \in HandlerCalls
        BY <2>1, <4>1 DEF CallbackInv
      <4> QED BY <1>1, <2>2, <4>2 DEF Top
    <3> QED BY <3>1, <3>2
  <2>3. CASE j # depth[t] + 1
    <3>1. j \in 1..depth[t]
      BY <1>1, <2>3
    <3>2. frame[t][j].op \in HandlerCalls
      BY <1>3, <2>1, <3>1 DEF CallbackInv
    <3> QED BY <1>1, <3>1, <3>2
  <2> QED BY <2>2, <2>3
<1>4. CallbackAt(frame'[t][depth'[t]], clientState')
  BY <1>1
<1> QED BY <1>2, <1>3, <1>4, CallbackIntro

\* What a handler calls, and a delivery inside a request, put the state back.
LEMMA CallbackReturn ==
  ASSUME OneTask, CallbackInv, IInv', NEW t \in Tasks, Returns(t), depth[t] # 0,
         Top(t).op \in HandlerCalls => clientState' = Top(t).saved
  PROVE  CallbackInv'
<1>1. /\ depth'[t] = depth[t] - 1 /\ depth[t] \in 1..MaxDepth
      /\ \A i \in 0..(depth[t] - 1) : /\ frame'[t][i].op = frame[t][i].op
                                      /\ frame'[t][i].at = frame[t][i].at
                                      /\ frame'[t][i].saved = frame[t][i].saved
      /\ \A i \in 1..(depth[t] - 2) : frame'[t][i] = frame[t][i]
  <2>1. depth[t] \in 1..MaxDepth /\ depth'[t] = depth[t] - 1
    BY DEF CallbackInv, IInv, TInv, TypeOK, Returns
  <2>2. \A i \in 0..(depth[t] - 1) : i \in 0..MaxDepth /\ i # depth[t]
    BY <2>1, DepthBound
  <2>3. \A i \in 1..(depth[t] - 2) : i \in 0..MaxDepth /\ i \notin {depth[t], depth[t] - 1}
    BY <2>1, DepthBound
  <2> QED BY <2>1, <2>2, <2>3 DEF Returns
<1>2. CallbackAt(frame'[t][depth'[t]], clientState')
  <2>1. CASE depth[t] = 1
    <3>1. frame'[t][depth'[t]].op = "task"
      BY <1>1, <2>1 DEF CallbackInv, IInv, TInv, BaseFrame
    <3> QED BY <3>1 DEF CallbackAt, Requests
  <2>2. CASE depth[t] # 1
    <3>1. depth[t] - 1 \in 1..(depth[t] - 1) /\ (depth[t] - 1) + 1 = depth[t]
      BY <1>1, <2>2
    <3>2. CallbackLink(frame[t][depth[t] - 1], frame[t][depth[t]])
      BY <3>1 DEF CallbackInv
    <3>3. /\ frame'[t][depth'[t]].op = frame[t][depth[t] - 1].op
          /\ frame'[t][depth'[t]].at = frame[t][depth[t] - 1].at
      BY <1>1, <3>1
    <3>4. frame[t][depth[t]].op \in HandlerCalls => clientState' = frame[t][depth[t]].saved
      BY DEF Top
    <3> QED BY <3>2, <3>3, <3>4 DEF CallbackAt, CallbackLink, HandlerCalls, Requests
  <2> QED BY <2>1, <2>2
<1>3. ASSUME NEW i \in 1..(depth'[t] - 1)
      PROVE  CallbackLink(frame'[t][i], frame'[t][i + 1])
  <2>1. /\ i \in 1..(depth[t] - 1) /\ i \in 1..(depth[t] - 2)
        /\ i + 1 \in 0..(depth[t] - 1)
    BY <1>1
  <2>2. CallbackLink(frame[t][i], frame[t][i + 1])
    BY <2>1 DEF CallbackInv
  <2>3. /\ frame'[t][i] = frame[t][i]
        /\ frame'[t][i + 1].op = frame[t][i + 1].op
        /\ frame'[t][i + 1].saved = frame[t][i + 1].saved
    BY <1>1, <2>1
  <2> QED BY <2>2, <2>3 DEF CallbackLink
<1>4. \A i, j \in 1..depth'[t] :
         i < j /\ frame'[t][i].op = "deliver" => frame'[t][j].op \in HandlerCalls
  BY <1>1 DEF CallbackInv
<1> QED BY <1>2, <1>3, <1>4, CallbackIntro

LEMMA CallbackTop ==
  ASSUME OneTask, CallbackInv, NEW t \in Tasks
  PROVE  /\ OneTaskOrQuiet /\ IInv /\ TInv /\ TypeOK
         /\ clientState \in ClientStates
         /\ CallbackAt(Top(t), clientState)
         /\ Top(t).op # "task" => depth[t] # 0
  BY TopTyped DEF CallbackInv, IInv, TInv, TypeOK, OneTask, OneTaskOrQuiet

\* The forms in which the actions use the lemmas above.
LEMMA CallbackGoto ==
  ASSUME OneTask, CallbackInv, IInv', NEW t \in Tasks, NEW at \in Points,
         Goto(t, at) \/ \E rc \in ResultCodes : GotoWith(t, at, rc), Top(t).op # "task",
         \A f \in Frames : /\ f.op = Top(t).op /\ f.saved = Top(t).saved /\ f.at = at
                           => CallbackAt(f, clientState')
  PROVE  CallbackInv'
<1>1. TopMoves(t) /\ frame'[t][depth[t]].at = at /\ depth[t] # 0 /\ depth[t] \in 0..MaxDepth
  BY GotoFrames, GotoWithFrames, CallbackTop DEF TypeOK
<1>2. /\ frame'[t][depth[t]] \in Frames
      /\ frame'[t][depth[t]].op = Top(t).op
      /\ frame'[t][depth[t]].saved = Top(t).saved
  BY <1>1, DepthBound DEF TopMoves, Top
<1>3. CallbackAt(frame'[t][depth[t]], clientState')
  BY <1>1, <1>2
<1> QED BY <1>1, <1>3, CallbackMove

LEMMA CallbackCalls ==
  ASSUME OneTask, CallbackInv, IInv', NEW t \in Tasks, NEW at \in Points,
         NEW callee \in Frames, Call(t, at, callee), clientState' = clientState,
         Top(t).op \in HandlerCalls => callee.op \in HandlerCalls,
         \A f \in Frames : f.op = Top(t).op /\ f.at = at => CallbackLink(f, callee),
         CallbackAt(callee, clientState)
  PROVE  CallbackInv'
<1>1. Calls(t, callee) /\ frame'[t][depth[t]].at = at /\ depth[t] \in 0..MaxDepth
  BY CallFrames, CallbackTop DEF TypeOK
<1>2. frame'[t][depth[t]] \in Frames /\ frame'[t][depth[t]].op = Top(t).op
  BY <1>1, DepthBound DEF Calls, Top
<1>3. CallbackLink(frame'[t][depth[t]], callee)
  BY <1>1, <1>2
<1> QED BY <1>1, <1>3, CallbackCall

LEMMA CallbackReturned ==
  ASSUME OneTask, CallbackInv, IInv', NEW t \in Tasks, NEW rc \in ResultCodes,
         Return(t, rc), Top(t).op # "task",
         Top(t).op \in HandlerCalls => clientState' = Top(t).saved
  PROVE  CallbackInv'
<1>1. Returns(t) /\ depth[t] # 0
  BY ReturnFrames, CallbackTop
<1> QED BY <1>1, CallbackReturn

\* What the handlers of the application call.
HandlersRequest == CallbackOps \subseteq Requests \cup {"yield"}

\* A call that is not a request comes from the task's own code.
LEMMA CallbackOthers ==
  ASSUME OneTask, CallbackInv, IInv', NEW t \in Tasks, NEW callee \in Frames,
         Call(t, Top(t).at, callee), clientState' = clientState,
         Top(t).op = "task", callee.op \notin HandlerCalls
  PROVE  CallbackInv'
<1>1. Top(t).at \in Points
  BY TopTyped, CallbackTop
<1>2. \A f \in Frames : f.op = Top(t).op /\ f.at = Top(t).at => CallbackLink(f, callee)
  BY DEF CallbackLink, Requests
<1>3. CallbackAt(callee, clientState) /\ Top(t).op \notin HandlerCalls
  BY DEF CallbackAt, HandlerCalls, Requests
<1> QED BY <1>1, <1>2, <1>3, CallbackCalls

\* Nor does it come from a call that is neither a request nor a delivery.
LEMMA CallbackInner ==
  ASSUME OneTask, CallbackInv, IInv', NEW t \in Tasks, NEW at \in Points,
         NEW callee \in Frames, Call(t, at, callee), clientState' = clientState,
         Top(t).op \notin HandlerCalls, callee.op \notin HandlerCalls
  PROVE  CallbackInv'
<1>1. \A f \in Frames : f.op = Top(t).op /\ f.at = at => CallbackLink(f, callee)
  BY DEF CallbackLink, HandlerCalls
<1>2. CallbackAt(callee, clientState)
  BY DEF CallbackAt, HandlerCalls
<1> QED BY <1>1, <1>2, CallbackCalls

LEMMA RequestStepCallback ==
  ASSUME OneTask, HandlersRequest, CallbackInv, IInv', NEW t \in Tasks, RequestStep(t)
  PROVE  CallbackInv'
<1> USE CallbackTop, CallbackGoto, CallbackReturned, OnlyMismatchFails,
        TopTyped, FrameTyped, ControlPoints, StateNames
    DEF ResultCodes, At, SetStateAnyway, SetState, HandlerCalls, Requests
<1>1. ASSUME NEW op \in Requests, CallRequest(t, op) PROVE CallbackInv'
  <2> DEFINE callee == Frame(op, "claim", clientState)
  <2>1. /\ Top(t).at \in Points /\ Top(t).op \in {"task", "deliver"}
        /\ Top(t).op = "deliver" => Top(t).at = "callback" /\ clientState = "WAIT_FOR_CB"
    BY <1>1 DEF CallRequest, MayCall, CallbackAt
  <2>2. /\ callee \in Frames /\ callee.op = op /\ callee.saved = clientState
        /\ callee.at = "claim"
    BY DEF Frame, Ops
  <2>3. CallbackAt(callee, clientState) /\ callee.op \in HandlerCalls
    BY <2>2 DEF CallbackAt
  <2>4. \A f \in Frames : f.op = Top(t).op /\ f.at = Top(t).at => CallbackLink(f, callee)
    BY <2>1, <2>2 DEF CallbackLink
  <2>5. Call(t, Top(t).at, callee) /\ clientState' = clientState
    BY <1>1 DEF CallRequest
  <2> HIDE DEF callee
  <2> QED BY <2>1, <2>2, <2>3, <2>4, <2>5, CallbackCalls
<1>2. ASSUME NEW op \in Requests, ClaimRequest(t, op) PROVE CallbackInv'
  BY <1>2 DEF ClaimRequest, CallbackAt
<1>3. ASSUME NEW op \in Requests, FinishRequest(t, op) PROVE CallbackInv'
  BY <1>3 DEF FinishRequest, CallbackAt
<1>4. ASSUME NEW op \in Requests, ReleaseRequest(t, op) PROVE CallbackInv'
  BY <1>4 DEF ReleaseRequest, CallbackAt
<1>5. CASE UndoUnsubscribe(t)
  BY <1>5 DEF UndoUnsubscribe, CallbackAt
<1> QED BY <1>1, <1>2, <1>3, <1>4, <1>5 DEF RequestStep

LEMMA MessageStepCallback ==
  ASSUME OneTask, HandlersRequest, CallbackInv, IInv', NEW t \in Tasks, MessageStep(t)
  PROVE  CallbackInv'
<1> USE CallbackTop, CallbackGoto, CallbackReturned, OnlyMismatchFails,
        TopTyped, FrameTyped, ControlPoints, StateNames
    DEF ResultCodes, At, SetStateAnyway, SetState, HandlerCalls, Requests
<1>1. CASE ReceiveMessage(t)
  <2> DEFINE callee == Frame("deliver", "mark", clientState)
             at == IF Top(t).op = "yield" THEN "read" ELSE "body"
  <2>1. /\ Top(t).op \in Requests \cup {"resubscribe", "yield"}
        /\ Top(t).op \in Requests => Top(t).at = "body" /\ clientState = InProgress[Top(t).op]
        /\ Top(t).op \in Requests => at = "body"
        /\ at \in Points
    BY <1>1 DEF ReceiveMessage, Reading, CallbackAt
  <2>2. /\ callee \in Frames /\ callee.op = "deliver" /\ callee.saved = clientState
        /\ callee.at = "mark"
    BY DEF Frame
  <2>3. CallbackAt(callee, clientState) /\ callee.op \in HandlerCalls
    BY <2>2 DEF CallbackAt
  <2>4. Call(t, at, callee) /\ clientState' = clientState
    BY <1>1 DEF ReceiveMessage
  <2> HIDE DEF callee, at
  <2>5. \A f \in Frames : f.op = Top(t).op /\ f.at = at => CallbackLink(f, callee)
    BY <2>1, <2>2 DEF CallbackLink
  <2> QED BY <2>1, <2>2, <2>3, <2>4, <2>5, CallbackCalls
<1>2. CASE MarkCallback(t)
  BY <1>2 DEF MarkCallback, CallbackAt
<1>3. CASE CallbackReturns(t)
  BY <1>3 DEF CallbackReturns, CallbackAt
<1>4. CASE UnmarkCallback(t)
  BY <1>4 DEF UnmarkCallback, CallbackAt
<1> QED BY <1>1, <1>2, <1>3, <1>4 DEF MessageStep

LEMMA SessionStepCallback ==
  ASSUME OneTask, HandlersRequest, CallbackInv, IInv', NEW t \in Tasks, SessionStep(t)
  PROVE  CallbackInv'
<1> USE CallbackTop, CallbackGoto, CallbackReturned, OnlyMismatchFails,
        TopTyped, FrameTyped, ControlPoints, StateNames
    DEF ResultCodes, At, SetStateAnyway, SetState, HandlerCalls, Requests
<1>1. CASE CallConnect(t)
  <2> DEFINE callee == Frame("connect", "claim", clientState)
  <2>1. Top(t).op = "task"
    BY <1>1 DEF CallConnect, MayCall, HandlersRequest
  <2>2. callee \in Frames /\ callee.op = "connect"
    BY DEF Frame, Ops
  <2>3. Call(t, Top(t).at, callee) /\ clientState' = clientState
    BY <1>1 DEF CallConnect
  <2> HIDE DEF callee
  <2> QED BY <2>1, <2>2, <2>3, CallbackOthers
<1>2. CASE ClaimConnect(t)
  BY <1>2 DEF ClaimConnect, CallbackAt
<1>3. CASE ConnectNetwork(t)
  BY <1>3 DEF ConnectNetwork, CallbackAt
<1>4. CASE FinishConnect(t)
  BY <1>4 DEF FinishConnect, CallbackAt
<1>5. CASE CallDisconnect(t)
  <2> DEFINE callee == Frame("disconnect", "claim", clientState)
  <2>1. Top(t).op = "task"
    BY <1>5 DEF CallDisconnect, MayCall, HandlersRequest
  <2>2. callee \in Frames /\ callee.op = "disconnect"
    BY DEF Frame, Ops
  <2>3. Call(t, Top(t).at, callee) /\ clientState' = clientState
    BY <1>5 DEF CallDisconnect
  <2> HIDE DEF callee
  <2> QED BY <2>1, <2>2, <2>3, CallbackOthers
<1>6. CASE ClaimDisconnect(t)
  BY <1>6 DEF ClaimDisconnect, CallbackAt
<1>7. CASE DisconnectNetwork(t)
  BY <1>7 DEF DisconnectNetwork, CallbackAt
<1>8. CASE FinishDisconnect(t)
  BY <1>8 DEF FinishDisconnect, CallbackAt
<1> QED BY <1>1, <1>2, <1>3, <1>4, <1>5, <1>6, <1>7, <1>8 DEF SessionStep

LEMMA ReconnectStepCallback ==
  ASSUME OneTask, HandlersRequest, CallbackInv, IInv', NEW t \in Tasks, ReconnectStep(t)
  PROVE  CallbackInv'
<1> USE CallbackTop, CallbackGoto, CallbackReturned, OnlyMismatchFails,
        TopTyped, FrameTyped, ControlPoints, StateNames
    DEF ResultCodes, At, SetStateAnyway, SetState, HandlerCalls, Requests
<1>1. CASE CallReconnect(t)
  <2> DEFINE callee == Frame("reconnect", "start", clientState)
  <2>1. Top(t).op = "task"
    BY <1>1 DEF CallReconnect, MayCall, HandlersRequest
  <2>2. callee \in Frames /\ callee.op = "reconnect"
    BY DEF Frame, Ops
  <2>3. Call(t, Top(t).at, callee) /\ clientState' = clientState
    BY <1>1 DEF CallReconnect
  <2> HIDE DEF callee
  <2> QED BY <2>1, <2>2, <2>3, CallbackOthers
<1>2. CASE StartReconnect(t)
  <2> DEFINE callee == Frame("connect", "claim", clientState)
  <2>1. Top(t).op = "reconnect" /\ clientState' = clientState
    BY <1>2 DEF StartReconnect
  <2>2. CASE Call(t, "check", callee)
    <3>1. callee \in Frames /\ callee.op = "connect"
      BY DEF Frame, Ops
    <3> HIDE DEF callee
    <3> QED BY <2>1, <2>2, <3>1, CallbackInner
  <2>3. CASE ~Call(t, "check", callee)
    BY <1>2, <2>1, <2>3 DEF StartReconnect, CallbackAt
  <2> QED BY <2>2, <2>3
<1>3. CASE CheckReconnect(t)
  BY <1>3 DEF CheckReconnect, CallbackAt
<1>4. CASE GiveUpReconnect(t)
  BY <1>4 DEF GiveUpReconnect, CallbackAt
<1>5. CASE CallResubscribe(t)
  <2>1. Top(t).op = "task"
    BY <1>5 DEF CallResubscribe, MayCall, HandlersRequest
  <2>2. ResubscribeFrame \in Frames /\ ResubscribeFrame.op = "resubscribe"
    BY ResubscribeTyped DEF ResubscribeFrame, Frame
  <2>3. Call(t, Top(t).at, ResubscribeFrame) /\ clientState' = clientState
    BY <1>5 DEF CallResubscribe
  <2> QED BY <2>1, <2>2, <2>3, CallbackOthers
<1>6. CASE ReconnectResubscribe(t)
  <2>1. Top(t).op = "reconnect" /\ depth[t] # 0
    BY <1>6 DEF ReconnectResubscribe
  <2>2. CASE clientState \in {"IDLE", "RESUBSCRIBE"}
    <3>1. Replaces(t, ResubscribeFrame) /\ ResubscribeFrame \in Frames
      BY <1>6, <2>2, ReplaceFrames, ResubscribeTyped DEF ReconnectResubscribe
    <3>2. ResubscribeFrame.op = "resubscribe"
      BY DEF ResubscribeFrame, Frame
    <3> QED BY <2>1, <3>1, <3>2, CallbackReplace
  <2>3. CASE clientState \notin {"IDLE", "RESUBSCRIBE"}
    BY <1>6, <2>1, <2>3 DEF ReconnectResubscribe, CallbackAt
  <2> QED BY <2>2, <2>3
<1>7. CASE ClaimResubscribe(t)
  BY <1>7 DEF ClaimResubscribe, CallbackAt
<1>8. CASE FinishResubscribe(t)
  BY <1>8 DEF FinishResubscribe, CallbackAt
<1>9. CASE ReleaseResubscribe(t)
  BY <1>9 DEF ReleaseResubscribe, CallbackAt
<1> QED BY <1>1, <1>2, <1>3, <1>4, <1>5, <1>6, <1>7, <1>8, <1>9 DEF ReconnectStep

LEMMA YieldStepCallback ==
  ASSUME OneTask, HandlersRequest, CallbackInv, IInv', NEW t \in Tasks, YieldStep(t)
  PROVE  CallbackInv'
<1> USE CallbackTop, CallbackGoto, CallbackReturned, OnlyMismatchFails,
        TopTyped, FrameTyped, ControlPoints, StateNames
    DEF ResultCodes, At, SetStateAnyway, SetState, HandlerCalls, Requests
<1>1. CASE CallYield(t)
  <2>1. PICK at \in {"claim", "loop"} : Call(t, Top(t).at, Frame("yield", at, clientState))
    BY <1>1 DEF CallYield
  <2> DEFINE callee == Frame("yield", at, clientState)
  <2>2. Top(t).op = "task"
    BY <1>1 DEF CallYield, MayCall, CallbackAt
  <2>3. callee \in Frames /\ callee.op = "yield"
    BY DEF Frame, Ops
  <2>4. Call(t, Top(t).at, callee) /\ clientState' = clientState
    BY <1>1, <2>1 DEF CallYield
  <2> HIDE DEF callee
  <2> QED BY <2>2, <2>3, <2>4, CallbackOthers
<1>2. CASE ClaimYield(t)
  BY <1>2 DEF ClaimYield, CallbackAt
<1>3. CASE YieldReconnect(t)
  <2> DEFINE callee == Frame("reconnect", "start", clientState)
  <2>1. Top(t).op = "yield" /\ clientState' = clientState
    BY <1>3 DEF YieldReconnect
  <2>2. CASE Call(t, "reconnected", callee)
    <3>1. callee \in Frames /\ callee.op = "reconnect"
      BY DEF Frame, Ops
    <3> HIDE DEF callee
    <3> QED BY <2>1, <2>2, <3>1, CallbackInner
  <2>3. CASE ~Call(t, "reconnected", callee)
    BY <1>3, <2>1, <2>3 DEF YieldReconnect, CallbackAt
  <2> QED BY <2>2, <2>3
<1>4. CASE YieldReconnected(t)
  BY <1>4 DEF YieldReconnected, CallbackAt
<1>5. CASE YieldReclaim(t)
  BY <1>5 DEF YieldReclaim, CallbackAt
<1>6. CASE YieldRead(t)
  BY <1>6 DEF YieldRead, CallbackAt
<1>7. CASE YieldDelivered(t)
  BY <1>7 DEF YieldDelivered, CallbackAt
<1>8. CASE YieldLinkLost(t)
  <2> DEFINE callee == Frame("disconnect", "claim", clientState)
  <2>1. Top(t).op = "yield" /\ clientState' = clientState
    BY <1>8 DEF YieldLinkLost
  <2>2. CASE Call(t, "dropped", callee)
    <3>1. callee \in Frames /\ callee.op = "disconnect"
      BY DEF Frame, Ops
    <3> HIDE DEF callee
    <3> QED BY <2>1, <2>2, <3>1, CallbackInner
  <2>3. CASE ~Call(t, "dropped", callee)
    BY <1>8, <2>1, <2>3 DEF YieldLinkLost, CallbackAt
  <2> QED BY <2>2, <2>3
<1>9. CASE YieldDropped(t)
  BY <1>9 DEF YieldDropped, CallbackAt
<1>10. CASE DisconnectHandler(t)
  <2> DEFINE callee == Frame("reconnect", "start", clientState)
  <2>1. Top(t).op = "yield" /\ clientState' = clientState
    BY <1>10 DEF DisconnectHandler
  <2>2. CASE Call(t, "handled", callee)
    <3>1. callee \in Frames /\ callee.op = "reconnect"
      BY DEF Frame, Ops
    <3> HIDE DEF callee
    <3> QED BY <2>1, <2>2, <3>1, CallbackInner
  <2>3. CASE ~Call(t, "handled", callee)
    BY <1>10, <2>1, <2>3 DEF DisconnectHandler, CallbackAt
  <2> QED BY <2>2, <2>3
<1>11. CASE YieldMarkLost(t)
  BY <1>11 DEF YieldMarkLost, CallbackAt
<1>12. CASE YieldPend(t)
  BY <1>12 DEF YieldPend, CallbackAt
<1>13. CASE YieldAgain(t)
  BY <1>13 DEF YieldAgain, CallbackAt
<1>14. CASE YieldExit(t)
  BY <1>14 DEF YieldExit, CallbackAt
<1>15. CASE ReleaseYield(t)
  BY <1>15 DEF ReleaseYield, CallbackAt
<1> QED BY <1>1, <1>2, <1>3, <1>4, <1>5, <1>6, <1>7, <1>8, <1>9, <1>10, <1>11, <1>12, <1>13, <1>14, <1>15 DEF YieldStep

\* CallbackExcludesYield is an invariant of one task whose handlers make
\* requests and try to yield.  (A handler that disconnects and reconnects
\* leaves the client idle under itself, and a yield of it is accepted.)
THEOREM CallbackQuiet ==
  ASSUME OneTask, HandlersRequest PROVE Spec => []CallbackExcludesYield
<1>1. Init => CallbackInv
  <2> SUFFICES ASSUME Init PROVE CallbackInv
    OBVIOUS
  <2>1. \A t \in Tasks : depth[t] = 0
    BY DEF Init
  <2>2. \A t \in Tasks : Top(t).op = "task"
    BY <2>1, OwnedInit DEF IInv, TInv, BaseFrame, Top
  <2> QED BY <2>1, <2>2, OwnedInit DEF CallbackInv, CallbackAt, Requests
<1>2. CallbackInv /\ [Next]_vars => CallbackInv'
  <2> SUFFICES ASSUME CallbackInv, [Next]_vars PROVE CallbackInv'
    OBVIOUS
  <2>1. IInv'
    BY OwnedStep DEF CallbackInv, OneTask, OneTaskOrQuiet
  <2>2. ASSUME UNCHANGED <<clientState, frame, depth>> PROVE CallbackInv'
    BY <2>1, <2>2 DEF CallbackInv, Top
  <2>3. ASSUME NEW t \in Tasks, TaskStep(t) PROVE CallbackInv'
    BY <2>1, <2>2, <2>3, RequestStepCallback, MessageStepCallback, SessionStepCallback,
       ReconnectStepCallback, YieldStepCallback DEF TaskStep, Lock
  <2> QED BY <2>2, <2>3 DEF Next, vars
<1>3. CallbackInv => CallbackExcludesYield
  <2> SUFFICES ASSUME CallbackInv, NEW t \in Tasks, NEW u \in Tasks,
                      NEW i \in 1..depth[t], NEW j \in 1..depth[u],
                      frame[t][i].op = "deliver", frame[u][j].op = "yield"
               PROVE  t = u /\ j < i
    BY DEF CallbackExcludesYield
  <2>1. t = u /\ j \in 1..depth[t]
    BY DEF OneTask
  <2>2. ~(i < j)
    BY <2>1 DEF CallbackInv, HandlerCalls, Requests
  <2>3. i # j /\ i \in Int /\ j \in Int
    BY <2>1
  <2> QED BY <2>1, <2>2, <2>3
<1> QED BY <1>1, <1>2, <1>3, PTL DEF Spec
=============================================================================
