---------------------------- MODULE ClientCalls ----------------------------
(***************************************************************************)
(* The client-state protocol of the MQTT client: several FreeRTOS tasks    *)
(* call the API of one AWS_IoT_Client, and every call claims the shared    *)
(* field clientState with aws_iot_mqtt_set_client_state (a compare-and-set *)
(* under state_change_mutex), does its work and puts a state back.         *)
(*                                                                         *)
(* A task is a stack of frames, one per active call: a message handler     *)
(* runs inside the call that read the message and may itself call the API. *)
(* Frame 0 is the task's own code.  "at" is the control point of a call,   *)
(* "saved" the client state it read on entry, "rc" the result of the last  *)
(* call it made.                                                           *)
(***************************************************************************)
EXTENDS Integers, FiniteSets

CONSTANTS
    Tasks,          \* tasks that use the client
    NoTask,         \* "nobody holds state_change_mutex"
    TaskOps,        \* [Tasks -> SUBSET Ops]: calls a task makes by itself
    CallbackOps,    \* calls a message handler makes
    Messages,       \* BOOLEAN: the broker sends application messages
    LinkFaults,     \* BOOLEAN: connects fail and links drop
    TryLock,        \* ~isBlockOnThreadLockEnabled
    AutoReconnect,  \* isAutoReconnectEnabled
    InitialStates,  \* where the run starts, see Init
    MaxDoublings,   \* doublings of the reconnect wait before giving up
    MaxNesting      \* bound of the model: handlers nested on one task

Requests == {"publish", "subscribe", "unsubscribe"}
Ops == Requests \cup {"yield", "connect", "disconnect", "reconnect", "resubscribe"}

ASSUME CallsAssumption ==
    /\ NoTask \notin Tasks
    /\ TaskOps \in [Tasks -> SUBSET Ops]
    /\ CallbackOps \subseteq Ops
    /\ {Messages, LinkFaults, TryLock, AutoReconnect} \subseteq BOOLEAN
    /\ InitialStates \subseteq {"INITIALIZED", "IDLE"}
    /\ MaxDoublings \in Nat
    /\ MaxNesting \in Nat

ConnectedStates == {"IDLE", "YIELD", "PUBLISH", "SUBSCRIBE", "UNSUBSCRIBE",
                    "RESUBSCRIBE", "WAIT_FOR_CB"}
ConnectStates == {"INITIALIZED", "DISCONNECTED_ERROR", "DISCONNECTED_MANUALLY",
                  "PENDING_RECONNECT"}
ClientStates == ConnectedStates \cup ConnectStates \cup {"CONNECTING", "DISCONNECTING"}

\* The state a request holds while its packet exchange is in progress.
InProgress == [publish |-> "PUBLISH", subscribe |-> "SUBSCRIBE",
               unsubscribe |-> "UNSUBSCRIBE"]

\* Each level of handler nesting adds at most a delivery, a yield, a
\* reconnect and the connect it makes.
MaxDepth == 4 * (MaxNesting + 1)

VARIABLES
    clientState,    \* pClient->clientStatus.clientState
    holder,         \* the task inside aws_iot_mqtt_set_client_state
    tls,            \* the TLS session of networkStack: "up" or "down"
    doublings,      \* log2(currentReconnectWaitInterval / the minimum), where
                    \* MaxDoublings + 1 stands for all that is too long, and -1
                    \* for the zero that aws_iot_mqtt_init leaves
    frame, depth    \* the call stacks

vars == <<clientState, holder, tls, doublings, frame, depth>>

\* Control points.
Points == {"run", "claim", "body", "release", "undo", "mark", "callback", "unmark",
           "network", "established", "failed", "finish", "start", "check", "resubscribe",
           "giveup", "loop", "read", "cond", "reconnected", "reclaim", "dropped",
           "handler", "handled", "pend"}
Frames == [op : Ops \cup {"task", "deliver"}, at : Points, saved : ClientStates,
           rc : {"none", "ok", "error", "already", "skip"}]

Frame(op, at, saved) == [op |-> op, at |-> at, saved |-> saved, rc |-> "ok"]
Idle == Frame("task", "run", "IDLE")
Top(t) == frame[t][depth[t]]
At(t, op, at) == Top(t).op = op /\ Top(t).at = at

Goto(t, at) == /\ frame' = [frame EXCEPT ![t][depth[t]].at = at]
               /\ UNCHANGED depth
GotoWith(t, at, rc) ==
    /\ frame' = [frame EXCEPT ![t][depth[t]].at = at, ![t][depth[t]].rc = rc]
    /\ UNCHANGED depth

\* Call op, to continue at "at" when it returns.
Call(t, at, callee) ==
    /\ depth[t] < MaxDepth
    /\ depth' = [depth EXCEPT ![t] = @ + 1]
    /\ frame' = [frame EXCEPT ![t][depth[t]].at = at,
                              ![t][depth[t]].rc = "none",
                              ![t][depth[t] + 1] = callee]

Return(t, rc) ==
    /\ depth' = [depth EXCEPT ![t] = @ - 1]
    /\ frame' = [frame EXCEPT ![t][depth[t]] = Idle,
                              ![t][depth[t] - 1].rc = rc]
-----------------------------------------------------------------------------
(***************************************************************************)
(* aws_iot_mqtt_set_client_state: take the mutex, compare and set, give it *)
(* back.  With a non-blocking mutex the call fails while another task is   *)
(* inside.                                                                 *)
(***************************************************************************)
CasPoints == {<<op, "claim">> : op \in Ops} \cup {<<op, "release">> : op \in Ops} \cup
             {<<"unsubscribe", "undo">>, <<"deliver", "mark">>, <<"deliver", "unmark">>,
              <<"yield", "pend">>, <<"yield", "reclaim">>, <<"connect", "established">>,
              <<"connect", "failed">>, <<"reconnect", "giveup">>}

Lock(t) ==
    /\ <<Top(t).op, Top(t).at>> \in CasPoints
    /\ holder = NoTask
    /\ holder' = t
    /\ UNCHANGED <<clientState, tls, doublings, frame, depth>>

SetState(t, expected, new) ==
    /\ holder = t
    /\ clientState = expected
    /\ clientState' = new
    /\ holder' = NoTask

SetStateFails(t, expected) ==
    /\ \/ holder = t /\ clientState # expected /\ holder' = NoTask
       \/ TryLock /\ holder \notin {NoTask, t} /\ UNCHANGED holder
    /\ UNCHANGED clientState

\* A caller that ignores the result.
SetStateAnyway(t, expected, new) ==
    SetState(t, expected, new) \/ SetStateFails(t, expected)

\* Who may call op now: the task's own code, or a handler it is running.
MayCall(t, op) ==
    \/ At(t, "task", "run") /\ op \in TaskOps[t]
    \/ At(t, "deliver", "callback") /\ op \in CallbackOps
-----------------------------------------------------------------------------
(***************************************************************************)
(* publish, subscribe, unsubscribe                                         *)
(***************************************************************************)
CallRequest(t, op) ==
    /\ MayCall(t, op)
    /\ clientState \in {"IDLE", "WAIT_FOR_CB"}
    /\ Call(t, Top(t).at, Frame(op, "claim", clientState))
    /\ UNCHANGED <<clientState, holder, tls, doublings>>

\* Mutant: the claim does not look at the state it replaces.
ClaimRequestUnchecked(t, op) ==
    /\ At(t, op, "claim")
    /\ SetState(t, clientState, InProgress[op])
    /\ Goto(t, "body")
    /\ UNCHANGED <<tls, doublings>>

ClaimRequest(t, op) ==
    /\ At(t, op, "claim")
    /\ LET s == Top(t).saved IN
       \/ SetState(t, s, InProgress[op]) /\ Goto(t, "body")
       \/ SetStateFails(t, s) /\ op # "unsubscribe" /\ Return(t, "error")
       \/ SetStateFails(t, s) /\ op = "unsubscribe" /\ Goto(t, "undo")
    /\ UNCHANGED <<tls, doublings>>

\* unsubscribe "restores" the state it failed to take.
UndoUnsubscribe(t) ==
    /\ At(t, "unsubscribe", "undo")
    /\ SetStateAnyway(t, "UNSUBSCRIBE", Top(t).saved)
    /\ Return(t, "error")
    /\ UNCHANGED <<tls, doublings>>

\* Mutant: the error path forgets to put the state back.
FinishRequestForgetsState(t, op) ==
    /\ At(t, op, "body")
    /\ Goto(t, "release") \/ Return(t, "error")
    /\ UNCHANGED <<clientState, holder, tls, doublings>>

\* Answered, timed out, or a handler's error ended the wait.
FinishRequest(t, op) ==
    /\ At(t, op, "body")
    /\ Goto(t, "release")
    /\ UNCHANGED <<clientState, holder, tls, doublings>>

ReleaseRequest(t, op) ==
    /\ At(t, op, "release")
    /\ SetStateAnyway(t, InProgress[op], Top(t).saved)
    /\ Return(t, "ok")
    /\ UNCHANGED <<tls, doublings>>
-----------------------------------------------------------------------------
(***************************************************************************)
(* aws_iot_mqtt_internal_cycle_read reads a PUBLISH: deliver_message saves *)
(* the current state, whatever it is, and runs the handlers in             *)
(* WAIT_FOR_CB_RETURN.                                                     *)
(***************************************************************************)
Nesting(t) == Cardinality({i \in 1..depth[t] : frame[t][i].op = "deliver"})

Reading(t) == \/ Top(t).op \in Requests \cup {"resubscribe"} /\ Top(t).at = "body"
              \/ At(t, "yield", "loop") /\ clientState \notin {"PENDING_RECONNECT", "RESUBSCRIBE"}

ReceiveMessage(t) ==
    /\ Messages
    /\ tls = "up"
    /\ Reading(t)
    /\ Top(t).rc # "error"
    /\ Nesting(t) < MaxNesting
    /\ Call(t, IF Top(t).op = "yield" THEN "read" ELSE "body",
            Frame("deliver", "mark", clientState))
    /\ UNCHANGED <<clientState, holder, tls, doublings>>

MarkCallback(t) ==
    /\ At(t, "deliver", "mark")
    /\ SetStateAnyway(t, Top(t).saved, "WAIT_FOR_CB")
    /\ Goto(t, "callback")
    /\ UNCHANGED <<tls, doublings>>

CallbackReturns(t) ==
    /\ At(t, "deliver", "callback")
    /\ Goto(t, "unmark")
    /\ UNCHANGED <<clientState, holder, tls, doublings>>

UnmarkCallback(t) ==
    /\ At(t, "deliver", "unmark")
    /\ \/ SetState(t, "WAIT_FOR_CB", Top(t).saved) /\ Return(t, "ok")
       \/ SetStateFails(t, "WAIT_FOR_CB") /\ Return(t, "error")
    /\ UNCHANGED <<tls, doublings>>
-----------------------------------------------------------------------------
(***************************************************************************)
(* connect, disconnect                                                     *)
(***************************************************************************)
CallConnect(t) ==
    /\ MayCall(t, "connect")
    /\ clientState \in ConnectStates
    /\ Call(t, Top(t).at, Frame("connect", "claim", clientState))
    /\ UNCHANGED <<clientState, holder, tls, doublings>>

ClaimConnect(t) ==
    /\ At(t, "connect", "claim")
    /\ SetStateAnyway(t, Top(t).saved, "CONNECTING")
    /\ Goto(t, "network")
    /\ UNCHANGED <<tls, doublings>>

\* Mutant: a refused CONNECT leaves the TLS session open.
ConnectNetworkLeavesSession(t) ==
    /\ At(t, "connect", "network")
    /\ \/ tls' = "up" /\ Goto(t, "established")
       \/ LinkFaults /\ tls' \in {"up", "down"} /\ Goto(t, "failed")
    /\ UNCHANGED <<clientState, holder, doublings>>

ConnectNetwork(t) ==
    /\ At(t, "connect", "network")
    /\ \/ tls' = "up" /\ Goto(t, "established")
       \/ LinkFaults /\ tls' = "down" /\ Goto(t, "failed")
    /\ UNCHANGED <<clientState, holder, doublings>>

\* Mutant: a failed connect leaves CONNECTING behind.
FinishConnectForgetsFailure(t) ==
    /\ \/ /\ At(t, "connect", "established")
          /\ SetStateAnyway(t, "CONNECTING", "IDLE")
          /\ Return(t, "ok")
       \/ /\ At(t, "connect", "failed")
          /\ Return(t, "error")
          /\ UNCHANGED <<clientState, holder>>
    /\ UNCHANGED <<tls, doublings>>

\* Mutant: a failed connect puts back the state it found, as the requests do.
FinishConnectRestoresState(t) ==
    /\ \/ /\ At(t, "connect", "established")
          /\ SetStateAnyway(t, "CONNECTING", "IDLE")
          /\ Return(t, "ok")
       \/ /\ At(t, "connect", "failed")
          /\ SetStateAnyway(t, "CONNECTING", Top(t).saved)
          /\ Return(t, "error")
    /\ UNCHANGED <<tls, doublings>>

FinishConnect(t) ==
    /\ \/ /\ At(t, "connect", "established")
          /\ SetStateAnyway(t, "CONNECTING", "IDLE")
          /\ Return(t, "ok")
       \/ /\ At(t, "connect", "failed")
          /\ SetStateAnyway(t, "CONNECTING", "DISCONNECTED_ERROR")
          /\ Return(t, "error")
    /\ UNCHANGED <<tls, doublings>>

CallDisconnect(t) ==
    /\ MayCall(t, "disconnect")
    /\ clientState \in ConnectedStates
    /\ Call(t, Top(t).at, Frame("disconnect", "claim", clientState))
    /\ UNCHANGED <<clientState, holder, tls, doublings>>

ClaimDisconnect(t) ==
    /\ At(t, "disconnect", "claim")
    /\ LET s == Top(t).saved IN
       \/ SetState(t, s, "DISCONNECTING") /\ Goto(t, "network")
       \/ SetStateFails(t, s) /\ Return(t, "error")
    /\ UNCHANGED <<tls, doublings>>

DisconnectNetwork(t) ==
    /\ At(t, "disconnect", "network")
    /\ tls' = "down"
    /\ Goto(t, "finish")
    /\ UNCHANGED <<clientState, holder, doublings>>

\* A plain assignment, without the mutex and without looking.
FinishDisconnect(t) ==
    /\ At(t, "disconnect", "finish")
    /\ clientState' = "DISCONNECTED_MANUALLY"
    /\ Return(t, "ok")
    /\ UNCHANGED <<holder, tls, doublings>>
-----------------------------------------------------------------------------
(***************************************************************************)
(* attempt_reconnect and resubscribe                                       *)
(***************************************************************************)
CallReconnect(t) ==
    /\ MayCall(t, "reconnect")
    /\ Call(t, Top(t).at, Frame("reconnect", "start", clientState))
    /\ UNCHANGED <<clientState, holder, tls, doublings>>

StartReconnect(t) ==
    /\ At(t, "reconnect", "start")
    /\ \/ clientState \in ConnectStates
          /\ Call(t, "check", Frame("connect", "claim", clientState))
       \/ clientState \notin ConnectStates \cup ConnectedStates /\ Goto(t, "check")
       \/ clientState = "RESUBSCRIBE" /\ Goto(t, "resubscribe")
       \/ clientState \in ConnectedStates \ {"RESUBSCRIBE"} /\ Return(t, "already")
    /\ UNCHANGED <<clientState, holder, tls, doublings>>

CheckReconnect(t) ==
    /\ At(t, "reconnect", "check")
    /\ Goto(t, IF clientState = "IDLE" THEN "resubscribe" ELSE "giveup")
    /\ UNCHANGED <<clientState, holder, tls, doublings>>

GiveUpReconnect(t) ==
    /\ At(t, "reconnect", "giveup")
    /\ SetStateAnyway(t, "DISCONNECTED_ERROR", "PENDING_RECONNECT")
    /\ Return(t, "error")
    /\ UNCHANGED <<tls, doublings>>

\* The last thing attempt_reconnect does, and an API call of its own.
ResubscribeFrame == Frame("resubscribe",
                          IF clientState = "IDLE" THEN "claim" ELSE "body", clientState)

CallResubscribe(t) ==
    /\ MayCall(t, "resubscribe")
    /\ clientState \in {"IDLE", "RESUBSCRIBE"}
    /\ Call(t, Top(t).at, ResubscribeFrame)
    /\ UNCHANGED <<clientState, holder, tls, doublings>>

ReconnectResubscribe(t) ==
    /\ At(t, "reconnect", "resubscribe")
    /\ IF clientState \in {"IDLE", "RESUBSCRIBE"}
       THEN /\ frame' = [frame EXCEPT ![t][depth[t]] = ResubscribeFrame]
            /\ UNCHANGED depth
       ELSE Return(t, "error")
    /\ UNCHANGED <<clientState, holder, tls, doublings>>

ClaimResubscribe(t) ==
    /\ At(t, "resubscribe", "claim")
    /\ \/ SetState(t, "IDLE", "RESUBSCRIBE") /\ Goto(t, "body")
       \/ SetStateFails(t, "IDLE") /\ Return(t, "error")
    /\ UNCHANGED <<tls, doublings>>

\* A SUBSCRIBE that is not answered leaves RESUBSCRIBE_IN_PROGRESS in place.
FinishResubscribe(t) ==
    /\ At(t, "resubscribe", "body")
    /\ \/ Top(t).rc # "error" /\ Goto(t, "release")
       \/ (LinkFaults \/ Top(t).rc = "error") /\ Return(t, "error")
    /\ UNCHANGED <<clientState, holder, tls, doublings>>

ReleaseResubscribe(t) ==
    /\ At(t, "resubscribe", "release")
    /\ \/ SetState(t, "RESUBSCRIBE", "IDLE") /\ Return(t, "ok")
       \/ SetStateFails(t, "RESUBSCRIBE") /\ Return(t, "error")
    /\ UNCHANGED <<tls, doublings>>
-----------------------------------------------------------------------------
(***************************************************************************)
(* yield.  rc = "skip" stands for NETWORK_DISCONNECTED_ERROR and           *)
(* NETWORK_ATTEMPTING_RECONNECT: the call returns without touching the     *)
(* state.                                                                  *)
(***************************************************************************)
\* Mutant: yield accepts WAIT_FOR_CB_RETURN, as the requests do.
CallYieldInCallback(t) ==
    /\ MayCall(t, "yield")
    /\ clientState \in {"IDLE", "WAIT_FOR_CB", "PENDING_RECONNECT", "RESUBSCRIBE"}
    /\ Call(t, Top(t).at,
            Frame("yield", IF clientState = "IDLE" THEN "claim" ELSE "loop", clientState))
    /\ UNCHANGED <<clientState, holder, tls, doublings>>

CallYield(t) ==
    /\ MayCall(t, "yield")
    /\ \/ /\ clientState = "IDLE"
          /\ Call(t, Top(t).at, Frame("yield", "claim", clientState))
       \/ /\ clientState \in {"PENDING_RECONNECT", "RESUBSCRIBE"}
          /\ Call(t, Top(t).at, Frame("yield", "loop", clientState))
    /\ UNCHANGED <<clientState, holder, tls, doublings>>

ClaimYield(t) ==
    /\ At(t, "yield", "claim")
    /\ \/ SetState(t, "IDLE", "YIELD") /\ Goto(t, "loop")
       \/ SetStateFails(t, "IDLE") /\ Return(t, "error")
    /\ UNCHANGED <<tls, doublings>>

\* One turn of the loop with the connection down.
YieldReconnect(t) ==
    /\ At(t, "yield", "loop")
    /\ clientState \in {"PENDING_RECONNECT", "RESUBSCRIBE"}
    /\ \/ doublings > MaxDoublings /\ Goto(t, "release")      \* RECONNECT_TIMED_OUT
       \/ doublings <= MaxDoublings /\ GotoWith(t, "cond", "skip")  \* not yet
       \/ /\ doublings <= MaxDoublings
          /\ Call(t, "reconnected", Frame("reconnect", "start", clientState))
    /\ UNCHANGED <<clientState, holder, tls, doublings>>

\* Mutant: the wait doubles without end.
YieldReconnectedUncapped(t) ==
    /\ At(t, "yield", "reconnected")
    /\ IF Top(t).rc = "ok"
       THEN Goto(t, "reclaim") /\ UNCHANGED doublings
       ELSE doublings' = doublings + 2 /\ GotoWith(t, "cond", "skip")
    /\ UNCHANGED <<clientState, holder, tls>>

\* handle_reconnect doubles the wait after every attempt but a complete one.
YieldReconnected(t) ==
    /\ At(t, "yield", "reconnected")
    /\ IF Top(t).rc = "ok"
       THEN Goto(t, "reclaim") /\ UNCHANGED doublings
       ELSE /\ doublings' = IF doublings \in 0..MaxDoublings THEN doublings + 1
                                                           ELSE doublings
            /\ GotoWith(t, "cond", IF doublings < MaxDoublings /\ Top(t).rc = "error"
                                   THEN "skip" ELSE "ok")
    /\ UNCHANGED <<clientState, holder, tls>>

YieldReclaim(t) ==
    /\ At(t, "yield", "reclaim")
    /\ SetStateAnyway(t, "IDLE", "YIELD")
    /\ GotoWith(t, "cond", "ok")
    /\ UNCHANGED <<tls, doublings>>

\* One turn of the loop with the connection up: nothing to do, or an error
\* other than a lost link.
YieldRead(t) ==
    /\ At(t, "yield", "loop")
    /\ clientState \notin {"PENDING_RECONNECT", "RESUBSCRIBE"}
    /\ GotoWith(t, "cond", "ok") \/ GotoWith(t, "release", "ok")
    /\ UNCHANGED <<clientState, holder, tls, doublings>>

YieldDelivered(t) ==
    /\ At(t, "yield", "read")
    /\ GotoWith(t, IF Top(t).rc = "ok" THEN "cond" ELSE "release", "ok")
    /\ UNCHANGED <<clientState, holder, tls, doublings>>

\* A socket error or an unanswered ping: handle_disconnect.
YieldLinkLost(t) ==
    /\ LinkFaults
    /\ \/ At(t, "yield", "loop") /\ clientState \notin {"PENDING_RECONNECT", "RESUBSCRIBE"}
       \/ At(t, "yield", "read") /\ Top(t).rc = "ok"
    /\ IF clientState \in ConnectedStates
       THEN Call(t, "dropped", Frame("disconnect", "claim", clientState))
       ELSE GotoWith(t, "dropped", "error")
    /\ UNCHANGED <<clientState, holder, tls, doublings>>

\* force_client_disconnect when the orderly disconnect could not run.
YieldDropped(t) ==
    /\ At(t, "yield", "dropped")
    /\ IF Top(t).rc = "ok"
       THEN UNCHANGED <<clientState, tls>>
       ELSE clientState' = "DISCONNECTED_ERROR" /\ tls' = "down"
    /\ Goto(t, "handler")
    /\ UNCHANGED <<holder, doublings>>

\* The disconnect handler reconnects by hand when auto-reconnect is off.
DisconnectHandler(t) ==
    /\ At(t, "yield", "handler")
    /\ IF AutoReconnect
       THEN Goto(t, "handled")
       ELSE Call(t, "handled", Frame("reconnect", "start", clientState))
    /\ UNCHANGED <<clientState, holder, tls, doublings>>

YieldMarkLost(t) ==
    /\ At(t, "yield", "handled")
    /\ clientState' = "DISCONNECTED_ERROR"
    /\ IF AutoReconnect THEN Goto(t, "pend") ELSE Return(t, "error")
    /\ UNCHANGED <<holder, tls, doublings>>

YieldPend(t) ==
    /\ At(t, "yield", "pend")
    /\ \/ /\ SetState(t, "DISCONNECTED_ERROR", "PENDING_RECONNECT")
          /\ doublings' = 0
          /\ GotoWith(t, "cond", "skip")
       \/ /\ SetStateFails(t, "DISCONNECTED_ERROR")
          /\ Goto(t, "release")
          /\ UNCHANGED doublings
    /\ UNCHANGED tls

\* The yield timer has time left, or has expired.
YieldAgain(t) ==
    /\ At(t, "yield", "cond")
    /\ GotoWith(t, "loop", "ok")
    /\ UNCHANGED <<clientState, holder, tls, doublings>>

\* Mutant: no result of the loop makes yield release its state.
YieldExitKeepsState(t) ==
    /\ At(t, "yield", "cond")
    /\ Return(t, "error")
    /\ UNCHANGED <<clientState, holder, tls, doublings>>

\* Mutant: the loop tests its timer only after an error.
YieldExitOnError(t) ==
    /\ At(t, "yield", "cond")
    /\ Top(t).rc = "skip"
    /\ Return(t, "error")
    /\ UNCHANGED <<clientState, holder, tls, doublings>>

YieldExit(t) ==
    /\ At(t, "yield", "cond")
    /\ IF Top(t).rc = "skip" THEN Return(t, "error") ELSE Goto(t, "release")
    /\ UNCHANGED <<clientState, holder, tls, doublings>>

ReleaseYield(t) ==
    /\ At(t, "yield", "release")
    /\ SetStateAnyway(t, "YIELD", "IDLE")
    /\ Return(t, "ok")
    /\ UNCHANGED <<tls, doublings>>
-----------------------------------------------------------------------------
\* The client as aws_iot_mqtt_init leaves it, or as the wrapper leaves it
\* when it starts its yield task: connected.
Init ==
    /\ clientState \in InitialStates
    /\ tls = IF clientState = "IDLE" THEN "up" ELSE "down"
    /\ holder = NoTask
    /\ doublings = -1
    /\ frame = [t \in Tasks |-> [i \in 0..MaxDepth |-> Idle]]
    /\ depth = [t \in Tasks |-> 0]

RequestStep(t) ==
    \/ \E op \in Requests : CallRequest(t, op) \/ ClaimRequest(t, op)
                            \/ FinishRequest(t, op) \/ ReleaseRequest(t, op)
    \/ UndoUnsubscribe(t)

MessageStep(t) ==
    ReceiveMessage(t) \/ MarkCallback(t) \/ CallbackReturns(t) \/ UnmarkCallback(t)

SessionStep(t) ==
    \/ CallConnect(t) \/ ClaimConnect(t) \/ ConnectNetwork(t) \/ FinishConnect(t)
    \/ CallDisconnect(t) \/ ClaimDisconnect(t) \/ DisconnectNetwork(t)
    \/ FinishDisconnect(t)

ReconnectStep(t) ==
    \/ CallReconnect(t) \/ StartReconnect(t) \/ CheckReconnect(t) \/ GiveUpReconnect(t)
    \/ CallResubscribe(t) \/ ReconnectResubscribe(t) \/ ClaimResubscribe(t)
    \/ FinishResubscribe(t) \/ ReleaseResubscribe(t)

YieldStep(t) ==
    \/ CallYield(t) \/ ClaimYield(t) \/ YieldReconnect(t) \/ YieldReconnected(t)
    \/ YieldReclaim(t) \/ YieldRead(t) \/ YieldDelivered(t) \/ YieldLinkLost(t)
    \/ YieldDropped(t) \/ DisconnectHandler(t) \/ YieldMarkLost(t) \/ YieldPend(t)
    \/ YieldAgain(t) \/ YieldExit(t) \/ ReleaseYield(t)

TaskStep(t) == \/ Lock(t) \/ RequestStep(t) \/ MessageStep(t) \/ SessionStep(t)
               \/ ReconnectStep(t) \/ YieldStep(t)

Next == \E t \in Tasks : TaskStep(t)

Spec == Init /\ [][Next]_vars

\* What a task does without being asked to: everything but starting a call of
\* its own, going round a loop again, or reading one more message.
Progress(t) ==
    \/ \E op \in Requests : ClaimRequest(t, op) \/ FinishRequest(t, op) \/ ReleaseRequest(t, op)
    \/ UndoUnsubscribe(t) \/ MarkCallback(t) \/ CallbackReturns(t) \/ UnmarkCallback(t)
    \/ ClaimConnect(t) \/ ConnectNetwork(t) \/ FinishConnect(t)
    \/ ClaimDisconnect(t) \/ DisconnectNetwork(t) \/ FinishDisconnect(t)
    \/ StartReconnect(t) \/ CheckReconnect(t) \/ GiveUpReconnect(t)
    \/ ReconnectResubscribe(t) \/ ClaimResubscribe(t) \/ FinishResubscribe(t)
    \/ ReleaseResubscribe(t)
    \/ ClaimYield(t) \/ YieldReconnect(t) \/ YieldReconnected(t) \/ YieldReclaim(t)
    \/ YieldRead(t) \/ YieldDelivered(t) \/ YieldDropped(t) \/ DisconnectHandler(t)
    \/ YieldMarkLost(t) \/ YieldPend(t) \/ ReleaseYield(t)

\* The blocking mutex queues its waiters, every wait has a timer and the yield
\* loop tests its own; nothing obliges a task to call the API.
Fairness == \A t \in Tasks : /\ SF_vars(Lock(t))
                            /\ WF_vars(Progress(t))
                            /\ SF_vars(YieldExit(t))

FairSpec == Spec /\ Fairness
-----------------------------------------------------------------------------
(***************************************************************************)
(* Properties                                                              *)
(***************************************************************************)
\* Every variable stays in its declared range.
TypeOK ==
    /\ clientState \in ClientStates
    /\ holder \in Tasks \cup {NoTask}
    /\ tls \in {"up", "down"}
    /\ doublings \in -1..(MaxDoublings + 1)
    /\ depth \in [Tasks -> 0..MaxDepth]
    /\ frame \in [Tasks -> [0..MaxDepth -> Frames]]

\* States in which no call is in progress.  A failed resubscription leaves
\* RESUBSCRIBE_IN_PROGRESS behind on purpose, for the next yield.
RestStates == ConnectStates \cup {"IDLE", "RESUBSCRIBE"}

\* The call f has put the client into state s and will take it out again.
Holds(f, s) ==
    \/ f.op \in Requests /\ f.at \in {"body", "release"} /\ s = InProgress[f.op]
    \/ f.op = "deliver" /\ f.at \in {"callback", "unmark"} /\ s = "WAIT_FOR_CB"
    \/ f.op = "connect" /\ f.at \in {"network", "established", "failed"} /\ s = "CONNECTING"
    \/ f.op = "disconnect" /\ f.at \in {"network", "finish"} /\ s = "DISCONNECTING"
    \/ /\ f.op = "yield" /\ s = "YIELD"
       /\ \/ f.at \in {"loop", "read", "release"}
          \/ f.at = "cond" /\ f.rc # "skip"
          \/ f.at = "dropped" /\ f.rc # "ok"

Held(s) == \E t \in Tasks : \E i \in 1..depth[t] : Holds(frame[t][i], s)

\* "If not idle, another operation is in progress" (aws_iot_mqtt_yield): a
\* client that is neither idle nor disconnected has a call in progress that
\* will change its state; otherwise every later yield is refused for good.
TransientStateOwned == clientState \in RestStates \/ Held(clientState)

\* The states that mean "connected" are held exactly over a live TLS session:
\* no call finds a dead session in a connected state, and no connect runs over
\* (and leaks) a live one.
SessionMatchesState ==
    /\ clientState \in ConnectedStates => tls = "up"
    /\ clientState \in ConnectStates => tls = "down"

\* Task t is exchanging packets for a request, a resubscription or a yield.
Exchanging(t) ==
    \E i \in 1..depth[t] :
        \/ frame[t][i].op \in Requests \cup {"resubscribe"} /\ frame[t][i].at = "body"
        \/ frame[t][i].op = "yield" /\ frame[t][i].at \in {"loop", "read"}

\* Two tasks never exchange packets over the client at the same time: the
\* buffers, the packet ids and the acknowledgements are shared.
ExclusiveExchange ==
    \A t, u \in Tasks : Exchanging(t) /\ Exchanging(u) => t = u

\* "While callback return is in progress, Yield should not be called"
\* (deliver_message): no yield reads the socket during a message handler, but
\* for the one that called the handler and waits below it.
CallbackExcludesYield ==
    \A t, u \in Tasks : \A i \in 1..depth[t], j \in 1..depth[u] :
        /\ frame[t][i].op = "deliver" /\ frame[t][i].at = "callback"
        /\ frame[u][j].op = "yield" /\ frame[u][j].at \in {"loop", "read"}
        => t = u /\ j < i

\* What a client state says of the connection.
PhaseOf(state) == CASE state \in ConnectedStates -> "connected"
                    [] state = "CONNECTING" -> "connecting"
                    [] state = "DISCONNECTING" -> "closing"
                    [] state = "PENDING_RECONNECT" -> "retrying"
                    [] OTHER -> "closed"

Session == INSTANCE ClientSession WITH phase <- PhaseOf(clientState), session <- tls

\* The calls, their error paths, the handlers and the automatic reconnects take
\* the connection through the steps of ClientSession and no others.
SessionImplemented == Session!Spec

\* Whatever the calls do, the client comes back again and again to a state in
\* which the next call can be accepted or a reconnect started.
ReturnsToRest == []<>(clientState \in RestStates)
=============================================================================
