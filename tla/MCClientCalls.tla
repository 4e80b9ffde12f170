--------------------------- MODULE MCClientCalls ---------------------------
(* Instances of ClientCalls: who uses the client, and for what.            *)
EXTENDS ClientCalls

CONSTANTS main, app, app2, runner    \* tasks

\* Everything the API offers.
AllOps == Ops

\* One task does everything.
OneTask == [t \in {main} |-> AllOps]

\* The wrapper's tasks: taskRunner yields, loop() publishes and subscribes.
WrapperOps == [t \in {app, runner} |->
                 IF t = runner THEN {"yield"} ELSE {"publish", "subscribe"}]
\* The same with a third task.
SteadyOps == [t \in {app, app2, runner} |->
                 IF t = runner THEN {"yield"} ELSE {"publish", "subscribe"}]
\* loop() also connects and disconnects.
ManagerOps == [t \in {app, runner} |->
                 IF t = runner THEN {"yield"} ELSE AllOps \ {"yield"}]

NoOps == {}
SafeCallbackOps == Requests \cup {"yield"}
=============================================================================
