------------------------------ MODULE Wrapper ------------------------------
(***************************************************************************)
(* The life of an AWSGreenGrassIoT object: discovery, connection, the task *)
(* that yields, and the flags that the application sees.                   *)
(*                                                                         *)
(* The MQTT client is one global variable; every successful connection     *)
(* starts a task that yields on it for good, if there is memory for the    *)
(* task.  The application is that of the examples: while it is not         *)
(* connected it tries again, with the same object or with a new one.       *)
(***************************************************************************)
EXTENDS Integers

CONSTANT MaxTasks      \* bound of the model: successful connections

ASSUME WrapperAssumption == MaxTasks \in Nat \ {0}

VARIABLES
    connected,         \* _connected
    discovered,        \* _isGGDiscovered
    app,               \* what loop() is in
    client,            \* _client
    tasks,             \* how many taskRunner tasks there are
    starved,           \* there was no memory for the task of the last connection
    up,                \* whether core and cloud can be reached
    resigned           \* the application has called disconnect()

vars == <<connected, discovered, app, client, tasks, starved, up, resigned>>
object == <<connected, discovered>>

\* A mutant of EnableAutoReconnect: the handler reconnects by hand.
ManualReconnect == FALSE

EnableAutoReconnect == TRUE

Init ==
    /\ connected = FALSE
    /\ discovered = FALSE
    /\ app = "loop"
    /\ client = "none"
    /\ tasks = 0
    /\ starved = FALSE
    /\ up = TRUE
    /\ resigned = FALSE
-----------------------------------------------------------------------------
(* The application                                                         *)

\* A mutant of NewObject: the constructor forgets a flag.
NewObjectKeepsDiscovered ==
    /\ app = "loop"
    /\ ~connected
    /\ connected' = FALSE
    /\ UNCHANGED <<discovered, app, client, tasks, starved, up, resigned>>

\* The constructor, as the examples use it; the old object is not deleted.
NewObject ==
    /\ app = "loop"
    /\ ~connected
    /\ connected' = FALSE
    /\ discovered' = FALSE
    /\ UNCHANGED <<app, client, tasks, starved, up, resigned>>

\* Does nothing once a core was discovered, even if connecting to it failed.
ConnectToGG ==
    /\ app = "loop"
    /\ ~connected
    /\ ~discovered
    /\ app' = "discovering"
    /\ UNCHANGED <<object, client, tasks, starved, up, resigned>>

\* discoverGG
Discovered ==
    /\ app = "discovering"
    /\ up
    /\ discovered' = TRUE
    /\ app' = "connect"
    /\ UNCHANGED <<connected, client, tasks, starved, up, resigned>>

DiscoveryFails ==
    /\ app = "discovering"
    /\ discovered' = FALSE
    /\ app' = "loop"
    /\ UNCHANGED <<connected, client, tasks, starved, up, resigned>>

ConnectToIoTCore ==
    /\ app = "loop"
    /\ ~connected
    /\ app' = "connect"
    /\ UNCHANGED <<object, client, tasks, starved, up, resigned>>

\* _connect up to aws_iot_mqtt_connect: the client starts afresh, whoever uses it.
InitClient ==
    /\ app = "connect"
    /\ connected' = FALSE
    /\ client' = "initialized"
    /\ app' = "connecting"
    /\ UNCHANGED <<discovered, tasks, starved, up, resigned>>

\* The flag is set first; whether xTaskCreate found 36 KB for the stack of the
\* task is not looked at, and the application is told SUCCESS either way.
Connected ==
    /\ app = "connecting"
    /\ up
    /\ tasks < MaxTasks
    /\ connected' = TRUE
    /\ client' = "connected"
    /\ \/ tasks' = tasks + 1 /\ starved' = FALSE
       \/ starved' = TRUE /\ UNCHANGED tasks
    /\ app' = "loop"
    /\ UNCHANGED <<discovered, up, resigned>>

\* A mutant of ConnectFails: the flag is set whatever aws_iot_mqtt_connect returned.
ConnectFailsConnected ==
    /\ app = "connecting"
    /\ connected' = TRUE
    /\ app' = "loop"
    /\ UNCHANGED <<discovered, client, tasks, starved, up, resigned>>

\* Also when the discovered host, which lies in a string that is freed by now,
\* has been overwritten.
ConnectFails ==
    /\ app = "connecting"
    /\ app' = "loop"
    /\ UNCHANGED <<object, client, tasks, starved, up, resigned>>

\* A mutant of Disconnect: it stops a task, running or not.
DisconnectStopsTask ==
    /\ app = "loop"
    /\ tasks < MaxTasks
    /\ connected' = FALSE
    /\ discovered' = FALSE
    /\ resigned' = TRUE
    /\ tasks' = tasks - 1
    /\ UNCHANGED <<app, client, starved, up>>

\* disconnect() clears the flags and stops nothing.
Disconnect ==
    /\ app = "loop"
    /\ tasks < MaxTasks
    /\ connected' = FALSE
    /\ discovered' = FALSE
    /\ resigned' = TRUE
    /\ UNCHANGED <<app, client, tasks, starved, up>>
-----------------------------------------------------------------------------
(* The tasks, and the network                                              *)

Yielding == tasks > 0

\* A yield that finds the link dead calls disconnectCallbackHandler.
LinkLost ==
    /\ Yielding
    /\ client = "connected"
    /\ ~up
    /\ client' = "reconnecting"
    /\ IF EnableAutoReconnect
       THEN UNCHANGED object
       ELSE connected' = FALSE /\ discovered' = FALSE
    /\ UNCHANGED <<app, tasks, starved, up, resigned>>

Reconnected ==
    /\ Yielding
    /\ client = "reconnecting"
    /\ up
    /\ client' = "connected"
    /\ UNCHANGED <<object, app, tasks, starved, up, resigned>>

\* NETWORK_RECONNECT_TIMED_OUT: nobody tells the object.
GivesUp ==
    /\ Yielding
    /\ client = "reconnecting"
    /\ client' = "gaveUp"
    /\ UNCHANGED <<object, app, tasks, starved, up, resigned>>

Network ==
    /\ up' = ~up
    /\ UNCHANGED <<object, app, client, tasks, starved, resigned>>
-----------------------------------------------------------------------------
App ==
    \/ ConnectToGG \/ Discovered \/ DiscoveryFails \/ ConnectToIoTCore
    \/ InitClient \/ Connected \/ ConnectFails

Next ==
    \/ App \/ NewObject \/ Disconnect
    \/ LinkLost \/ Reconnected \/ GivesUp \/ Network

Spec == Init /\ [][Next]_vars

\* The application keeps trying and sometimes with a new object; what is tried
\* often enough while the network is up succeeds.
FairSpec ==
    /\ Spec
    /\ WF_vars(InitClient)
    /\ WF_vars(Discovered \/ DiscoveryFails)
    /\ WF_vars(Connected \/ ConnectFails)
    /\ SF_vars(ConnectToGG)
    /\ SF_vars(NewObject)
    /\ SF_vars(Discovered)
    /\ SF_vars(Connected)
-----------------------------------------------------------------------------
(* Properties                                                              *)

\* Every variable stays in its declared range.
TypeOK ==
    /\ connected \in BOOLEAN /\ discovered \in BOOLEAN
    /\ app \in {"loop", "discovering", "connect", "connecting"}
    /\ client \in {"none", "initialized", "connected", "reconnecting", "gaveUp"}
    /\ tasks \in 0..MaxTasks
    /\ starved \in BOOLEAN
    /\ up \in BOOLEAN
    /\ resigned \in BOOLEAN

\* isConnected() means that the client was connected and that some task reads
\* what comes, unless there was no memory for the task: _connect reports such a
\* connection as it does any other.  Whether the connection still stands, the
\* flag does not say.
ConnectedIsServed ==
    connected => /\ client \in {"connected", "reconnecting", "gaveUp"}
                 /\ tasks > 0 \/ starved

\* The client is never initialised under a task that yields on it, unless the
\* application has called disconnect().
NotUnderATask == app \in {"discovering", "connect", "connecting"} /\ ~resigned => tasks = 0

\* An application that keeps trying, now and then with a new object, gets
\* connected when the network stays up.
GetsConnected == <>[](up /\ ~resigned) => <>connected
=============================================================================
