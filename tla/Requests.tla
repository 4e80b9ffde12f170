------------------------------ MODULE Requests ------------------------------
(***************************************************************************)
(* Requests, their acknowledgements and the messages between them.         *)
(*                                                                         *)
(* A request writes a packet and reads the connection until the packet it  *)
(* waits for comes; packets are told apart by their type only.  A message  *)
(* that it meets is handed to the matching handlers, and a handler may     *)
(* make requests of its own: the calls of the one task form a stack.  The  *)
(* connection is two queues, and the broker answers in order.              *)
(*                                                                         *)
(* A QoS 0 publish waits for nothing and is left out.  A packet that is    *)
(* written in part makes the session useless: see SessionDies.             *)
(***************************************************************************)
EXTENDS Integers, Sequences

CONSTANTS
    Topics, NoTopic,
    NumHandlers,     \* AWS_IOT_MQTT_NUM_SUBSCRIBE_HANDLERS
    MaxDepth,        \* bound of the model: calls and deliveries in progress
    MaxRequests,     \* bound of the model: requests of a behaviour
    MaxMessages      \* bound of the model: messages of a behaviour

ASSUME RequestsAssumption ==
    /\ NoTopic \notin Topics
    /\ NumHandlers \in Nat
    /\ MaxDepth \in Nat \ {0}
    /\ MaxRequests \in Nat
    /\ MaxMessages \in Nat

VARIABLES
    stack,           \* calls and deliveries in progress, the innermost last
    handlers,        \* messageHandlers[..].topicName
    readBuf,         \* the packet that was read last
    requests,        \* ids given out: nextPacketId, not wrapped
    alive,           \* the session
    toBroker, toClient,
    messages,        \* messages sent by the broker
    subscriptions,   \* topics subscribed at the broker
    processed,       \* ids of requests the broker has acted on
    acknowledged,    \* ids of messages the client has acknowledged
    done,            \* the request that returned SUCCESS last
    promised,        \* topics subscribed with SUCCESS and not given up since
    stray            \* kinds of request of which an acknowledgement is astray

vars == <<stack, handlers, readBuf, requests, alive, toBroker, toClient, messages,
          subscriptions, processed, acknowledged, done, promised, stray>>
broker == <<messages, subscriptions, processed, acknowledged>>
history == <<done, promised, stray>>

Slots == 1..NumHandlers
Kinds == {"publish", "subscribe", "unsubscribe"}

\* What a request waits for.
AckOf(op) == CASE op = "publish" -> "PUBACK"
               [] op = "subscribe" -> "SUBACK"
               [] op = "unsubscribe" -> "UNSUBACK"

NoPacket == [type |-> "none", id |-> 0, topic |-> NoTopic]
Packet(type, id, topic) == [type |-> type, id |-> id, topic |-> topic]

Top == stack[Len(stack)]
Below == SubSeq(stack, 1, Len(stack) - 1)
Replace(frame) == Append(Below, frame)

Waiting == stack # <<>> /\ Top.op # "deliver"
Delivering == stack # <<>> /\ Top.op = "deliver"

\* A mutant of FreeSlot: the last slot counts as free when the table is full.
FreeSlotOrLast(f) ==
    /\ f \in Slots
    /\ handlers[f] = NoTopic \/ f = NumHandlers
    /\ \A s \in 1..f - 1 : handlers[s] # NoTopic

\* _aws_iot_mqtt_get_free_message_handler_index
FreeSlot(f) ==
    /\ f \in Slots
    /\ handlers[f] = NoTopic
    /\ \A s \in 1..f - 1 : handlers[s] # NoTopic

Init ==
    /\ stack = <<>>
    /\ handlers = [s \in Slots |-> NoTopic]
    /\ readBuf = NoPacket
    /\ requests = 0
    /\ alive = TRUE
    /\ toBroker = <<>>
    /\ toClient = <<>>
    /\ messages = 0
    /\ subscriptions = {}
    /\ processed = {}
    /\ acknowledged = {}
    /\ done = NoPacket
    /\ promised = {}
    /\ stray = {}
-----------------------------------------------------------------------------
(* The other end                                                           *)

BrokerActs ==
    /\ alive
    /\ toBroker # <<>>
    /\ LET p == Head(toBroker)
       IN
         \/ /\ p.type = "PUBACK"
            /\ acknowledged' = acknowledged \union {p.id}
            /\ UNCHANGED <<toClient, processed, subscriptions>>
         \/ /\ p.type \in Kinds
            /\ processed' = processed \union {p.id}
            /\ toClient' = Append(toClient, Packet(AckOf(p.type), p.id, NoTopic))
            /\ subscriptions' = CASE p.type = "subscribe" -> subscriptions \union {p.topic}
                                  [] p.type = "unsubscribe" -> subscriptions \ {p.topic}
                                  [] OTHER -> subscriptions
            /\ UNCHANGED acknowledged
    /\ toBroker' = Tail(toBroker)
    /\ UNCHANGED <<stack, handlers, readBuf, requests, alive, messages, history>>

BrokerSends(t) ==
    /\ alive
    /\ t \in subscriptions
    /\ messages < MaxMessages
    /\ messages' = messages + 1
    /\ toClient' = Append(toClient, Packet("PUBLISH", messages', t))
    /\ UNCHANGED <<stack, handlers, readBuf, requests, alive, toBroker, subscriptions,
                   processed, acknowledged, history>>

\* Also after a write that timed out half-way, of which send_packet says nothing.
SessionDies ==
    /\ alive
    /\ alive' = FALSE
    /\ toBroker' = <<>>
    /\ toClient' = <<>>
    /\ subscriptions' = {}
    /\ UNCHANGED <<stack, handlers, readBuf, requests, messages, processed, acknowledged,
                   history>>

\* aws_iot_mqtt_connect: nothing of the last session comes any more.
NewSession ==
    /\ ~alive
    /\ stack = <<>>
    /\ alive' = TRUE
    /\ stray' = {}
    /\ UNCHANGED <<stack, handlers, readBuf, requests, toBroker, toClient, broker, done,
                   promised>>
-----------------------------------------------------------------------------
(* Requests                                                                *)

\* A handler may call; a request during a request of its kind takes the
\* acknowledgement and the free slot that the other one waits for.
MayCall == stack = <<>> \/ (Delivering /\ Top.calling)

\* What a request by a handler does to those it interrupts.
Marked(op) ==
    [i \in DOMAIN stack |->
       CASE stack[i].op = "deliver" -> [stack[i] EXCEPT !.dirty = TRUE]
         [] stack[i].op = op -> [stack[i] EXCEPT !.shared = TRUE]
         [] OTHER -> stack[i]]

NestedIn(op) == \E i \in DOMAIN stack : stack[i].op = op

Call(op, t, id, slot) == [op |-> op, topic |-> t, id |-> id, slot |-> slot, shared |-> FALSE]

Request(op, t, slot) ==
    /\ MayCall
    /\ Len(stack) < MaxDepth
    /\ requests < MaxRequests
    /\ requests' = requests + 1
    /\ stack' = Append(Marked(op), Call(op, t, requests', slot))
    /\ toBroker' = IF alive THEN Append(toBroker, Packet(op, requests', t)) ELSE toBroker
    /\ stray' = IF NestedIn(op) THEN stray \union {op} ELSE stray
    /\ UNCHANGED <<handlers, readBuf, alive, toClient, broker, done, promised>>

\* aws_iot_mqtt_publish with QoS 1
Publish(t) == Request("publish", t, 0)

\* A mutant of Subscribe: a full table is not noticed.
SubscribeUnchecked(t) ==
    \/ \E f \in Slots : FreeSlot(f) /\ Request("subscribe", t, f)
    \/ (\A s \in Slots : handlers[s] # NoTopic) /\ Request("subscribe", t, NumHandlers + 1)

\* aws_iot_mqtt_subscribe: the slot is chosen before the wait.
Subscribe(t) == \E f \in Slots : FreeSlot(f) /\ Request("subscribe", t, f)

\* aws_iot_mqtt_unsubscribe: refused without a handler of the topic.
Unsubscribe(t) ==
    /\ \E s \in Slots : handlers[s] = t
    /\ Request("unsubscribe", t, 0)

Yield ==
    /\ stack = <<>>
    /\ stack' = <<Call("yield", NoTopic, 0, 0)>>
    /\ UNCHANGED <<handlers, readBuf, requests, alive, toBroker, toClient, broker, history>>

\* The time is up.  The acknowledgement may be on its way, unless the session is
\* dead.
GiveUp ==
    /\ Waiting
    /\ stack' = Below
    /\ stray' = IF alive /\ Top.op # "yield" THEN stray \union {Top.op} ELSE stray
    /\ UNCHANGED <<handlers, readBuf, requests, alive, toBroker, toClient, broker, done,
                   promised>>

\* One round of aws_iot_mqtt_internal_cycle_read.
ReadPacket ==
    /\ Waiting
    /\ toClient # <<>>
    /\ readBuf' = Head(toClient)
    /\ toClient' = Tail(toClient)
    /\ UNCHANGED <<requests, alive, toBroker, broker>>

Awaited(p) == Top.op \in Kinds /\ p.type = AckOf(Top.op)

\* A mutant of ReadOther: whatever is read ends the wait.
ReadOtherEnds ==
    /\ ReadPacket
    /\ readBuf'.type # "PUBLISH"
    /\ ~Awaited(readBuf')
    /\ Top.op \in Kinds
    /\ done' = Packet(Top.op, Top.id, Top.topic)
    /\ stack' = Below
    /\ UNCHANGED <<handlers, promised, stray>>

\* An acknowledgement that nobody here waits for is lost.
ReadOther ==
    /\ ReadPacket
    /\ readBuf'.type # "PUBLISH"
    /\ ~Awaited(readBuf')
    /\ UNCHANGED <<stack, handlers, history>>

\* The end of the request: subscribe fills its slot, unsubscribe clears every
\* slot of the topic.
ReadAck ==
    /\ ReadPacket
    /\ Awaited(readBuf')
    /\ handlers' = [s \in Slots |->
                      IF Top.op = "subscribe" /\ s = Top.slot THEN Top.topic
                      ELSE IF Top.op = "unsubscribe" /\ handlers[s] = Top.topic THEN NoTopic
                      ELSE handlers[s]]
    /\ promised' = CASE Top.op = "subscribe" ->
                          (IF Top.shared THEN promised \ {handlers[Top.slot]} ELSE promised)
                            \union {Top.topic}
                     [] Top.op = "unsubscribe" -> promised \ {Top.topic}
                     [] OTHER -> promised
    /\ done' = Packet(Top.op, Top.id, Top.topic)
    /\ stack' = Below
    /\ UNCHANGED stray
-----------------------------------------------------------------------------
(* Deliveries                                                              *)

ReadMessage ==
    /\ ReadPacket
    /\ readBuf'.type = "PUBLISH"
    /\ Len(stack) < MaxDepth
    /\ stack' = Append(stack, [op |-> "deliver", msg |-> readBuf', itr |-> 1, calling |-> FALSE,
                               called |-> {}, dirty |-> FALSE])
    /\ UNCHANGED <<handlers, history>>

\* Step of the loop of _aws_iot_mqtt_internal_deliver_message.  The topic it
\* compares with lies in readBuf.
CallHandler ==
    /\ Delivering
    /\ ~Top.calling
    /\ Top.itr <= NumHandlers
    /\ handlers[Top.itr] # NoTopic
    /\ handlers[Top.itr] = readBuf.topic
    /\ stack' = Replace([Top EXCEPT !.calling = TRUE, !.called = @ \union {Top.itr}])
    /\ UNCHANGED <<handlers, readBuf, requests, alive, toBroker, toClient, broker, history>>

SkipHandler ==
    /\ Delivering
    /\ ~Top.calling
    /\ Top.itr <= NumHandlers
    /\ handlers[Top.itr] = NoTopic \/ handlers[Top.itr] # readBuf.topic
    /\ stack' = Replace([Top EXCEPT !.itr = @ + 1])
    /\ UNCHANGED <<handlers, readBuf, requests, alive, toBroker, toClient, broker, history>>

\* A mutant of HandlerReturns: the first matching handler ends the loop.
HandlerReturnsLast ==
    /\ Delivering
    /\ Top.calling
    /\ stack' = Replace([Top EXCEPT !.itr = NumHandlers + 1, !.calling = FALSE])
    /\ UNCHANGED <<handlers, readBuf, requests, alive, toBroker, toClient, broker, history>>

HandlerReturns ==
    /\ Delivering
    /\ Top.calling
    /\ stack' = Replace([Top EXCEPT !.itr = @ + 1, !.calling = FALSE])
    /\ UNCHANGED <<handlers, readBuf, requests, alive, toBroker, toClient, broker, history>>

\* _aws_iot_mqtt_internal_handle_publish acknowledges the message at the end.
FinishDelivery ==
    /\ Delivering
    /\ ~Top.calling
    /\ Top.itr > NumHandlers
    /\ stack' = Below
    /\ toBroker' = IF alive THEN Append(toBroker, Packet("PUBACK", Top.msg.id, NoTopic))
                   ELSE toBroker
    /\ UNCHANGED <<handlers, readBuf, requests, alive, toClient, broker, history>>
-----------------------------------------------------------------------------
Next ==
    \/ BrokerActs \/ SessionDies \/ NewSession
    \/ \E t \in Topics : BrokerSends(t) \/ Publish(t) \/ Subscribe(t) \/ Unsubscribe(t)
    \/ Yield \/ GiveUp \/ ReadOther \/ ReadAck
    \/ ReadMessage \/ CallHandler \/ SkipHandler \/ HandlerReturns \/ FinishDelivery

Spec == Init /\ [][Next]_vars
-----------------------------------------------------------------------------
(* Properties                                                              *)

\* Every variable stays in its declared range; a subscribe that waits has a slot.
TypeOK ==
    /\ Len(stack) \in 0..MaxDepth
    /\ \A i \in DOMAIN stack : stack[i].op = "subscribe" => stack[i].slot \in Slots
    /\ handlers \in [Slots -> Topics \union {NoTopic}]
    /\ requests \in 0..MaxRequests
    /\ alive \in BOOLEAN
    /\ messages \in 0..MaxMessages
    /\ subscriptions \subseteq Topics
    /\ processed \subseteq 1..MaxRequests
    /\ acknowledged \subseteq 1..MaxMessages
    /\ promised \subseteq Topics
    /\ stray \subseteq Kinds

\* A request that returned SUCCESS was acted on by the broker, as long as no
\* request of its kind has given up with its acknowledgement on the way or was
\* made by a handler during another one; a new session ends the confusion for
\* the requests that follow.
AckIsOwn == [][done' # done => done'.id \in processed \/ done'.type \in stray]_vars

\* A handler that was promised stays in the table until it is unsubscribed,
\* whatever handlers subscribe and unsubscribe meanwhile, unless a handler
\* subscribes while a subscribe waits.
PromisedHandlersKept == promised \subseteq {handlers[s] : s \in Slots}

\* A message is acknowledged only after it was handed to every handler of its
\* topic, and to no other, unless one of them made a request and thereby
\* overwrote it.
DeliveredToAll ==
    [][\A m \in 1..MaxMessages :
         Delivering /\ Top.msg.id = m /\ Len(stack') < Len(stack) /\ ~Top.dirty
           => Top.called = {s \in Slots : handlers[s] = Top.msg.topic}]_vars
=============================================================================
