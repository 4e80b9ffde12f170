--------------------------- MODULE Requests_proofs ---------------------------
(***************************************************************************)
(* What holds of requests and deliveries for every number of topics,       *)
(* handlers, nested calls and messages: ranges, the handlers promised,     *)
(* whose acknowledgement ends a request, and to whom a message is handed.  *)
(***************************************************************************)
EXTENDS Requests, SequenceTheorems, TLAPS

AckTypes == {"PUBACK", "SUBACK", "UNSUBACK"}
Asked == [type : Kinds, id : 1..MaxRequests, topic : Topics]
Answered == [type : AckTypes, id : 1..MaxRequests, topic : {NoTopic}]
Messages == [type : {"PUBLISH"}, id : 1..MaxMessages, topic : Topics]
MessageAcks == [type : {"PUBACK"}, id : 1..MaxMessages, topic : {NoTopic}]

ToBroker == Asked \union MessageAcks
ToClient == Answered \union Messages

Calls == [op : Kinds \union {"yield"}, topic : Topics \union {NoTopic}, id : 0..MaxRequests,
          slot : 0..NumHandlers, shared : BOOLEAN]
Loops == [op : {"deliver"}, msg : Messages, itr : 1..NumHandlers + 1, calling : BOOLEAN,
          called : SUBSET Slots, dirty : BOOLEAN]
Deliveries == {d \in Loops : d.calling => d.itr \in Slots}
Frames == Calls \union Deliveries

\* A request has a topic, and a subscribe a slot.
StackOK(st) ==
    /\ st \in Seq(Frames)
    /\ Len(st) <= MaxDepth
    /\ \A i \in DOMAIN st :
         /\ st[i].op \in Kinds => st[i].topic \in Topics
         /\ st[i].op = "subscribe" => st[i].slot \in Slots

\* The ranges of the frames and of the packets.
FramesOK ==
    /\ StackOK(stack)
    /\ toBroker \in Seq(ToBroker)
    /\ toClient \in Seq(ToClient)
    /\ ~alive => toBroker = <<>> /\ toClient = <<>>

TypeInv == TypeOK /\ FramesOK

\* Calls of one kind are nested only where the outer one is marked, and a
\* subscribe that is not keeps its slot empty.
PromiseInv ==
    /\ PromisedHandlersKept
    /\ \A i, j \in DOMAIN stack :
         i < j /\ stack[i].op = "subscribe" /\ stack[j].op = "subscribe" => stack[i].shared
    /\ \A i \in DOMAIN stack :
         stack[i].op = "subscribe" /\ ~stack[i].shared => handlers[stack[i].slot] = NoTopic

\* Someone waits for the acknowledgement of the request.
InWait(op, id) == \E i \in DOMAIN stack : stack[i].op = op /\ stack[i].id = id

\* Unless an acknowledgement of its kind is astray, there is one request of a
\* kind at a time, and it is on its way, or its acknowledgement is, or neither.
OneAtATime(k) ==
    /\ \A i, j \in DOMAIN stack : stack[i].op = k /\ stack[j].op = k => i = j
    /\ \A a, b \in DOMAIN toBroker : toBroker[a].type = k /\ toBroker[b].type = k => a = b
    /\ \A a, b \in DOMAIN toClient :
         toClient[a].type = AckOf(k) /\ toClient[b].type = AckOf(k) => a = b
    /\ \A a \in DOMAIN toBroker, b \in DOMAIN toClient :
         ~(toBroker[a].type = k /\ toClient[b].type = AckOf(k))
    /\ \A a \in DOMAIN toBroker : toBroker[a].type = k => InWait(k, toBroker[a].id)
    /\ \A a \in DOMAIN toClient :
         toClient[a].type = AckOf(k) => InWait(k, toClient[a].id) /\ toClient[a].id \in processed

AckInv == \A k \in Kinds \ stray : OneAtATime(k)

\* A delivery in which no handler made a request is the innermost one, still
\* reads its own message, and has called the handlers of the topic so far.
Passed(frame) == IF frame.calling THEN 1..frame.itr ELSE 1..frame.itr - 1

DeliveryInv ==
    \A i \in DOMAIN stack :
      stack[i].op = "deliver" /\ ~stack[i].dirty =>
        /\ i = Len(stack)
        /\ readBuf = stack[i].msg
        /\ stack[i].called = {s \in Passed(stack[i]) : handlers[s] = stack[i].msg.topic}

----------------------------------------------------------------------------
(* Calls and deliveries in progress, and the packets on their way.         *)

\* What a request waits for is told by its kind, and only by that.
LEMMA AckKinds ==
    /\ \A k \in Kinds : AckOf(k) \in AckTypes
    /\ \A k, l \in Kinds : AckOf(k) = AckOf(l) => k = l
BY DEF Kinds, AckTypes, AckOf

LEMMA FrameFacts ==
    /\ \A f \in Calls : f.op \in Kinds \union {"yield"} /\ f.op # "deliver"
                        /\ f.slot \in 0..NumHandlers /\ f.id \in 0..MaxRequests
                        /\ f.topic \in Topics \union {NoTopic}
    /\ \A f \in Deliveries : f.op = "deliver" /\ f.op \notin Kinds
    /\ \A f \in Frames : IF f.op = "deliver" THEN f \in Deliveries ELSE f \in Calls
BY DEF Calls, Loops, Deliveries, Frames, Kinds

LEMMA MarkedFrames ==
    ASSUME stack \in Seq(Frames), NEW op \in Kinds
    PROVE  /\ Marked(op) \in Seq(Frames)
           /\ Len(Marked(op)) = Len(stack)
           /\ \A i \in DOMAIN stack :
                /\ Marked(op)[i].op = stack[i].op
                /\ stack[i].op = "deliver" => Marked(op)[i].dirty
                /\ stack[i].op # "deliver" =>
                     /\ Marked(op)[i].id = stack[i].id
                     /\ Marked(op)[i].topic = stack[i].topic
                     /\ Marked(op)[i].slot = stack[i].slot
                     /\ stack[i].shared \/ stack[i].op = op => Marked(op)[i].shared
                     /\ stack[i].op # op => Marked(op)[i] = stack[i]
<1>1. \A i \in DOMAIN stack : stack[i] \in Frames
  BY ElementOfSeq
<1>2. DOMAIN stack = 1..Len(stack) /\ Len(stack) \in Nat
  OBVIOUS
<1>3. ASSUME NEW i \in DOMAIN stack
      PROVE  /\ Marked(op)[i] \in Frames
             /\ Marked(op)[i].op = stack[i].op
             /\ stack[i].op = "deliver" => Marked(op)[i].dirty
             /\ stack[i].op # "deliver" =>
                  /\ Marked(op)[i].id = stack[i].id
                  /\ Marked(op)[i].topic = stack[i].topic
                  /\ Marked(op)[i].slot = stack[i].slot
                  /\ stack[i].shared \/ stack[i].op = op => Marked(op)[i].shared
                  /\ stack[i].op # op => Marked(op)[i] = stack[i]
  <2>1. stack[i] \in Frames
    BY <1>1
  <2>2. CASE stack[i].op = "deliver"
    <3>1. stack[i] \in Deliveries
      BY <2>1, <2>2, FrameFacts
    <3>2. Marked(op)[i] = [stack[i] EXCEPT !.dirty = TRUE]
      BY <2>2 DEF Marked, Kinds
    <3>3. Marked(op)[i] \in Deliveries /\ Marked(op)[i].dirty
      BY <3>1, <3>2 DEF Deliveries, Loops
    <3> QED
      BY <2>2, <3>3, FrameFacts DEF Frames
  <2>3. CASE stack[i].op # "deliver"
    <3>1. stack[i] \in Calls
      BY <2>1, <2>3, FrameFacts
    <3>2. CASE stack[i].op = op
      <4>1. Marked(op)[i] = [stack[i] EXCEPT !.shared = TRUE]
        BY <2>3, <3>2 DEF Marked
      <4>2. Marked(op)[i] \in Calls /\ Marked(op)[i].shared
            /\ \A x \in {"op", "id", "topic", "slot"} : Marked(op)[i][x] = stack[i][x]
        BY <3>1, <4>1 DEF Calls
      <4> QED
        BY <2>3, <3>2, <4>2 DEF Frames
    <3>3. CASE stack[i].op # op
      <4>1. Marked(op)[i] = stack[i]
        BY <2>3, <3>3 DEF Marked
      <4> QED
        BY <2>1, <2>3, <3>3, <4>1
    <3> QED BY <3>2, <3>3
  <2> QED BY <2>2, <2>3
<1>4. Marked(op) \in [1..Len(stack) -> Frames]
  BY <1>2, <1>3 DEF Marked
<1>5. Marked(op) \in Seq(Frames) /\ Len(Marked(op)) = Len(stack)
  BY <1>2, <1>4, SeqDef
<1> QED BY <1>3, <1>5

LEMMA Innermost ==
    ASSUME stack \in Seq(Frames), stack # <<>>
    PROVE  /\ Top \in Frames
           /\ Len(stack) \in Nat \ {0} /\ Len(stack) \in DOMAIN stack /\ Top = stack[Len(stack)]
           /\ Below \in Seq(Frames) /\ Len(Below) = Len(stack) - 1
           /\ \A i \in 1..Len(stack) - 1 : Below[i] = stack[i]
<1>1. Len(stack) \in Nat \ {0} /\ Len(stack) \in DOMAIN stack
  BY EmptySeq
<1>2. Top \in Frames
  BY <1>1, ElementOfSeq DEF Top
<1>3. Below \in Seq(Frames) /\ Len(Below) = Len(stack) - 1 /\ \A i \in 1..Len(stack) - 1 : Below[i] = stack[i]
  <2> DEFINE n == Len(stack) - 1
  <2>1. n \in Int /\ \A i \in 1..n : stack[i] \in Frames
    BY <1>1, ElementOfSeq
  <2> HIDE DEF n
  <2>2. /\ SubSeq(stack, 1, n) \in Seq(Frames)
        /\ Len(SubSeq(stack, 1, n)) = IF 1 <= n THEN n - 1 + 1 ELSE 0
        /\ \A i \in 1..n - 1 + 1 : SubSeq(stack, 1, n)[i] = stack[1 + i - 1]
    BY <2>1, SubSeqProperties
  <2>3. n \in Nat /\ n - 1 + 1 = n /\ n = Len(stack) - 1 /\ \A i \in 1..n : 1 + i - 1 = i
    BY <1>1 DEF n
  <2>4. Len(SubSeq(stack, 1, n)) = n /\ \A i \in 1..n : SubSeq(stack, 1, n)[i] = stack[i]
    BY <2>2, <2>3
  <2> QED BY <2>2, <2>3, <2>4 DEF Below
<1> QED BY <1>1, <1>2, <1>3 DEF Top

\* The innermost frame is replaced by another.
LEMMA Replaced ==
    ASSUME stack \in Seq(Frames), stack # <<>>, NEW frame \in Frames
    PROVE  /\ Replace(frame) \in Seq(Frames)
           /\ Len(Replace(frame)) = Len(stack)
           /\ \A i \in 1..Len(stack) : Replace(frame)[i] = IF i = Len(stack) THEN frame ELSE stack[i]
BY Innermost DEF Replace

\* The oldest packet is taken.
LEMMA Taken ==
    ASSUME NEW S, NEW seq \in Seq(S), seq # <<>>
    PROVE  /\ Head(seq) \in S /\ Head(seq) = seq[1] /\ 1 \in DOMAIN seq
           /\ Tail(seq) \in Seq(S)
           /\ \A i \in DOMAIN Tail(seq) : i + 1 \in DOMAIN seq /\ i + 1 # 1 /\ Tail(seq)[i] = seq[i + 1]
<1>1. Len(seq) \in Nat \ {0} /\ DOMAIN seq = 1..Len(seq)
  BY EmptySeq
<1>2. Head(seq) = seq[1] /\ 1 \in DOMAIN seq /\ seq[1] \in S
  BY <1>1, ElementOfSeq
<1>3. Tail(seq) \in Seq(S) /\ Len(Tail(seq)) = Len(seq) - 1 /\ \A i \in 1..Len(seq) - 1 : Tail(seq)[i] = seq[i + 1]
  BY <1>1
<1>4. DOMAIN Tail(seq) = 1..Len(seq) - 1
  BY <1>3
<1> QED BY <1>1, <1>2, <1>3, <1>4

\* A packet is sent.
LEMMA Sent ==
    ASSUME NEW S, NEW seq \in Seq(S), NEW p \in S
    PROVE  /\ Append(seq, p) \in Seq(S)
           /\ Len(Append(seq, p)) = Len(seq) + 1 /\ Len(seq) \in Nat
           /\ \A i \in DOMAIN Append(seq, p) :
                IF i \in DOMAIN seq THEN Append(seq, p)[i] = seq[i]
                ELSE i = Len(seq) + 1 /\ Append(seq, p)[i] = p
<1>1. Len(seq) \in Nat /\ DOMAIN seq = 1..Len(seq)
  OBVIOUS
<1>2. /\ Append(seq, p) \in Seq(S) /\ Len(Append(seq, p)) = Len(seq) + 1
      /\ \A i \in 1..Len(seq) : Append(seq, p)[i] = seq[i]
      /\ Append(seq, p)[Len(seq) + 1] = p
  OBVIOUS
<1>3. DOMAIN Append(seq, p) = 1..Len(seq) + 1
  BY <1>2
<1> QED BY <1>1, <1>2, <1>3

----------------------------------------------------------------------------
(* Type correctness.                                                       *)

LEMMA InitTypeInv == Init => TypeInv
<1> SUFFICES ASSUME Init PROVE TypeInv
  OBVIOUS
<1>1. stack = <<>> /\ toBroker = <<>> /\ toClient = <<>> /\ DOMAIN stack = {} /\ Len(stack) = 0
  BY DEF Init
<1>2. FramesOK
  BY <1>1, EmptySeq, RequestsAssumption DEF FramesOK, StackOK
<1>3. alive \in BOOLEAN
  BY Zenon DEF Init
<1> QED
  BY <1>1, <1>2, <1>3, RequestsAssumption DEF Init, TypeInv, TypeOK, Slots

LEMMA StackRange == ASSUME NEW st, StackOK(st)
                    PROVE  /\ Len(st) \in 0..MaxDepth
                           /\ \A i \in DOMAIN st : st[i].op = "subscribe" => st[i].slot \in Slots
<1>1. Len(st) \in Nat /\ Len(st) <= MaxDepth
  BY DEF StackOK
<1>2. \A i \in DOMAIN st : st[i].op = "subscribe" => st[i].slot \in Slots
  BY DEF StackOK
<1> QED BY <1>1, <1>2, RequestsAssumption

LEMMA PoppedOK == ASSUME StackOK(stack), stack # <<>>
                  PROVE  StackOK(Below)
<1>1. /\ Below \in Seq(Frames) /\ Len(Below) = Len(stack) - 1 /\ Len(stack) \in Nat \ {0}
      /\ \A i \in 1..Len(stack) - 1 : Below[i] = stack[i]
  BY Innermost DEF StackOK
<1>2. DOMAIN Below = 1..Len(stack) - 1 /\ DOMAIN stack = 1..Len(stack)
  BY <1>1
<1> QED
  BY <1>1, <1>2, RequestsAssumption DEF StackOK

LEMMA ReplacedOK == ASSUME StackOK(stack), stack # <<>>, NEW frame \in Deliveries
                    PROVE  StackOK(Replace(frame))
<1>1. /\ Replace(frame) \in Seq(Frames) /\ Len(Replace(frame)) = Len(stack)
      /\ \A i \in 1..Len(stack) : Replace(frame)[i] = IF i = Len(stack) THEN frame ELSE stack[i]
  BY Replaced DEF StackOK, Frames
<1>2. DOMAIN Replace(frame) = 1..Len(stack) /\ DOMAIN stack = 1..Len(stack)
  BY <1>1 DEF StackOK
<1>3. frame.op = "deliver" /\ frame.op \notin Kinds
  BY FrameFacts
<1> QED
  BY <1>1, <1>2, <1>3 DEF StackOK

LEMMA PushedOK == ASSUME NEW st, StackOK(st), Len(st) < MaxDepth, NEW frame \in Frames,
                         frame.op \in Kinds => frame.topic \in Topics,
                         frame.op = "subscribe" => frame.slot \in Slots
                  PROVE  StackOK(Append(st, frame))
<1>1. /\ Append(st, frame) \in Seq(Frames)
      /\ Len(Append(st, frame)) = Len(st) + 1 /\ Len(st) \in Nat
      /\ \A i \in DOMAIN Append(st, frame) :
           IF i \in DOMAIN st THEN Append(st, frame)[i] = st[i]
           ELSE i = Len(st) + 1 /\ Append(st, frame)[i] = frame
  BY Sent DEF StackOK
<1> QED
  BY <1>1, RequestsAssumption DEF StackOK

LEMMA MarkedOK == ASSUME StackOK(stack), NEW op \in Kinds
                  PROVE  StackOK(Marked(op)) /\ Len(Marked(op)) = Len(stack)
<1>1. stack \in Seq(Frames) /\ DOMAIN stack = 1..Len(stack)
  BY DEF StackOK
<1>2. Marked(op) \in Seq(Frames) /\ Len(Marked(op)) = Len(stack)
  BY <1>1, MarkedFrames
<1>3. DOMAIN Marked(op) = DOMAIN stack
  BY <1>1, <1>2
<1>4. \A i \in DOMAIN stack :
        /\ Marked(op)[i].op = stack[i].op
        /\ stack[i].op # "deliver" => Marked(op)[i].topic = stack[i].topic /\ Marked(op)[i].slot = stack[i].slot
  BY <1>1, MarkedFrames
<1> QED
  BY <1>2, <1>3, <1>4 DEF StackOK, Kinds

\* A call is pushed with the number it was given.
LEMMA RequestTypeInv ==
    ASSUME TypeInv, NEW op \in Kinds, NEW t \in Topics, NEW slot \in 0..NumHandlers,
           op = "subscribe" => slot \in Slots, Request(op, t, slot)
    PROVE  TypeInv'
<1> DEFINE frame == Call(op, t, requests', slot)
<1>1. requests' \in 1..MaxRequests /\ requests' = requests + 1
  BY RequestsAssumption DEF Request, TypeInv, TypeOK
<1>2. frame \in Calls /\ frame.op = op /\ frame.topic = t /\ frame.slot = slot
  BY <1>1 DEF Call, Calls
<1>3. StackOK(stack')
  <2>1. StackOK(Marked(op)) /\ Len(Marked(op)) = Len(stack)
    BY MarkedOK DEF TypeInv, FramesOK
  <2>2. StackOK(Append(Marked(op), frame))
    <3> HIDE DEF frame
    <3> QED BY <1>2, <2>1, PushedOK DEF Request, Frames
  <2> QED BY <2>2 DEF Request
<1>4. toBroker' \in Seq(ToBroker) /\ (~alive => toBroker' = toBroker)
  <2>1. Packet(op, requests', t) \in ToBroker
    BY <1>1 DEF Packet, ToBroker, Asked
  <2> QED BY <2>1, Sent DEF Request, TypeInv, FramesOK
<1>5. FramesOK'
  BY <1>3, <1>4 DEF Request, TypeInv, FramesOK, broker
<1>6. stray' \subseteq Kinds
  BY DEF Request, TypeInv, TypeOK
<1>7. alive' \in BOOLEAN
  BY Zenon DEF Request, TypeInv, TypeOK
<1>8. Len(stack)' \in 0..MaxDepth /\ (\A i \in DOMAIN stack : stack[i].op = "subscribe" => stack[i].slot \in Slots)'
  BY <1>3, StackRange
<1> QED
  BY <1>1, <1>5, <1>6, <1>7, <1>8 DEF Request, TypeInv, TypeOK, broker

\* A delivery begins with a message that was read.
LEMMA MessageRead ==
    ASSUME toClient \in Seq(ToClient), ReadMessage
    PROVE  /\ readBuf' \in Messages
           /\ \E frame \in Deliveries :
                /\ stack' = Append(stack, frame)
                /\ frame.msg = readBuf' /\ frame.itr = 1 /\ ~frame.calling /\ frame.called = {}
<1> DEFINE frame == [op |-> "deliver", msg |-> readBuf', itr |-> 1, calling |-> FALSE,
                     called |-> {}, dirty |-> FALSE]
<1>1. readBuf' \in ToClient
  BY Taken DEF ReadMessage, ReadPacket
<1>2. readBuf' \in Messages
  BY <1>1 DEF ReadMessage, ToClient, Answered, Messages, AckTypes
<1>3. frame \in Deliveries /\ stack' = Append(stack, frame)
  BY <1>2, RequestsAssumption DEF ReadMessage, Deliveries, Loops
<1>4. frame.msg = readBuf' /\ frame.itr = 1 /\ ~frame.calling /\ frame.called = {}
  OBVIOUS
<1> HIDE DEF frame
<1> QED BY <1>2, <1>3, <1>4

\* A step of the loop over the handlers leaves the frame a delivery.
LEMMA LoopStep ==
    ASSUME stack \in Seq(Frames), CallHandler \/ SkipHandler \/ HandlerReturns
    PROVE  \E frame \in Deliveries : stack' = Replace(frame)
<1>1. Top \in Loops /\ (Top.calling => Top.itr \in Slots)
  BY Innermost, FrameFacts DEF CallHandler, SkipHandler, HandlerReturns, Delivering, Deliveries
<1>2. CASE CallHandler
  <2>1. Top.itr \in Slots
    BY <1>1, <1>2, RequestsAssumption DEF CallHandler, Loops, Slots
  <2>2. [Top EXCEPT !.calling = TRUE, !.called = @ \union {Top.itr}] \in Deliveries
    BY <1>1, <2>1 DEF Deliveries, Loops
  <2> QED BY <1>2, <2>2 DEF CallHandler
<1>3. CASE SkipHandler
  <2>1. [Top EXCEPT !.itr = @ + 1] \in Deliveries
    BY <1>1, <1>3, RequestsAssumption DEF SkipHandler, Deliveries, Loops, Slots
  <2> QED BY <1>3, <2>1 DEF SkipHandler
<1>4. CASE HandlerReturns
  <2>1. Top.itr + 1 \in 1..NumHandlers + 1
    BY <1>1, <1>4, RequestsAssumption DEF HandlerReturns, Slots
  <2>2. [Top EXCEPT !.itr = @ + 1, !.calling = FALSE] \in Deliveries
    BY <1>1, <2>1 DEF Deliveries, Loops
  <2> QED BY <1>4, <2>2 DEF HandlerReturns
<1> QED BY <1>2, <1>3, <1>4

LEMMA NextTypeInv == TypeInv /\ [Next]_vars => TypeInv'
<1> SUFFICES ASSUME TypeInv, [Next]_vars PROVE TypeInv'
  OBVIOUS
<1>a. StackOK(stack) /\ stack \in Seq(Frames) /\ toBroker \in Seq(ToBroker) /\ toClient \in Seq(ToClient)
      /\ (~alive => toBroker = <<>> /\ toClient = <<>>)
  BY DEF TypeInv, FramesOK, StackOK
<1>b. alive \in BOOLEAN
  BY Zenon DEF TypeInv, TypeOK
<1>c. ASSUME StackOK(stack') PROVE (Len(stack) \in 0..MaxDepth
            /\ \A i \in DOMAIN stack : stack[i].op = "subscribe" => stack[i].slot \in Slots)'
  BY <1>c, StackRange
<1>1. CASE BrokerActs
  <2> DEFINE p == Head(toBroker)
             ack == Packet(AckOf(p.type), p.id, NoTopic)
  <2>1. p \in ToBroker /\ Tail(toBroker) \in Seq(ToBroker)
    BY <1>1, <1>a, Taken DEF BrokerActs
  <2>2. CASE p.type = "PUBACK" /\ acknowledged' = acknowledged \union {p.id}
             /\ UNCHANGED <<toClient, processed, subscriptions>>
    <3>1. p.id \in 1..MaxMessages
      BY <2>1, <2>2 DEF ToBroker, Asked, MessageAcks, Kinds
    <3> QED
      BY <1>1, <2>1, <2>2, <3>1 DEF BrokerActs, TypeInv, FramesOK, TypeOK, history
  <2>3. CASE /\ p.type \in Kinds
             /\ processed' = processed \union {p.id}
             /\ toClient' = Append(toClient, ack)
             /\ subscriptions' = CASE p.type = "subscribe" -> subscriptions \union {p.topic}
                                   [] p.type = "unsubscribe" -> subscriptions \ {p.topic}
                                   [] OTHER -> subscriptions
             /\ UNCHANGED acknowledged
    <3>1. p \in Asked
      BY <2>1, <2>3 DEF ToBroker, Asked, MessageAcks, Kinds
    <3>2. p.id \in 1..MaxRequests /\ p.topic \in Topics /\ AckOf(p.type) \in AckTypes
      BY <2>3, <3>1, AckKinds DEF Asked
    <3>3. ack \in ToClient
      BY <3>2 DEF Packet, ToClient, Answered
    <3>4. toClient' \in Seq(ToClient)
      <4> HIDE DEF ack
      <4> QED BY <1>a, <2>3, <3>3, Sent
    <3>5. subscriptions' \subseteq Topics
      BY <2>3, <3>2 DEF TypeInv, TypeOK
    <3>6. alive /\ alive' = alive
      BY <1>1 DEF BrokerActs
    <3>7. FramesOK'
      BY <1>1, <1>a, <2>1, <3>4, <3>6 DEF BrokerActs, FramesOK
    <3> QED
      BY <1>1, <2>3, <3>2, <3>5, <3>7 DEF BrokerActs, TypeInv, TypeOK, history
  <2> QED BY <1>1, <2>2, <2>3 DEF BrokerActs
<1>2. CASE SessionDies
  <2>1. toBroker' \in Seq(ToBroker) /\ toClient' \in Seq(ToClient) /\ alive' \in BOOLEAN
    BY <1>2, EmptySeq DEF SessionDies
  <2> QED
    BY <1>2, <2>1 DEF SessionDies, TypeInv, FramesOK, TypeOK, history
<1>3. CASE NewSession
  <2>1. alive' \in BOOLEAN
    BY <1>3 DEF NewSession
  <2>2. FramesOK'
    BY <1>3, <1>a DEF NewSession, FramesOK
  <2> QED
    BY <1>3, <2>1, <2>2 DEF NewSession, TypeInv, TypeOK, broker
<1>4. ASSUME NEW t \in Topics, BrokerSends(t) PROVE TypeInv'
  <2>1. messages' \in 1..MaxMessages
    BY <1>4, RequestsAssumption DEF BrokerSends, TypeInv, TypeOK
  <2>2. Packet("PUBLISH", messages', t) \in ToClient
    BY <2>1 DEF Packet, ToClient, Messages
  <2>3. toClient' \in Seq(ToClient)
    BY <1>4, <1>a, <2>2, Sent DEF BrokerSends
  <2>4. FramesOK'
    BY <1>4, <1>a, <2>3 DEF BrokerSends, FramesOK
  <2> QED
    BY <1>4, <1>b, <2>1, <2>4, RequestsAssumption DEF BrokerSends, TypeInv, TypeOK, history
<1>5. ASSUME NEW t \in Topics, Publish(t) PROVE TypeInv'
  BY <1>5, RequestTypeInv, RequestsAssumption DEF Publish, Kinds
<1>6. ASSUME NEW t \in Topics, Subscribe(t) PROVE TypeInv'
  <2>1. PICK f \in Slots : Request("subscribe", t, f)
    BY <1>6 DEF Subscribe
  <2>2. f \in 0..NumHandlers
    BY RequestsAssumption DEF Slots
  <2> QED
    BY <2>1, <2>2, RequestTypeInv DEF Kinds
<1>7. ASSUME NEW t \in Topics, Unsubscribe(t) PROVE TypeInv'
  BY <1>7, RequestTypeInv, RequestsAssumption DEF Unsubscribe, Kinds
<1>8. CASE Yield
  <2> DEFINE frame == Call("yield", NoTopic, 0, 0)
  <2>1. frame \in Calls /\ frame.op = "yield" /\ frame.op \notin Kinds
    BY RequestsAssumption DEF Call, Calls, Kinds
  <2>2. StackOK(stack) /\ Len(stack) = 0 /\ Len(stack) < MaxDepth
    BY <1>8, <1>a, RequestsAssumption DEF Yield
  <2>3. stack' = Append(stack, frame)
    BY <1>8 DEF Yield
  <2>4. StackOK(stack')
    <3>1. frame \in Frames /\ frame.op # "subscribe"
      BY <2>1 DEF Frames
    <3> HIDE DEF frame
    <3> QED BY <2>1, <2>2, <2>3, <3>1, PushedOK
  <2> QED
    BY <1>8, <1>b, <1>c, <2>4 DEF Yield, TypeInv, FramesOK, TypeOK, broker, history
<1>9. CASE GiveUp
  <2>1. StackOK(stack')
    BY <1>9, <1>a, PoppedOK DEF GiveUp, Waiting
  <2>2. Top \in Calls
    BY <1>9, <1>a, Innermost, FrameFacts DEF GiveUp, Waiting
  <2>3. stray' \subseteq Kinds
    BY <1>9, <2>2, FrameFacts DEF GiveUp, TypeInv, TypeOK
  <2> QED
    BY <1>9, <1>b, <1>c, <2>1, <2>3 DEF GiveUp, TypeInv, FramesOK, TypeOK, broker
<1>10. ASSUME ReadPacket
       PROVE  readBuf' \in ToClient /\ toClient' \in Seq(ToClient) /\ alive' = alive /\ alive
  BY <1>10, <1>a, <1>b, Taken DEF ReadPacket
<1>11. CASE ReadOther
  BY <1>11, <1>10, <1>b DEF ReadOther, ReadPacket, TypeInv, FramesOK, TypeOK, broker, history
<1>12. CASE ReadAck
  <2>1. ReadPacket /\ StackOK(stack')
    BY <1>12, <1>a, PoppedOK DEF ReadAck, ReadPacket, Waiting
  <2>2. Top.topic \in Topics
    <3>1. Len(stack) \in DOMAIN stack /\ Top = stack[Len(stack)] /\ Top.op \in Kinds
      BY <1>12, <1>a, Innermost DEF ReadAck, Awaited, ReadPacket, Waiting
    <3> QED BY <3>1, <1>a DEF StackOK
  <2>3. handlers' \in [Slots -> Topics \union {NoTopic}]
    BY <1>12, <2>2 DEF ReadAck, TypeInv, TypeOK
  <2>4. promised' \subseteq Topics
    BY <1>12, <2>2 DEF ReadAck, TypeInv, TypeOK
  <2>5. FramesOK'
    BY <2>1, <1>10, <1>a DEF ReadPacket, FramesOK
  <2> QED
    BY <1>12, <1>10, <1>b, <1>c, <2>1, <2>3, <2>4, <2>5 DEF ReadAck, ReadPacket, TypeInv, TypeOK, broker
<1>13. CASE ReadMessage
  <2>1. PICK frame \in Deliveries : stack' = Append(stack, frame)
    BY <1>13, <1>a, MessageRead
  <2>2. ReadPacket /\ frame \in Frames /\ frame.op \notin Kinds /\ frame.op # "subscribe"
    BY <1>13, FrameFacts DEF ReadMessage, Frames
  <2>3. StackOK(stack')
    BY <1>13, <1>a, <2>1, <2>2, PushedOK DEF ReadMessage
  <2>4. FramesOK'
    BY <2>2, <2>3, <1>10, <1>a DEF ReadPacket, FramesOK
  <2> QED
    BY <1>13, <1>10, <1>b, <1>c, <2>2, <2>3, <2>4 DEF ReadMessage, ReadPacket, TypeInv, TypeOK, broker, history
<1>14. ASSUME Delivering PROVE Top \in Deliveries /\ stack # <<>>
  BY <1>14, <1>a, Innermost, FrameFacts DEF Delivering
<1>15. CASE CallHandler \/ SkipHandler \/ HandlerReturns
  <2>1. PICK frame \in Deliveries : stack' = Replace(frame)
    BY <1>15, <1>a, LoopStep
  <2>2. stack # <<>> /\ UNCHANGED <<handlers, readBuf, requests, alive, toBroker, toClient, broker, history>>
    BY <1>15 DEF CallHandler, SkipHandler, HandlerReturns, Delivering
  <2>3. StackOK(stack')
    BY <1>a, <2>1, <2>2, ReplacedOK
  <2> QED
    BY <2>2, <1>b, <1>c, <2>3 DEF TypeInv, FramesOK, TypeOK, broker, history
<1>16. CASE FinishDelivery
  <2>1. Top \in Deliveries /\ StackOK(stack')
    BY <1>16, <1>14, <1>a, PoppedOK DEF FinishDelivery
  <2>2. Packet("PUBACK", Top.msg.id, NoTopic) \in ToBroker
    BY <2>1 DEF Packet, ToBroker, MessageAcks, Deliveries, Loops, Messages
  <2>3. toBroker' \in Seq(ToBroker) /\ (~alive => toBroker' = toBroker)
    BY <1>16, <1>a, <2>2, Sent DEF FinishDelivery
  <2>4. FramesOK'
    BY <1>16, <1>a, <2>1, <2>3 DEF FinishDelivery, FramesOK
  <2> QED
    BY <1>16, <1>b, <1>c, <2>1, <2>4 DEF FinishDelivery, TypeInv, TypeOK, broker, history
<1>17. CASE UNCHANGED vars
  BY <1>17, <1>b DEF vars, TypeInv, FramesOK, TypeOK, broker, history
<1> QED
  BY <1>1, <1>2, <1>3, <1>4, <1>5, <1>6, <1>7, <1>8, <1>9, <1>11, <1>12, <1>13, <1>15, <1>16, <1>17
  DEF Next

LEMMA AlwaysTypeInv == Spec => []TypeInv
BY InitTypeInv, NextTypeInv, PTL DEF Spec

\* Every variable stays in its declared range, and a subscribe that waits for its
\* SUBACK has a slot of the table, whatever the handlers called meanwhile do.
THEOREM RequestTypesHold == Spec => []TypeOK
<1>1. TypeInv => TypeOK
  BY DEF TypeInv
<1> QED BY <1>1, AlwaysTypeInv, PTL

----------------------------------------------------------------------------
(* What the steps do to the requests in progress.                          *)

\* No request is in progress that was not, and none is changed.
NoneNew == \A i \in DOMAIN stack' :
    stack'[i].op \in Kinds => i \in DOMAIN stack /\ stack'[i] = stack[i]
\* No request in progress is gone or changed.
NoneGone == \A i \in DOMAIN stack :
    stack[i].op \in Kinds => i \in DOMAIN stack' /\ stack'[i] = stack[i]

LEMMA BelowFrames ==
    ASSUME stack \in Seq(Frames), stack # <<>>
    PROVE  /\ \A i \in DOMAIN Below : i \in DOMAIN stack /\ i < Len(stack) /\ Below[i] = stack[i]
           /\ \A i \in DOMAIN stack : i # Len(stack) => i \in DOMAIN Below
<1>1. /\ Len(stack) \in Nat \ {0}
      /\ Below \in Seq(Frames) /\ Len(Below) = Len(stack) - 1
      /\ \A i \in 1..Len(stack) - 1 : Below[i] = stack[i]
  BY Innermost
<1>2. DOMAIN Below = 1..Len(stack) - 1 /\ DOMAIN stack = 1..Len(stack)
  BY <1>1
<1> QED BY <1>1, <1>2

LEMMA AddedFrames ==
    ASSUME stack \in Seq(Frames), NEW frame \in Frames
    PROVE  /\ \A i \in DOMAIN stack : i \in DOMAIN Append(stack, frame) /\ Append(stack, frame)[i] = stack[i]
           /\ \A i \in DOMAIN Append(stack, frame) : i \notin DOMAIN stack =>
                i = Len(Append(stack, frame)) /\ Append(stack, frame)[i] = frame
<1>1. Len(stack) \in Nat /\ DOMAIN stack = 1..Len(stack)
  OBVIOUS
<1>2. Append(stack, frame) \in Seq(Frames) /\ Len(Append(stack, frame)) = Len(stack) + 1
  BY Sent
<1>3. DOMAIN Append(stack, frame) = 1..Len(stack) + 1
  BY <1>1, <1>2
<1> QED BY <1>1, <1>2, <1>3, Sent

LEMMA ReplacedFrames ==
    ASSUME stack \in Seq(Frames), stack # <<>>, NEW frame \in Frames
    PROVE  /\ DOMAIN Replace(frame) = DOMAIN stack /\ Len(Replace(frame)) = Len(stack)
           /\ \A i \in DOMAIN stack :
                Replace(frame)[i] = IF i = Len(stack) THEN frame ELSE stack[i]
<1>1. DOMAIN stack = 1..Len(stack)
  OBVIOUS
<1>2. Replace(frame) \in Seq(Frames) /\ Len(Replace(frame)) = Len(stack)
  BY Replaced
<1>3. DOMAIN Replace(frame) = 1..Len(stack)
  BY <1>2
<1> QED BY <1>1, <1>2, <1>3, Replaced

\* Only a request adds one, and only the wait for one ends one.
LEMMA EndsOnly ==
    ASSUME TypeInv, Waiting, stack' = Below
    PROVE  /\ NoneNew
           /\ \A i \in DOMAIN stack : stack[i].op \in Kinds /\ stack[i].op # Top.op =>
                i \in DOMAIN stack' /\ stack'[i] = stack[i]
<1>1. stack \in Seq(Frames) /\ stack # <<>>
  BY DEF TypeInv, FramesOK, StackOK, Waiting
<1>2. Top = stack[Len(stack)]
  BY DEF Top
<1> QED BY <1>1, <1>2, BelowFrames DEF NoneNew

LEMMA DeliveryOnly ==
    ASSUME TypeInv,
           \/ ReadMessage
           \/ CallHandler \/ SkipHandler \/ HandlerReturns \/ FinishDelivery
    PROVE  NoneNew /\ NoneGone
<1>1. stack \in Seq(Frames) /\ toClient \in Seq(ToClient)
  BY DEF TypeInv, FramesOK, StackOK
<1>2. Delivering => stack # <<>> /\ Top \in Deliveries /\ Top = stack[Len(stack)] /\ Top.op \notin Kinds
  BY <1>1, Innermost, FrameFacts DEF Delivering
<1>3. CASE ReadMessage
  <2>1. PICK frame \in Deliveries : stack' = Append(stack, frame)
    BY <1>3, <1>1, MessageRead
  <2>2. frame \in Frames /\ frame.op \notin Kinds
    BY FrameFacts DEF Frames
  <2> QED BY <1>1, <2>1, <2>2, AddedFrames DEF NoneNew, NoneGone
<1>4. CASE CallHandler \/ SkipHandler \/ HandlerReturns
  <2>1. PICK frame \in Deliveries : stack' = Replace(frame)
    BY <1>4, <1>1, LoopStep
  <2>2. frame \in Frames /\ frame.op \notin Kinds /\ Delivering
    BY <1>4, FrameFacts DEF Frames, CallHandler, SkipHandler, HandlerReturns
  <2> QED BY <1>1, <1>2, <2>1, <2>2, ReplacedFrames DEF NoneNew, NoneGone
<1>8. CASE FinishDelivery
  <2>1. stack' = Below /\ stack # <<>> /\ Top.op \notin Kinds /\ Top = stack[Len(stack)]
    BY <1>8, <1>2 DEF FinishDelivery
  <2> QED BY <1>1, <2>1, BelowFrames DEF NoneNew, NoneGone
<1> QED BY <1>3, <1>4, <1>8

LEMMA RequestFrames ==
    ASSUME TypeInv, TypeInv', NEW op \in Kinds, NEW t \in Topics, NEW slot \in 0..NumHandlers,
           Request(op, t, slot)
    PROVE  /\ \A i \in DOMAIN stack :
                /\ i \in DOMAIN stack' /\ i < Len(stack')
                /\ stack'[i].op = stack[i].op
                /\ stack[i].op = "deliver" => stack'[i].dirty
                /\ stack[i].op # "deliver" =>
                     /\ stack'[i].id = stack[i].id
                     /\ stack'[i].slot = stack[i].slot
                     /\ stack[i].shared \/ stack[i].op = op => stack'[i].shared
                     /\ stack[i].op # op => stack'[i] = stack[i]
           /\ \A i \in DOMAIN stack' : i \notin DOMAIN stack =>
                i = Len(stack') /\ stack'[i] = Call(op, t, requests', slot)
<1> DEFINE frame == Call(op, t, requests', slot)
<1>1. stack \in Seq(Frames)
  BY DEF TypeInv, FramesOK, StackOK
<1>2. requests' \in 1..MaxRequests
  BY RequestsAssumption DEF Request, TypeInv, TypeOK
<1>3. frame \in Frames
  BY <1>2 DEF Call, Calls, Frames
<1>4. stack' = Append(Marked(op), frame)
  BY DEF Request
<1> HIDE DEF frame
<1>5. Marked(op) \in Seq(Frames) /\ Len(Marked(op)) = Len(stack) /\ Len(stack) \in Nat
  BY <1>1, MarkedFrames
<1>6. DOMAIN Marked(op) = DOMAIN stack /\ DOMAIN stack = 1..Len(stack)
  BY <1>1, <1>5
<1>7. /\ Len(stack') = Len(stack) + 1
      /\ \A i \in DOMAIN stack' :
           IF i \in DOMAIN stack THEN stack'[i] = Marked(op)[i]
           ELSE i = Len(stack) + 1 /\ stack'[i] = frame
  BY <1>3, <1>4, <1>5, <1>6, Sent
<1>8. DOMAIN stack' = 1..Len(stack) + 1
  BY <1>7 DEF TypeInv, FramesOK, StackOK
<1>9. \A i \in DOMAIN stack : i \in DOMAIN stack' /\ i < Len(stack') /\ stack'[i] = Marked(op)[i]
  BY <1>5, <1>6, <1>7, <1>8
<1> QED BY <1>1, <1>7, <1>9, MarkedFrames DEF frame

----------------------------------------------------------------------------
(* The handlers that were promised.                                        *)

LEMMA InitPromiseInv == Init => PromiseInv
BY DEF Init, PromiseInv, PromisedHandlersKept

LEMMA QuietPromise == ASSUME PromiseInv, NoneNew, handlers' = handlers, promised' = promised
                      PROVE  PromiseInv'
BY DEF PromiseInv, PromisedHandlersKept, NoneNew, Kinds

LEMMA RequestPromise ==
    ASSUME TypeInv, TypeInv', PromiseInv,
           NEW op \in Kinds, NEW t \in Topics, NEW slot \in 0..NumHandlers,
           op = "subscribe" => handlers[slot] = NoTopic, Request(op, t, slot)
    PROVE  PromiseInv'
<1>1. handlers' = handlers /\ promised' = promised
  BY DEF Request
<1>2. /\ \A i \in DOMAIN stack :
           /\ stack'[i].op = stack[i].op
           /\ stack[i].op # "deliver" =>
                /\ stack'[i].slot = stack[i].slot
                /\ stack[i].shared \/ stack[i].op = op => stack'[i].shared
                /\ stack[i].op # op => stack'[i] = stack[i]
      /\ \A i \in DOMAIN stack' : i \notin DOMAIN stack =>
           i = Len(stack') /\ stack'[i].op = op /\ stack'[i].slot = slot
  BY RequestFrames DEF Call
<1>3. \A i \in DOMAIN stack' : i \in DOMAIN stack \/ i = Len(stack')
  BY <1>2
<1>4. DOMAIN stack' = 1..Len(stack') /\ Len(stack') \in Nat
  BY DEF TypeInv, FramesOK, StackOK
<1>5. ASSUME NEW i \in DOMAIN stack', NEW j \in DOMAIN stack', i < j,
             stack'[i].op = "subscribe", stack'[j].op = "subscribe"
      PROVE  stack'[i].shared
  <2>1. i \in DOMAIN stack /\ stack[i].op = "subscribe"
    BY <1>2, <1>3, <1>4, <1>5
  <2>2. CASE j \in DOMAIN stack
    BY <1>2, <1>5, <2>1, <2>2 DEF PromiseInv
  <2>3. CASE j \notin DOMAIN stack
    BY <1>2, <1>5, <2>1, <2>3
  <2> QED BY <2>2, <2>3
<1>6. ASSUME NEW i \in DOMAIN stack', stack'[i].op = "subscribe", ~stack'[i].shared
      PROVE  handlers[stack'[i].slot] = NoTopic
  BY <1>2, <1>6 DEF PromiseInv
<1> QED BY <1>1, <1>5, <1>6 DEF PromiseInv, PromisedHandlersKept

LEMMA NextPromiseInv == TypeInv /\ TypeInv' /\ PromiseInv /\ [Next]_vars => PromiseInv'
<1> SUFFICES ASSUME TypeInv, TypeInv', PromiseInv, [Next]_vars PROVE PromiseInv'
  OBVIOUS
<1>1. ASSUME UNCHANGED <<stack, handlers, promised>> PROVE PromiseInv'
  BY <1>1 DEF PromiseInv, PromisedHandlersKept
<1>2. CASE BrokerActs \/ SessionDies \/ NewSession \/ ReadOther \/ UNCHANGED vars
  BY <1>1, <1>2 DEF BrokerActs, SessionDies, NewSession, ReadOther, history, vars
<1>3. ASSUME NEW t \in Topics, BrokerSends(t) PROVE PromiseInv'
  BY <1>1, <1>3 DEF BrokerSends, history
<1>4. ASSUME NEW t \in Topics, Publish(t) \/ Unsubscribe(t) PROVE PromiseInv'
  BY <1>4, RequestPromise, RequestsAssumption DEF Publish, Unsubscribe, Kinds
<1>5. ASSUME NEW t \in Topics, Subscribe(t) PROVE PromiseInv'
  <2>1. PICK f \in Slots : FreeSlot(f) /\ Request("subscribe", t, f)
    BY <1>5 DEF Subscribe
  <2> QED
    BY <2>1, RequestPromise, RequestsAssumption DEF FreeSlot, Slots, Kinds
<1>6. CASE Yield
  <2>1. NoneNew
    BY <1>6 DEF Yield, NoneNew, Call, Kinds
  <2> QED BY <1>6, <2>1, QuietPromise DEF Yield, history
<1>7. CASE GiveUp
  BY <1>7, EndsOnly, QuietPromise DEF GiveUp
<1>8. CASE ReadAck
  <2> DEFINE f == Top.slot
             t == Top.topic
  <2>1. NoneNew /\ Waiting /\ stack' = Below /\ Top.op \in Kinds
    BY <1>8, EndsOnly DEF ReadAck, ReadPacket, Awaited
  <2>2. stack \in Seq(Frames) /\ stack # <<>>
    BY <2>1 DEF Waiting, TypeInv, FramesOK, StackOK
  <2>3. /\ Len(stack) \in DOMAIN stack /\ Top = stack[Len(stack)]
        /\ \A i \in DOMAIN stack' : i \in DOMAIN stack /\ i < Len(stack) /\ stack'[i] = stack[i]
    BY <2>1, <2>2, Innermost, BelowFrames
  <2>4. t \in Topics /\ (Top.op = "subscribe" => f \in Slots)
    BY <2>1, <2>3 DEF TypeInv, FramesOK, StackOK
  <2>5. \A i, j \in DOMAIN stack' :
          i < j /\ stack'[i].op = "subscribe" /\ stack'[j].op = "subscribe" => stack'[i].shared
    BY <2>3 DEF PromiseInv
  <2>6. CASE Top.op = "subscribe"
    <3>1. /\ handlers' = [s \in Slots |-> IF s = f THEN t ELSE handlers[s]]
          /\ promised' = (IF Top.shared THEN promised \ {handlers[f]} ELSE promised) \union {t}
      BY <1>8, <2>6 DEF ReadAck
    <3>2. ASSUME NEW p \in promised' PROVE \E s \in Slots : handlers'[s] = p
      <4>1. CASE p = t
        BY <2>4, <2>6, <3>1, <4>1
      <4>2. CASE p # t
        <5>1. p \in promised /\ p \in Topics
          BY <3>1, <3>2, <4>2 DEF TypeInv, TypeOK
        <5>2. p # handlers[f]
          BY <2>3, <2>6, <3>1, <3>2, <4>2, <5>1, RequestsAssumption DEF PromiseInv
        <5>3. PICK s \in Slots : handlers[s] = p
          BY <5>1 DEF PromiseInv, PromisedHandlersKept
        <5> QED BY <3>1, <5>2, <5>3
      <4> QED BY <4>1, <4>2
    <3>3. \A i \in DOMAIN stack' : stack'[i].op = "subscribe" => stack'[i].shared
      BY <2>3, <2>6 DEF PromiseInv
    <3> QED BY <2>5, <3>2, <3>3 DEF PromiseInv, PromisedHandlersKept
  <2>7. CASE Top.op = "unsubscribe"
    <3>1. /\ handlers' = [s \in Slots |-> IF handlers[s] = t THEN NoTopic ELSE handlers[s]]
          /\ promised' = promised \ {t}
      BY <1>8, <2>7 DEF ReadAck
    <3>2. \A p \in promised' : \E s \in Slots : handlers'[s] = p
      BY <3>1 DEF PromiseInv, PromisedHandlersKept
    <3>3. \A i \in DOMAIN stack' :
            stack'[i].op = "subscribe" /\ ~stack'[i].shared => handlers'[stack'[i].slot] = NoTopic
      BY <2>3, <3>1 DEF PromiseInv, TypeInv, TypeOK
    <3> QED BY <2>5, <3>2, <3>3 DEF PromiseInv, PromisedHandlersKept
  <2>8. CASE Top.op = "publish"
    <3>1. promised' = promised /\ handlers' = [s \in Slots |-> handlers[s]]
      BY <1>8, <2>8 DEF ReadAck
    <3>2. handlers' = handlers
      BY <3>1 DEF TypeInv, TypeOK
    <3> QED BY <2>1, <3>1, <3>2, QuietPromise
  <2> QED BY <2>1, <2>6, <2>7, <2>8 DEF Kinds
<1>9. CASE ReadMessage \/ CallHandler \/ SkipHandler \/ HandlerReturns \/ FinishDelivery
  BY <1>9, DeliveryOnly, QuietPromise
     DEF ReadMessage, CallHandler, SkipHandler, HandlerReturns, FinishDelivery, history
<1> QED
  BY <1>2, <1>3, <1>4, <1>5, <1>6, <1>7, <1>8, <1>9 DEF Next

\* A handler whose SUBACK came stays in the table until its topic is
\* unsubscribed, whatever other handlers subscribe and unsubscribe meanwhile,
\* unless one subscribes while a subscribe waits with the slot it chose.
THEOREM PromisesHold == Spec => []PromisedHandlersKept
<1>1. PromiseInv => PromisedHandlersKept
  BY DEF PromiseInv
<1>2. Spec => []PromiseInv
  BY AlwaysTypeInv, InitPromiseInv, NextPromiseInv, PTL DEF Spec
<1> QED BY <1>1, <1>2, PTL

----------------------------------------------------------------------------
(* To whom a message is handed.                                            *)

\* No delivery is undisturbed: that one is the innermost.
NoneClean == \A i \in DOMAIN stack' : stack'[i].op = "deliver" => stack'[i].dirty

LEMMA InitDeliveryInv == Init => DeliveryInv
BY DEF Init, DeliveryInv

LEMMA CleanIsNone == NoneClean => DeliveryInv'
BY DEF NoneClean, DeliveryInv

\* While a call waits, the deliveries further out are disturbed.
LEMMA OuterDisturbed ==
    ASSUME TypeInv, DeliveryInv, stack # <<>>
    PROVE  /\ \A i \in DOMAIN stack : i < Len(stack) /\ stack[i].op = "deliver" => stack[i].dirty
           /\ Waiting => \A i \in DOMAIN stack : stack[i].op = "deliver" => stack[i].dirty
           /\ stack' = Below => NoneClean
<1>1. stack \in Seq(Frames) /\ Len(stack) \in Nat
  BY DEF TypeInv, FramesOK, StackOK
<1>2. \A i \in DOMAIN stack : i < Len(stack) /\ stack[i].op = "deliver" => stack[i].dirty
  BY <1>1 DEF DeliveryInv
<1>3. Waiting => \A i \in DOMAIN stack : stack[i].op = "deliver" => stack[i].dirty
  BY DEF DeliveryInv, Waiting, Top
<1>4. stack' = Below => NoneClean
  BY <1>1, <1>2, BelowFrames DEF NoneClean
<1> QED BY <1>2, <1>3, <1>4

LEMMA RequestDelivery ==
    ASSUME TypeInv, TypeInv', DeliveryInv, NEW op \in Kinds, NEW t \in Topics,
           NEW slot \in 0..NumHandlers, Request(op, t, slot)
    PROVE  DeliveryInv'
<1>1. \A i \in DOMAIN stack : stack'[i].op = stack[i].op /\ (stack[i].op = "deliver" => stack'[i].dirty)
  BY RequestFrames
<1>2. \A i \in DOMAIN stack' : i \notin DOMAIN stack => stack'[i].op # "deliver"
  BY RequestFrames DEF Call, Kinds
<1> QED BY <1>1, <1>2, CleanIsNone DEF NoneClean

\* A step of the loop: the handlers passed are those of the message read.
LEMMA LoopDelivery ==
    ASSUME TypeInv, DeliveryInv, CallHandler \/ SkipHandler \/ HandlerReturns
    PROVE  DeliveryInv'
<1>1. stack \in Seq(Frames) /\ stack # <<>> /\ handlers' = handlers /\ readBuf' = readBuf
  BY DEF CallHandler, SkipHandler, HandlerReturns, Delivering, TypeInv, FramesOK, StackOK
<1>2. Top \in Deliveries /\ Top.op = "deliver" /\ Top = stack[Len(stack)] /\ Len(stack) \in DOMAIN stack
  BY <1>1, Innermost, FrameFacts DEF CallHandler, SkipHandler, HandlerReturns, Delivering
<1>3. /\ Top \in Loops /\ Top.itr \in Nat /\ Top.msg.topic \in Topics
      /\ Top.calling => Top.itr \in Slots
  BY <1>2 DEF Deliveries, Loops, Messages
<1>4. ASSUME NEW frame \in Deliveries, stack' = Replace(frame),
             ~frame.dirty => readBuf = frame.msg
                             /\ frame.called = {s \in Passed(frame) : handlers[s] = frame.msg.topic}
      PROVE  DeliveryInv'
  <2>1. /\ DOMAIN stack' = DOMAIN stack /\ Len(stack') = Len(stack)
        /\ \A i \in DOMAIN stack : stack'[i] = IF i = Len(stack) THEN frame ELSE stack[i]
    BY <1>1, <1>4, ReplacedFrames DEF Frames
  <2>2. \A i \in DOMAIN stack : i # Len(stack) /\ stack[i].op = "deliver" => stack[i].dirty
    BY DEF DeliveryInv
  <2> QED BY <1>1, <1>4, <2>1, <2>2 DEF DeliveryInv, Passed
<1>5. ~Top.dirty => readBuf = Top.msg
                    /\ Top.called = {s \in Passed(Top) : handlers[s] = Top.msg.topic}
  BY <1>2 DEF DeliveryInv
<1>6. CASE CallHandler
  <2> DEFINE frame == [Top EXCEPT !.calling = TRUE, !.called = @ \union {Top.itr}]
  <2>1. Top.itr \in Slots /\ ~Top.calling /\ handlers[Top.itr] = readBuf.topic /\ stack' = Replace(frame)
    BY <1>3, <1>6, RequestsAssumption DEF CallHandler, Loops, Slots
  <2>2. frame \in Deliveries
    BY <1>3, <2>1 DEF Deliveries, Loops
  <2>3. /\ frame.msg = Top.msg /\ frame.itr = Top.itr /\ frame.calling /\ frame.dirty = Top.dirty
        /\ frame.called = Top.called \union {Top.itr}
    BY <1>3 DEF Loops
  <2> HIDE DEF frame
  <2>4. Passed(frame) = Passed(Top) \union {Top.itr}
    <3>1. Passed(frame) = 1..Top.itr /\ Passed(Top) = 1..Top.itr - 1
      BY <2>1, <2>3 DEF Passed
    <3>2. Top.itr \in Nat \ {0}
      BY <1>3, <2>1 DEF Slots
    <3> QED BY <3>1, <3>2
  <2>5. ASSUME ~frame.dirty
        PROVE  readBuf = frame.msg /\ frame.called = {s \in Passed(frame) : handlers[s] = frame.msg.topic}
    BY <1>5, <2>1, <2>3, <2>4, <2>5
  <2> QED BY <1>4, <2>1, <2>2, <2>5
<1>7. CASE SkipHandler
  <2> DEFINE frame == [Top EXCEPT !.itr = @ + 1]
  <2>1. /\ Top.itr \in Slots /\ ~Top.calling /\ stack' = Replace(frame)
        /\ handlers[Top.itr] = NoTopic \/ handlers[Top.itr] # readBuf.topic
    BY <1>3, <1>7, RequestsAssumption DEF SkipHandler, Loops, Slots
  <2>2. frame \in Deliveries
    <3>1. Top.itr + 1 \in 1..NumHandlers + 1
      BY <2>1, RequestsAssumption DEF Slots
    <3> QED BY <1>3, <2>1, <3>1 DEF Deliveries, Loops
  <2>3. /\ frame.msg = Top.msg /\ frame.itr = Top.itr + 1 /\ ~frame.calling /\ frame.dirty = Top.dirty
        /\ frame.called = Top.called
    BY <1>3, <2>1 DEF Loops
  <2> HIDE DEF frame
  <2>4. Passed(frame) = Passed(Top) \union {Top.itr}
    BY <1>3, <2>1, <2>3 DEF Passed, Slots
  <2>5. ASSUME ~frame.dirty
        PROVE  readBuf = frame.msg /\ frame.called = {s \in Passed(frame) : handlers[s] = frame.msg.topic}
    <3>1. readBuf = Top.msg /\ handlers[Top.itr] # Top.msg.topic
      BY <1>3, <1>5, <2>1, <2>3, <2>5, RequestsAssumption
    <3> QED BY <1>5, <2>3, <2>4, <2>5, <3>1
  <2> QED BY <1>4, <2>1, <2>2, <2>5
<1>8. CASE HandlerReturns
  <2> DEFINE frame == [Top EXCEPT !.itr = @ + 1, !.calling = FALSE]
  <2>1. Top.itr \in Slots /\ Top.calling /\ stack' = Replace(frame)
    BY <1>3, <1>8 DEF HandlerReturns
  <2>2. frame \in Deliveries
    <3>1. Top.itr + 1 \in 1..NumHandlers + 1
      BY <2>1, RequestsAssumption DEF Slots
    <3> QED BY <1>3, <2>1, <3>1 DEF Deliveries, Loops
  <2>3. /\ frame.msg = Top.msg /\ frame.itr = Top.itr + 1 /\ ~frame.calling /\ frame.dirty = Top.dirty
        /\ frame.called = Top.called
    BY <1>3 DEF Loops
  <2> HIDE DEF frame
  <2>4. Passed(frame) = Passed(Top)
    BY <1>3, <2>1, <2>3 DEF Passed, Slots
  <2>5. ASSUME ~frame.dirty
        PROVE  readBuf = frame.msg /\ frame.called = {s \in Passed(frame) : handlers[s] = frame.msg.topic}
    BY <1>5, <2>3, <2>4, <2>5
  <2> QED BY <1>4, <2>1, <2>2, <2>5
<1> QED BY <1>6, <1>7, <1>8

LEMMA NextDeliveryInv == TypeInv /\ TypeInv' /\ DeliveryInv /\ [Next]_vars => DeliveryInv'
<1> SUFFICES ASSUME TypeInv, TypeInv', DeliveryInv, [Next]_vars PROVE DeliveryInv'
  OBVIOUS
<1>a. stack \in Seq(Frames)
  BY DEF TypeInv, FramesOK, StackOK
<1>1. ASSUME UNCHANGED <<stack, handlers, readBuf>> PROVE DeliveryInv'
  BY <1>1 DEF DeliveryInv, Passed
<1>2. CASE BrokerActs \/ SessionDies \/ NewSession \/ UNCHANGED vars
  BY <1>1, <1>2 DEF BrokerActs, SessionDies, NewSession, history, vars
<1>3. ASSUME NEW t \in Topics, BrokerSends(t) PROVE DeliveryInv'
  BY <1>1, <1>3 DEF BrokerSends, history
<1>4. ASSUME NEW t \in Topics, Publish(t) \/ Unsubscribe(t) PROVE DeliveryInv'
  BY <1>4, RequestDelivery, RequestsAssumption DEF Publish, Unsubscribe, Kinds
<1>5. ASSUME NEW t \in Topics, Subscribe(t) PROVE DeliveryInv'
  BY <1>5, RequestDelivery, RequestsAssumption DEF Subscribe, Slots, Kinds
<1>6. CASE Yield
  <2>1. NoneClean
    BY <1>6 DEF Yield, NoneClean, Call
  <2> QED BY <2>1, CleanIsNone
<1>7. CASE GiveUp \/ ReadAck \/ FinishDelivery
  BY <1>7, OuterDisturbed, CleanIsNone DEF GiveUp, ReadAck, ReadPacket, FinishDelivery, Waiting, Delivering
<1>8. CASE ReadOther
  <2>1. Waiting /\ stack # <<>> /\ stack' = stack
    BY <1>8 DEF ReadOther, ReadPacket, Waiting
  <2>2. NoneClean
    BY <2>1, OuterDisturbed DEF NoneClean
  <2> QED BY <2>2, CleanIsNone
<1>9. CASE ReadMessage
  <2>1. PICK frame \in Deliveries :
          /\ stack' = Append(stack, frame)
          /\ frame.msg = readBuf' /\ frame.itr = 1 /\ ~frame.calling /\ frame.called = {}
    BY <1>9, MessageRead DEF TypeInv, FramesOK
  <2>2. /\ \A i \in DOMAIN stack : i \in DOMAIN stack' /\ stack'[i] = stack[i]
        /\ \A i \in DOMAIN stack' : i \notin DOMAIN stack => i = Len(stack') /\ stack'[i] = frame
    BY <1>a, <2>1, AddedFrames DEF Frames
  <2>3. \A i \in DOMAIN stack : stack[i].op = "deliver" => stack[i].dirty
    BY <1>9, OuterDisturbed DEF ReadMessage, ReadPacket, Waiting
  <2>4. Passed(frame) = {}
    BY <2>1 DEF Passed
  <2> QED BY <2>1, <2>2, <2>3, <2>4 DEF DeliveryInv, Passed
<1>10. CASE CallHandler \/ SkipHandler \/ HandlerReturns
  BY <1>10, LoopDelivery
<1> QED
  BY <1>2, <1>3, <1>4, <1>5, <1>6, <1>7, <1>8, <1>9, <1>10 DEF Next

\* When the stack gets shorter over a delivery, its loop has passed every slot.
LEMMA EndOfDelivery ==
    ASSUME TypeInv, TypeInv', DeliveryInv, [Next]_vars,
           Delivering, Len(stack') < Len(stack), ~Top.dirty
    PROVE  Top.called = {s \in Slots : handlers[s] = Top.msg.topic}
<1>1. stack \in Seq(Frames) /\ stack # <<>>
  BY DEF TypeInv, FramesOK, StackOK, Delivering
<1>2. /\ Top \in Deliveries /\ Top.op = "deliver" /\ Top = stack[Len(stack)]
      /\ Len(stack) \in DOMAIN stack /\ Len(stack) \in Nat
  BY <1>1, Innermost, FrameFacts DEF Delivering
<1>3. Top.called = {s \in Passed(Top) : handlers[s] = Top.msg.topic}
  BY <1>2 DEF DeliveryInv
<1>4. ASSUME stack' = stack \/ stack = <<>> PROVE FALSE
  BY <1>1, <1>2, <1>4
<1>5. ASSUME NEW frame \in Frames, stack' = Replace(frame) \/ stack' = Append(stack, frame) PROVE FALSE
  BY <1>1, <1>2, <1>5, Replaced, Sent
<1>6. ASSUME NEW op \in Kinds, NEW t \in Topics, NEW slot \in 0..NumHandlers, Request(op, t, slot)
      PROVE  FALSE
  BY <1>2, <1>6, RequestFrames
<1>7. FinishDelivery
  <2>1. ~(BrokerActs \/ SessionDies \/ NewSession \/ Yield \/ UNCHANGED vars)
    BY <1>4 DEF BrokerActs, SessionDies, NewSession, Yield, vars
  <2>2. ~(GiveUp \/ ReadOther \/ ReadAck \/ ReadMessage)
    BY DEF GiveUp, ReadOther, ReadAck, ReadMessage, ReadPacket, Waiting, Delivering
  <2>3. ~(CallHandler \/ SkipHandler \/ HandlerReturns)
    BY <1>1, <1>5, LoopStep DEF Frames
  <2>4. \A t \in Topics : ~BrokerSends(t)
    BY <1>4 DEF BrokerSends
  <2>5. \A t \in Topics : ~(Publish(t) \/ Subscribe(t) \/ Unsubscribe(t))
    BY <1>6, RequestsAssumption DEF Publish, Subscribe, Unsubscribe, Kinds, Slots
  <2> QED BY <2>1, <2>2, <2>3, <2>4, <2>5 DEF Next
<1>8. Passed(Top) = Slots
  BY <1>2, <1>7, RequestsAssumption DEF FinishDelivery, Deliveries, Loops, Passed, Slots
<1> QED BY <1>3, <1>8

\* A message is acknowledged only after every handler of its topic, and no other,
\* was called with it, unless one of them made a request, whose answer overwrites
\* the buffer the loop compares with.
THEOREM DeliveriesComplete == Spec => DeliveredToAll
<1>1. TypeInv /\ TypeInv' /\ DeliveryInv /\ [Next]_vars
        => [\A m \in 1..MaxMessages :
              Delivering /\ Top.msg.id = m /\ Len(stack') < Len(stack) /\ ~Top.dirty
                => Top.called = {s \in Slots : handlers[s] = Top.msg.topic}]_vars
  BY EndOfDelivery
<1> QED
  BY <1>1, AlwaysTypeInv, InitDeliveryInv, NextDeliveryInv, PTL DEF Spec, DeliveredToAll

----------------------------------------------------------------------------
(* Whose acknowledgement ends a request.                                   *)

LEMMA InitAckInv == Init => AckInv
<1> SUFFICES ASSUME Init, NEW k \in Kinds PROVE OneAtATime(k)
  BY DEF AckInv
<1>1. DOMAIN stack = {} /\ DOMAIN toBroker = {} /\ DOMAIN toClient = {}
  BY DEF Init
<1> QED BY <1>1 DEF OneAtATime

LEMMA Cancel == \A m, a, b \in Int : a + m = b + m => a = b
OBVIOUS

\* Nothing of the kind comes, neither a call nor a packet: the first m packets
\* to the broker and the first n to the client may go.
LEMMA QuietAck ==
    ASSUME TypeInv', NEW k \in Kinds, OneAtATime(k),
           \A i \in DOMAIN stack' : stack'[i].op = k => i \in DOMAIN stack /\ stack'[i] = stack[i],
           \A i \in DOMAIN stack : stack[i].op = k => i \in DOMAIN stack' /\ stack'[i] = stack[i],
           NEW m \in Int, NEW n \in Int,
           \A a \in DOMAIN toBroker' : toBroker'[a].type = k =>
              a + m \in DOMAIN toBroker /\ toBroker'[a] = toBroker[a + m],
           \A a \in DOMAIN toClient' : toClient'[a].type = AckOf(k) =>
              a + n \in DOMAIN toClient /\ toClient'[a] = toClient[a + n],
           processed \subseteq processed'
    PROVE  OneAtATime(k)'
<1>1. \A id : InWait(k, id) => \E i \in DOMAIN stack' : stack'[i].op = k /\ stack'[i].id = id
  BY DEF InWait
<1>2. DOMAIN toBroker' \subseteq Int /\ DOMAIN toClient' \subseteq Int
  BY DEF TypeInv, FramesOK
<1>3. \A i, j \in DOMAIN stack' : stack'[i].op = k /\ stack'[j].op = k => i = j
  BY DEF OneAtATime
<1>4. \A a, b \in DOMAIN toBroker' : toBroker'[a].type = k /\ toBroker'[b].type = k => a = b
  <2> SUFFICES ASSUME NEW a \in DOMAIN toBroker', NEW b \in DOMAIN toBroker',
                      toBroker'[a].type = k, toBroker'[b].type = k
               PROVE  a = b
    OBVIOUS
  <2>1. a + m \in DOMAIN toBroker /\ b + m \in DOMAIN toBroker
        /\ toBroker[a + m].type = k /\ toBroker[b + m].type = k
    OBVIOUS
  <2>2. a + m = b + m
    BY <2>1, Zenon DEF OneAtATime
  <2>3. a \in Int /\ b \in Int
    BY <1>2
  <2> QED BY <2>2, <2>3, Cancel
<1>5. \A a, b \in DOMAIN toClient' :
        toClient'[a].type = AckOf(k) /\ toClient'[b].type = AckOf(k) => a = b
  <2> SUFFICES ASSUME NEW a \in DOMAIN toClient', NEW b \in DOMAIN toClient',
                      toClient'[a].type = AckOf(k), toClient'[b].type = AckOf(k)
               PROVE  a = b
    OBVIOUS
  <2>1. a + n \in DOMAIN toClient /\ b + n \in DOMAIN toClient
        /\ toClient[a + n].type = AckOf(k) /\ toClient[b + n].type = AckOf(k)
    OBVIOUS
  <2>2. a + n = b + n
    BY <2>1, Zenon DEF OneAtATime
  <2>3. a \in Int /\ b \in Int
    BY <1>2
  <2> QED BY <2>2, <2>3, Cancel
<1>6. \A a \in DOMAIN toBroker', b \in DOMAIN toClient' :
        ~(toBroker'[a].type = k /\ toClient'[b].type = AckOf(k))
  BY DEF OneAtATime
<1>7. \A a \in DOMAIN toBroker' : toBroker'[a].type = k =>
        \E i \in DOMAIN stack' : stack'[i].op = k /\ stack'[i].id = toBroker'[a].id
  BY <1>1 DEF OneAtATime
<1>8. \A a \in DOMAIN toClient' : toClient'[a].type = AckOf(k) =>
        /\ \E i \in DOMAIN stack' : stack'[i].op = k /\ stack'[i].id = toClient'[a].id
        /\ toClient'[a].id \in processed'
  <2> SUFFICES ASSUME NEW a \in DOMAIN toClient', toClient'[a].type = AckOf(k)
               PROVE  /\ \E i \in DOMAIN stack' : stack'[i].op = k /\ stack'[i].id = toClient'[a].id
                      /\ toClient'[a].id \in processed'
    OBVIOUS
  <2>1. InWait(k, toClient'[a].id) /\ toClient'[a].id \in processed
    BY DEF OneAtATime
  <2> QED BY <1>1, <2>1
<1> QED BY <1>3, <1>4, <1>5, <1>6, <1>7, <1>8, Zenon DEF OneAtATime, InWait, AckOf

\* The reader takes the oldest packet.
LEMMA ReadFacts ==
    ASSUME TypeInv, TypeInv', ReadPacket
    PROVE  /\ readBuf' = toClient[1] /\ 1 \in DOMAIN toClient /\ readBuf' \in ToClient
           /\ \A a \in DOMAIN toClient' :
                a + 1 \in DOMAIN toClient /\ a + 1 # 1 /\ toClient'[a] = toClient[a + 1]
           /\ \A a \in DOMAIN toBroker' : a + 0 = a
           /\ toBroker' = toBroker /\ processed' = processed /\ alive' = alive
<1>1. toClient \in Seq(ToClient) /\ toClient # <<>> /\ toBroker' \in Seq(ToBroker)
  BY DEF ReadPacket, TypeInv, FramesOK
<1>2. \A a \in DOMAIN toBroker' : a + 0 = a
  BY <1>1
<1> QED BY <1>1, <1>2, Taken DEF ReadPacket, broker

LEMMA Positions == ASSUME TypeInv
                   PROVE  /\ \A a \in DOMAIN toBroker : a + 0 = a
                          /\ \A a \in DOMAIN toClient : a + 0 = a
BY DEF TypeInv, FramesOK

\* The broker acts on a request: its acknowledgement takes its place.
LEMMA BrokerAck ==
    ASSUME TypeInv, TypeInv', BrokerActs, NEW k \in Kinds, OneAtATime(k)
    PROVE  OneAtATime(k)'
<1> DEFINE p == Head(toBroker)
           ack == Packet(AckOf(p.type), p.id, NoTopic)
<1>1. /\ toBroker \in Seq(ToBroker) /\ toBroker # <<>> /\ toBroker' = Tail(toBroker)
      /\ toClient \in Seq(ToClient) /\ stack' = stack /\ processed \subseteq processed'
  BY DEF BrokerActs, TypeInv, FramesOK
<1>2. /\ p = toBroker[1] /\ 1 \in DOMAIN toBroker /\ p \in ToBroker
      /\ \A a \in DOMAIN toBroker' :
           a + 1 \in DOMAIN toBroker /\ a + 1 # 1 /\ toBroker'[a] = toBroker[a + 1]
  BY <1>1, Taken
<1>3. CASE toClient' = toClient
  BY <1>1, <1>2, <1>3, Positions, QuietAck
<1>4. CASE p.type \in Kinds /\ toClient' = Append(toClient, ack) /\ p.id \in processed'
  <2>1. ack \in ToClient /\ ack.type = AckOf(p.type) /\ ack.id = p.id
    <3>1. p \in Asked
      BY <1>2, <1>4 DEF ToBroker, Asked, MessageAcks, Kinds
    <3>2. p.id \in 1..MaxRequests /\ AckOf(p.type) \in AckTypes
      BY <1>4, <3>1, AckKinds DEF Asked
    <3> QED BY <3>2 DEF Packet, ToClient, Answered
  <2> HIDE DEF ack
  <2>2. \A a \in DOMAIN toClient' : IF a \in DOMAIN toClient THEN toClient'[a] = toClient[a]
                                    ELSE a = Len(toClient) + 1 /\ toClient'[a] = ack
    BY <1>1, <1>4, <2>1, Sent
  <2>3. CASE p.type # k
    <3>1. AckOf(p.type) # AckOf(k)
      BY <1>4, <2>3, AckKinds
    <3>2. \A a \in DOMAIN toClient' : toClient'[a].type = AckOf(k) =>
            a + 0 \in DOMAIN toClient /\ toClient'[a] = toClient[a + 0]
      BY <2>1, <2>2, <3>1, Positions
    <3> QED BY <1>1, <1>2, <3>2, QuietAck
  <2>4. CASE p.type = k
    <3>1. \A a \in DOMAIN toBroker' : toBroker'[a].type # k
      BY <1>2, <2>4 DEF OneAtATime
    <3>2. \A a \in DOMAIN toClient : toClient[a].type # AckOf(k)
      BY <1>2, <2>4 DEF OneAtATime
    <3>3. \A a \in DOMAIN toClient' : toClient'[a].type = AckOf(k) =>
            a = Len(toClient) + 1 /\ toClient'[a].id = p.id
      BY <2>1, <2>2, <3>2
    <3>4. InWait(k, p.id)
      BY <1>2, <2>4 DEF OneAtATime
    <3>5. \E i \in DOMAIN stack' : stack'[i].op = k /\ stack'[i].id = p.id
      BY <1>1, <3>4 DEF InWait
    <3> HIDE DEF p
    <3>6. \A a \in DOMAIN toClient' : toClient'[a].type = AckOf(k) =>
            /\ \E i \in DOMAIN stack' : stack'[i].op = k /\ stack'[i].id = toClient'[a].id
            /\ toClient'[a].id \in processed'
      BY <1>4, <3>3, <3>5
    <3>7. \A i, j \in DOMAIN stack' : stack'[i].op = k /\ stack'[j].op = k => i = j
      BY <1>1 DEF OneAtATime
    <3>8. \A a, b \in DOMAIN toClient' :
            toClient'[a].type = AckOf(k) /\ toClient'[b].type = AckOf(k) => a = b
      BY <3>3, Zenon
    <3> QED BY <3>1, <3>6, <3>7, <3>8, Zenon DEF OneAtATime, InWait, AckOf
  <2> QED BY <2>3, <2>4
<1> QED BY <1>3, <1>4 DEF BrokerActs

LEMMA RequestAck ==
    ASSUME TypeInv, TypeInv', NEW op \in Kinds, NEW t \in Topics, NEW slot \in 0..NumHandlers,
           Request(op, t, slot), NEW k \in Kinds \ stray', OneAtATime(k)
    PROVE  OneAtATime(k)'
<1> DEFINE p == Packet(op, requests', t)
<1>1. /\ toBroker \in Seq(ToBroker) /\ toClient' = toClient /\ processed' = processed
      /\ toBroker' = IF alive THEN Append(toBroker, p) ELSE toBroker
      /\ stray' = IF NestedIn(op) THEN stray \union {op} ELSE stray
  BY DEF Request, TypeInv, FramesOK, broker
<1>2. /\ \A i \in DOMAIN stack :
           /\ i \in DOMAIN stack'
           /\ stack'[i].op = stack[i].op
           /\ stack[i].op # "deliver" /\ stack[i].op # op => stack'[i] = stack[i]
      /\ \A i \in DOMAIN stack' : i \notin DOMAIN stack =>
           i = Len(stack') /\ stack'[i].op = op /\ stack'[i].id = requests'
  BY RequestFrames DEF Call
<1>3. p \in ToBroker /\ p.type = op /\ p.id = requests'
  <2>1. requests' \in 1..MaxRequests
    BY RequestsAssumption DEF Request, TypeInv, TypeOK
  <2> QED BY <2>1 DEF Packet, ToBroker, Asked
<1> HIDE DEF p
<1>4. \A a \in DOMAIN toBroker' : IF a \in DOMAIN toBroker THEN toBroker'[a] = toBroker[a]
                                  ELSE alive /\ a = Len(toBroker) + 1 /\ toBroker'[a] = p
  <2>1. CASE alive
    BY <1>1, <1>3, <2>1, Sent
  <2>2. CASE ~alive
    BY <1>1, <2>2
  <2> QED BY <2>1, <2>2
<1>5. CASE k # op
  <2>1. k # "deliver"
    BY DEF Kinds
  <2>2. \A i \in DOMAIN stack' : stack'[i].op = k => i \in DOMAIN stack /\ stack'[i] = stack[i]
    BY <1>2, <1>5, <2>1
  <2>3. \A i \in DOMAIN stack : stack[i].op = k => i \in DOMAIN stack' /\ stack'[i] = stack[i]
    BY <1>2, <1>5, <2>1
  <2>4. \A a \in DOMAIN toBroker' : toBroker'[a].type = k =>
          a + 0 \in DOMAIN toBroker /\ toBroker'[a] = toBroker[a + 0]
    BY <1>3, <1>4, <1>5, Positions
  <2>5. \A a \in DOMAIN toClient' : toClient'[a].type = AckOf(k) =>
          a + 0 \in DOMAIN toClient /\ toClient'[a] = toClient[a + 0]
    BY <1>1, Positions
  <2>6. processed \subseteq processed' /\ 0 \in Int
    BY <1>1
  <2> QED BY <2>2, <2>3, <2>4, <2>5, <2>6, QuietAck
<1>6. CASE k = op
  <2>1. \A i \in DOMAIN stack : stack[i].op # k
    BY <1>1, <1>6 DEF NestedIn
  <2>2. /\ \A a \in DOMAIN toBroker : toBroker[a].type # k
        /\ \A a \in DOMAIN toClient : toClient[a].type # AckOf(k)
    BY <2>1 DEF OneAtATime, InWait
  <2>3. \A i \in DOMAIN stack' : stack'[i].op = k => i = Len(stack') /\ stack'[i].id = requests'
    BY <1>2, <2>1
  <2>4. \A a \in DOMAIN toBroker' : toBroker'[a].type = k =>
          a = Len(toBroker) + 1 /\ toBroker'[a].id = requests'
    BY <1>3, <1>4, <2>2
  <2>5. \E i \in DOMAIN stack' : stack'[i].op = k /\ stack'[i].id = requests'
    <3>1. Len(stack') \in DOMAIN stack' /\ Len(stack') \notin DOMAIN stack
      <4>1. stack' # <<>> /\ stack' \in Seq(Frames)
        BY DEF Request, TypeInv, FramesOK, StackOK
      <4>2. Len(stack') \in DOMAIN stack'
        BY <4>1, EmptySeq
      <4>3. \A i \in DOMAIN stack : i < Len(stack')
        BY RequestFrames
      <4> QED BY <4>1, <4>2, <4>3
    <3> QED BY <1>2, <1>6, <3>1
  <2>6. \A a \in DOMAIN toBroker' : toBroker'[a].type = k =>
          \E i \in DOMAIN stack' : stack'[i].op = k /\ stack'[i].id = toBroker'[a].id
    BY <2>4, <2>5
  <2>7. \A a \in DOMAIN toClient' : toClient'[a].type # AckOf(k)
    BY <1>1, <2>2
  <2>8. \A a, b \in DOMAIN toBroker' : toBroker'[a].type = k /\ toBroker'[b].type = k => a = b
    BY <2>4, Zenon
  <2>9. \A i, j \in DOMAIN stack' : stack'[i].op = k /\ stack'[j].op = k => i = j
    BY <2>3, Zenon
  <2> QED BY <2>6, <2>7, <2>8, <2>9, Zenon DEF OneAtATime, InWait, AckOf
<1> QED BY <1>5, <1>6

\* No packet, and no request, of the kind is left.
LEMMA NoneOfKind ==
    ASSUME NEW k \in Kinds,
           \A i, j \in DOMAIN stack' : stack'[i].op = k /\ stack'[j].op = k => i = j,
           \A a \in DOMAIN toBroker' : toBroker'[a].type # k,
           \A a \in DOMAIN toClient' : toClient'[a].type # AckOf(k)
    PROVE  OneAtATime(k)'
BY Zenon DEF OneAtATime, AckOf

LEMMA EmptyQueues == ASSUME TypeInv', ~alive' PROVE DOMAIN toBroker' = {} /\ DOMAIN toClient' = {}
BY DEF TypeInv, FramesOK

LEMMA NextAckInv == TypeInv /\ TypeInv' /\ AckInv /\ [Next]_vars => AckInv'
<1> SUFFICES ASSUME TypeInv, TypeInv', AckInv, [Next]_vars, NEW k \in Kinds \ stray'
             PROVE  OneAtATime(k)'
  BY DEF AckInv
<1> USE Positions
<1>1. ASSUME k \in stray PROVE OneAtATime(k)'
  <2>1. NewSession
    BY <1>1 DEF Next, vars, BrokerActs, SessionDies, BrokerSends, Publish, Subscribe, Unsubscribe, Request,
                Yield, GiveUp, ReadOther, ReadAck, ReadMessage, CallHandler, SkipHandler, HandlerReturns,
                FinishDelivery, history
  <2>2. stack' = <<>> /\ toBroker' = <<>> /\ toClient' = <<>>
    BY <2>1 DEF NewSession, TypeInv, FramesOK
  <2>3. DOMAIN stack' = {} /\ DOMAIN toBroker' = {} /\ DOMAIN toClient' = {}
    BY <2>2
  <2> QED BY <2>3, NoneOfKind
<1>a. SUFFICES ASSUME OneAtATime(k) PROVE OneAtATime(k)'
  BY <1>1 DEF AckInv
<1>2. CASE BrokerActs
  BY <1>2, <1>a, BrokerAck
<1>3. CASE SessionDies
  BY <1>3, <1>a, QuietAck DEF SessionDies
<1>4. CASE NewSession
  BY <1>4, <1>a, QuietAck DEF NewSession, broker
<1>5. ASSUME NEW t \in Topics, BrokerSends(t) PROVE OneAtATime(k)'
  <2> DEFINE p == Packet("PUBLISH", messages', t)
  <2>1. p \in ToClient /\ p.type # AckOf(k)
    <3>1. messages' \in 1..MaxMessages
      BY <1>5, RequestsAssumption DEF BrokerSends, TypeInv, TypeOK
    <3>2. p \in ToClient /\ p.type = "PUBLISH"
      BY <3>1 DEF Packet, ToClient, Messages
    <3> QED BY <3>2, AckKinds DEF AckTypes
  <2>2. toClient' = Append(toClient, p) /\ toClient \in Seq(ToClient)
    BY <1>5 DEF BrokerSends, TypeInv, FramesOK
  <2> HIDE DEF p
  <2>3. \A a \in DOMAIN toClient' : toClient'[a].type = AckOf(k) =>
          a + 0 \in DOMAIN toClient /\ toClient'[a] = toClient[a + 0]
    BY <2>1, <2>2, Sent
  <2>4. stack' = stack /\ toBroker' = toBroker /\ processed' = processed
    BY <1>5 DEF BrokerSends
  <2> QED BY <1>a, <2>3, <2>4, QuietAck
<1>6. ASSUME NEW t \in Topics, Publish(t) \/ Unsubscribe(t) PROVE OneAtATime(k)'
  BY <1>6, <1>a, RequestAck, RequestsAssumption DEF Publish, Unsubscribe, Kinds
<1>7. ASSUME NEW t \in Topics, Subscribe(t) PROVE OneAtATime(k)'
  BY <1>7, <1>a, RequestAck, RequestsAssumption DEF Subscribe, Slots, Kinds
<1>8. CASE Yield
  <2>1. NoneNew /\ NoneGone
    BY <1>8 DEF Yield, NoneNew, NoneGone, Call, Kinds
  <2> QED BY <1>8, <1>a, <2>1, QuietAck DEF Yield, broker, NoneNew, NoneGone
<1>9. CASE GiveUp
  <2>1. /\ NoneNew
        /\ \A i \in DOMAIN stack : stack[i].op \in Kinds /\ stack[i].op # Top.op =>
             i \in DOMAIN stack' /\ stack'[i] = stack[i]
    BY <1>9, EndsOnly DEF GiveUp
  <2>2. toBroker' = toBroker /\ toClient' = toClient /\ processed' = processed /\ alive' = alive
    BY <1>9 DEF GiveUp, broker
  <2>3. CASE alive
    <3>1. k # Top.op
      BY <1>9, <2>3 DEF GiveUp, Kinds
    <3> QED BY <1>a, <2>1, <2>2, <3>1, QuietAck DEF NoneNew
  <2>4. CASE ~alive
    <3>1. \A i, j \in DOMAIN stack' : stack'[i].op = k /\ stack'[j].op = k => i = j
      BY <1>a, <2>1 DEF NoneNew, OneAtATime
    <3> QED BY <2>2, <2>4, <3>1, EmptyQueues, NoneOfKind
  <2> QED BY <2>3, <2>4
<1>10. CASE ReadOther
  BY <1>10, <1>a, ReadFacts, QuietAck DEF ReadOther
<1>11. CASE ReadAck
  <2>1. /\ NoneNew
        /\ \A i \in DOMAIN stack : stack[i].op \in Kinds /\ stack[i].op # Top.op =>
             i \in DOMAIN stack' /\ stack'[i] = stack[i]
    BY <1>11, EndsOnly DEF ReadAck, ReadPacket
  <2>2. /\ readBuf' = toClient[1] /\ 1 \in DOMAIN toClient
        /\ \A a \in DOMAIN toClient' :
             a + 1 \in DOMAIN toClient /\ a + 1 # 1 /\ toClient'[a] = toClient[a + 1]
        /\ toBroker' = toBroker /\ processed' = processed
    BY <1>11, ReadFacts DEF ReadAck
  <2>3. CASE k # Top.op
    BY <1>a, <2>1, <2>2, <2>3, QuietAck DEF NoneNew
  <2>4. CASE k = Top.op
    <3>1. toClient[1].type = AckOf(k)
      BY <1>11, <2>2, <2>4 DEF ReadAck, Awaited
    <3>2. \A a \in DOMAIN toClient' : toClient'[a].type # AckOf(k)
      BY <1>a, <2>2, <3>1 DEF OneAtATime
    <3>3. \A a \in DOMAIN toBroker' : toBroker'[a].type # k
      BY <1>a, <2>2, <3>1 DEF OneAtATime
    <3>4. \A i, j \in DOMAIN stack' : stack'[i].op = k /\ stack'[j].op = k => i = j
      BY <1>a, <2>1 DEF NoneNew, OneAtATime
    <3> QED BY <3>2, <3>3, <3>4, NoneOfKind
  <2> QED BY <2>3, <2>4
<1>12. CASE ReadMessage
  BY <1>12, <1>a, DeliveryOnly, ReadFacts, QuietAck DEF ReadMessage, NoneNew, NoneGone
<1>13. CASE CallHandler \/ SkipHandler \/ HandlerReturns
  <2>1. NoneNew /\ NoneGone
    BY <1>13, DeliveryOnly
  <2>2. toBroker' = toBroker /\ toClient' = toClient /\ processed' = processed
    BY <1>13 DEF CallHandler, SkipHandler, HandlerReturns, broker
  <2> QED BY <1>a, <2>1, <2>2, QuietAck DEF NoneNew, NoneGone
<1>14. CASE FinishDelivery
  <2> DEFINE p == Packet("PUBACK", Top.msg.id, NoTopic)
  <2>1. NoneNew /\ NoneGone
    BY <1>14, DeliveryOnly
  <2>2. p \in ToBroker /\ p.type # k
    <3>1. Top \in Deliveries
      BY <1>14, Innermost, FrameFacts DEF FinishDelivery, Delivering, TypeInv, FramesOK, StackOK
    <3> QED BY <3>1 DEF Packet, ToBroker, MessageAcks, Deliveries, Loops, Messages, Kinds
  <2>3. /\ toBroker' = IF alive THEN Append(toBroker, p) ELSE toBroker
        /\ toBroker \in Seq(ToBroker) /\ toClient' = toClient /\ processed' = processed
    BY <1>14 DEF FinishDelivery, broker, TypeInv, FramesOK
  <2> HIDE DEF p
  <2>4. \A a \in DOMAIN toBroker' : toBroker'[a].type = k =>
          a + 0 \in DOMAIN toBroker /\ toBroker'[a] = toBroker[a + 0]
    <3>1. CASE alive
      BY <2>2, <2>3, <3>1, Sent
    <3>2. CASE ~alive
      BY <2>3, <3>2
    <3> QED BY <3>1, <3>2
  <2> QED BY <1>a, <2>1, <2>3, <2>4, QuietAck DEF NoneNew, NoneGone
<1>15. CASE UNCHANGED vars
  BY <1>15, <1>a, QuietAck DEF vars, broker
<1> QED
  BY <1>2, <1>3, <1>4, <1>5, <1>6, <1>7, <1>8, <1>9, <1>10, <1>11, <1>12, <1>13, <1>14, <1>15 DEF Next

\* The acknowledgement that is read was sent for the request that waits.
LEMMA OwnAck ==
    ASSUME TypeInv, TypeInv', AckInv, ReadAck, Top.op \notin stray
    PROVE  Top.id \in processed'
<1>1. stack \in Seq(Frames) /\ stack # <<>> /\ Top.op \in Kinds
  BY DEF ReadAck, ReadPacket, Waiting, Awaited, TypeInv, FramesOK, StackOK
<1>2. Len(stack) \in DOMAIN stack /\ Top = stack[Len(stack)]
  BY <1>1, Innermost
<1>3. OneAtATime(Top.op)
  BY <1>1 DEF AckInv
<1>4. 1 \in DOMAIN toClient /\ toClient[1].type = AckOf(Top.op) /\ processed' = processed
  BY ReadFacts DEF ReadAck, Awaited
<1>5. InWait(Top.op, toClient[1].id) /\ toClient[1].id \in processed
  BY <1>3, <1>4 DEF OneAtATime
<1>6. toClient[1].id = Top.id
  BY <1>2, <1>3, <1>5 DEF OneAtATime, InWait
<1> QED BY <1>4, <1>5, <1>6

\* A request that returns SUCCESS was acted on by the broker, although packets are
\* told apart by their type only, as long as no acknowledgement of its kind is
\* astray: one request of a kind at a time keeps them apart.
THEOREM AcksOwned == Spec => AckIsOwn
<1>1. TypeInv /\ TypeInv' /\ AckInv /\ [Next]_vars
        => [done' # done => done'.id \in processed \/ done'.type \in stray]_vars
  <2> SUFFICES ASSUME TypeInv, TypeInv', AckInv, Next, done' # done
               PROVE  done'.id \in processed \/ done'.type \in stray
    OBVIOUS
  <2>1. ReadAck
    BY DEF Next, BrokerActs, SessionDies, NewSession, BrokerSends, Publish, Subscribe, Unsubscribe, Request,
           Yield, GiveUp, ReadOther, ReadMessage, CallHandler, SkipHandler, HandlerReturns,
           FinishDelivery, history
  <2>2. done'.id = Top.id /\ done'.type = Top.op /\ processed' = processed
    BY <2>1 DEF ReadAck, ReadPacket, Packet, broker
  <2> QED BY <2>1, <2>2, OwnAck
<1>2. Spec => []TypeInv /\ []AckInv
  BY AlwaysTypeInv, InitAckInv, NextAckInv, PTL DEF Spec
<1> QED
  BY <1>1, <1>2, PTL DEF Spec, AckIsOwn
=============================================================================
