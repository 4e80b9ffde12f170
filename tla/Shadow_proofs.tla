---------------------------- MODULE Shadow_proofs ----------------------------
(***************************************************************************)
(* What holds of the shadow actions for every number of keys, records,     *)
(* subscriptions, nested calls and callbacks: ranges, that they implement  *)
(* ShadowActions, and that the answers of an action that waits are heard.  *)
(***************************************************************************)
EXTENDS Shadow, FiniteSets, FiniteSetTheorems, SequenceTheorems, TLAPS

Acts == [op : {"action"}, req : Requests, slot : Slots, sticky : BOOLEAN, a : 0..NumTopics,
         b : 0..NumTopics, pc : Answers \union {"undo", "publish"}, failed : BOOLEAN]
Reports == [op : {"answered", "expiring"}, slot : 1..NumAcks + 1, req : 0..MaxCalls,
            key : Keys \union {NoTopic}, pc : Answers \union {"callback", "scan"},
            entry : 0..NumTopics]
Yields == [op : {"yield"}, pc : {"yield"}]
Frames == Acts \union Reports \union Yields

Entry == [topic : Topics \union {NoTopic}, count : 0..MaxCalls, sticky : BOOLEAN, free : BOOLEAN]
Record == [req : 0..MaxCalls, free : BOOLEAN]

\* The entries and the action that a frame works on are there.
ActOK(f, started, list) ==
    /\ f.req \in started
    /\ f.pc \in Answers => f.a \in Entries /\ f.b \in Entries
    /\ f.pc = "undo" => f.a \in Entries /\ list[f.a].topic \in Topics
ReportOK(f) ==
    /\ f.pc # "scan" => f.slot \in Slots
    /\ f.pc = "scan" => f.op = "expiring"
    /\ f.entry > 0 => f.pc \in Answers
    /\ f.pc \in Answers => f.key \in Keys
FrameOK(f, started, list) ==
    /\ f \in Frames
    /\ f.op = "action" => ActOK(f, started, list)
    /\ f.op \in {"answered", "expiring"} => ReportOK(f)
StackOK(st, started, list) ==
    /\ st \in Seq(Frames)
    /\ Len(st) <= MaxDepth
    /\ \A i \in DOMAIN st : FrameOK(st[i], started, list)

\* The count of a subscription is at most that of the actions.
TypeInv ==
    /\ TypeOK
    /\ StackOK(stack, DOMAIN keyOf, subs)
    /\ \A j \in Entries : subs[j].count <= Len(keyOf)

\* What an action that was not published yet stands for.
ActFresh(p) ==
    LET f == stack[p]
    IN /\ outcome[f.req] = "none"
       /\ \A i \in Slots : acks[i].req # f.req
       /\ \A q \in DOMAIN stack : stack[q].op = "action" /\ stack[q].req = f.req => q = p
       /\ acted \/ (p = 1 /\ acks[f.slot].free)

\* An answer that is reported keeps its record, and nobody further in uses it.
AnswerOwns(p) ==
    LET f == stack[p]
    IN /\ acks[f.slot] = [req |-> f.req, free |-> FALSE]
       /\ f.req \notin service
       /\ \A q \in DOMAIN stack :
            q > p => ~(stack[q].op \in {"action", "answered"} /\ stack[q].slot = f.slot)

\* A time-out is reported by the outermost frame; its record may be taken over,
\* but only by an action of a callback.
ExpiryHolds(p) ==
    LET f == stack[p]
    IN /\ p = 1
       /\ f.pc = "callback" =>
            /\ acks[f.slot].req \in DOMAIN keyOf
            /\ acted \/ acks[f.slot] = [req |-> f.req, free |-> FALSE]

\* An action that has a record waits, or its callback is being called.
Waits(i) == outcome[acks[i].req] = "pending"
BeingAnswered(i) == \E p \in DOMAIN stack :
    stack[p].op = "answered" /\ stack[p].slot = i /\ stack[p].req = acks[i].req
BeingTimedOut(i) ==
    /\ outcome[acks[i].req] = "timeout"
    /\ \E p \in DOMAIN stack : /\ stack[p].op = "expiring" /\ stack[p].pc = "callback"
                               /\ stack[p].slot = i /\ stack[p].req = acks[i].req

RecordInv ==
    /\ \A i \in Slots : acks[i].req \in 0..Len(keyOf)
    /\ \A i, j \in Slots : ~acks[i].free /\ ~acks[j].free /\ acks[i].req = acks[j].req => i = j
    /\ \A i \in Slots : acks[i].free \/ Waits(i) \/ BeingAnswered(i) \/ BeingTimedOut(i)
    /\ \A r \in Requests : outcome[r] # "none" => r <= Len(keyOf)
    /\ \A p \in DOMAIN stack :
         /\ stack[p].op = "action" => ActFresh(p)
         /\ stack[p].op = "answered" => AnswerOwns(p)
         /\ stack[p].op = "expiring" => ExpiryHolds(p)
         /\ stack[p].pc = "callback" => acted \/ p = Len(stack)

----------------------------------------------------------------------------
(* Calls and callbacks in progress.                                        *)

LEMMA FrameFacts ==
    /\ \A f \in Frames : /\ f.op = "action" => f \in Acts
                         /\ f.op \in {"answered", "expiring"} => f \in Reports
                         /\ f.op = "yield" => f \in Yields
                         /\ f.op \in {"action", "answered", "expiring", "yield"}
    /\ \A f \in Frames : /\ f.pc \in {"publish", "undo"} => f.op = "action"
                         /\ f.pc \in {"callback", "scan"} => f.op \in {"answered", "expiring"}
BY DEF Frames, Acts, Reports, Yields, Answers

LEMMA Innermost ==
    ASSUME stack \in Seq(Frames), stack # <<>>
    PROVE  /\ Top \in Frames /\ Top = stack[Len(stack)]
           /\ Len(stack) \in Nat \ {0} /\ Len(stack) \in DOMAIN stack
           /\ DOMAIN stack = 1..Len(stack)
           /\ Below \in Seq(Frames) /\ Len(Below) = Len(stack) - 1
           /\ \A i \in DOMAIN Below : i \in DOMAIN stack /\ i < Len(stack) /\ Below[i] = stack[i]
           /\ \A i \in DOMAIN stack : i # Len(stack) => i \in DOMAIN Below /\ i < Len(stack)
<1>1. Len(stack) \in Nat \ {0} /\ Len(stack) \in DOMAIN stack /\ DOMAIN stack = 1..Len(stack)
  BY EmptySeq
<1>2. Top \in Frames /\ Top = stack[Len(stack)]
  BY <1>1, ElementOfSeq DEF Top
<1>3. Below \in Seq(Frames) /\ Len(Below) = Len(stack) - 1 /\ \A i \in 1..Len(stack) - 1 : Below[i] = stack[i]
  <2> DEFINE n == Len(stack) - 1
  <2>1. n \in Int /\ \A i \in 1..n : stack[i] \in Frames
    BY <1>1, ElementOfSeq
  <2> HIDE DEF n
  <2>2. /\ SubSeq(stack, 1, n) \in Seq(Frames)
        /\ Len(SubSeq(stack, 1, n)) = IF 1 <= n THEN n - 1 + 1 ELSE 0
        /\ \A i \in 1..n - 1 + 1 : SubSeq(stack, 1, n)[i] = stack[1 + i - 1]
    BY <2>1, SubSeqProperties
  <2>3. n \in Nat /\ n - 1 + 1 = n /\ n = Len(stack) - 1 /\ \A i \in 1..n : 1 + i - 1 = i
    BY <1>1 DEF n
  <2>4. Len(SubSeq(stack, 1, n)) = n /\ \A i \in 1..n : SubSeq(stack, 1, n)[i] = stack[i]
    BY <2>2, <2>3
  <2> QED BY <2>2, <2>3, <2>4 DEF Below
<1>4. DOMAIN Below = 1..Len(stack) - 1
  BY <1>3
<1> QED BY <1>1, <1>2, <1>3, <1>4

LEMMA Appended ==
    ASSUME NEW S, NEW seq \in Seq(S), NEW x \in S
    PROVE  /\ Append(seq, x) \in Seq(S)
           /\ Len(Append(seq, x)) = Len(seq) + 1
           /\ \A i \in 1..Len(seq) : Append(seq, x)[i] = seq[i]
           /\ Append(seq, x)[Len(seq) + 1] = x
OBVIOUS

\* The innermost frame is replaced by another.
LEMMA Replaced ==
    ASSUME stack \in Seq(Frames), stack # <<>>, NEW frame \in Frames
    PROVE  /\ Replace(frame) \in Seq(Frames)
           /\ DOMAIN Replace(frame) = DOMAIN stack /\ Len(Replace(frame)) = Len(stack)
           /\ \A i \in DOMAIN stack : Replace(frame)[i] = IF i = Len(stack) THEN frame ELSE stack[i]
<1>1. /\ Len(stack) \in Nat \ {0} /\ DOMAIN stack = 1..Len(stack)
      /\ Below \in Seq(Frames) /\ Len(Below) = Len(stack) - 1
  BY Innermost
<1>2. /\ Replace(frame) \in Seq(Frames) /\ Len(Replace(frame)) = Len(stack)
      /\ \A i \in 1..Len(stack) - 1 : Replace(frame)[i] = Below[i]
      /\ Replace(frame)[Len(stack)] = frame
  <2>1. Len(Below) \in Nat /\ Len(Below) + 1 = Len(stack) /\ Len(stack) - 1 = Len(Below)
    BY <1>1
  <2>2. /\ Append(Below, frame) \in Seq(Frames)
        /\ Len(Append(Below, frame)) = Len(Below) + 1
        /\ \A i \in 1..Len(Below) : Append(Below, frame)[i] = Below[i]
        /\ Append(Below, frame)[Len(Below) + 1] = frame
    BY <1>1, Appended, Zenon
  <2>3. Replace(frame) = Append(Below, frame)
    BY DEF Replace
  <2> QED BY <2>1, <2>2, <2>3
<1>3. DOMAIN Replace(frame) = 1..Len(stack)
  BY <1>1, <1>2
<1>4. \A i \in 1..Len(stack) - 1 : Below[i] = stack[i]
  BY <1>1, Innermost
<1> QED BY <1>1, <1>2, <1>3, <1>4

LEMMA Added ==
    ASSUME stack \in Seq(Frames), NEW frame \in Frames
    PROVE  /\ Append(stack, frame) \in Seq(Frames)
           /\ Len(Append(stack, frame)) = Len(stack) + 1 /\ Len(stack) \in Nat
           /\ \A i \in DOMAIN stack : i \in DOMAIN Append(stack, frame) /\ i <= Len(stack)
                                      /\ Append(stack, frame)[i] = stack[i]
           /\ \A i \in DOMAIN Append(stack, frame) : i \notin DOMAIN stack =>
                i = Len(stack) + 1 /\ Append(stack, frame)[i] = frame
<1>1. Len(stack) \in Nat /\ DOMAIN stack = 1..Len(stack)
  OBVIOUS
<1>2. /\ Append(stack, frame) \in Seq(Frames) /\ Len(Append(stack, frame)) = Len(stack) + 1
      /\ \A i \in 1..Len(stack) : Append(stack, frame)[i] = stack[i]
      /\ Append(stack, frame)[Len(stack) + 1] = frame
  OBVIOUS
<1>3. DOMAIN Append(stack, frame) = 1..Len(stack) + 1
  BY <1>2
<1> QED BY <1>1, <1>2, <1>3

LEMMA StackRange == ASSUME NEW st, NEW started, NEW list, StackOK(st, started, list)
                    PROVE  Len(st) \in 0..MaxDepth
<1>1. Len(st) \in Nat /\ Len(st) <= MaxDepth
  BY DEF StackOK
<1> QED BY <1>1, ShadowAssumption

LEMMA PoppedOK ==
    ASSUME NEW started, NEW list, StackOK(stack, started, list), stack # <<>>
    PROVE  StackOK(Below, started, list)
<1>1. stack \in Seq(Frames) /\ Len(stack) <= MaxDepth /\ \A i \in DOMAIN stack : FrameOK(stack[i], started, list)
  BY DEF StackOK
<1>2. Len(Below) <= MaxDepth
  BY <1>1, Innermost, ShadowAssumption
<1>3. \A i \in DOMAIN Below : FrameOK(Below[i], started, list)
  BY <1>1, Innermost
<1> QED BY <1>1, <1>2, <1>3, Innermost DEF StackOK

LEMMA ReplacedOK ==
    ASSUME NEW started, NEW list, StackOK(stack, started, list), stack # <<>>,
           NEW frame, FrameOK(frame, started, list)
    PROVE  StackOK(Replace(frame), started, list)
<1>1. stack \in Seq(Frames) /\ Len(stack) <= MaxDepth /\ \A i \in DOMAIN stack : FrameOK(stack[i], started, list)
  BY DEF StackOK
<1>2. frame \in Frames
  BY DEF FrameOK
<1>3. \A i \in DOMAIN stack : FrameOK(Replace(frame)[i], started, list)
  <2> TAKE i \in DOMAIN stack
  <2>1. Replace(frame)[i] = frame \/ Replace(frame)[i] = stack[i]
    BY <1>1, <1>2, Replaced
  <2> QED BY <1>1, <2>1
<1> QED BY <1>1, <1>2, <1>3, Replaced DEF StackOK

LEMMA PushedOK ==
    ASSUME NEW started, NEW list, StackOK(stack, started, list), Len(stack) < MaxDepth,
           NEW frame, FrameOK(frame, started, list)
    PROVE  StackOK(Append(stack, frame), started, list)
<1>1. stack \in Seq(Frames) /\ \A i \in DOMAIN stack : FrameOK(stack[i], started, list)
  BY DEF StackOK
<1>2. frame \in Frames
  BY DEF FrameOK
<1>3. \A i \in DOMAIN Append(stack, frame) : FrameOK(Append(stack, frame)[i], started, list)
  <2> TAKE i \in DOMAIN Append(stack, frame)
  <2>1. Append(stack, frame)[i] = frame \/ (i \in DOMAIN stack /\ Append(stack, frame)[i] = stack[i])
    BY <1>1, <1>2, Added
  <2> QED BY <1>1, <2>1
<1>4. Len(Append(stack, frame)) <= MaxDepth
  BY <1>1, <1>2, Added, ShadowAssumption
<1> QED BY <1>1, <1>2, <1>3, <1>4, Added DEF StackOK

\* More actions, and entries that have got another topic.
TopicsKept(list, later) == \A j \in Entries : list[j].topic \in Topics => later[j].topic \in Topics
LEMMA LaterOK ==
    ASSUME NEW st, NEW started, NEW list, StackOK(st, started, list),
           NEW started2, started \subseteq started2, NEW later, TopicsKept(list, later)
    PROVE  StackOK(st, started2, later)
<1>1. ASSUME NEW f, FrameOK(f, started, list) PROVE FrameOK(f, started2, later)
  BY <1>1 DEF FrameOK, ActOK, TopicsKept
<1> QED BY <1>1 DEF StackOK

----------------------------------------------------------------------------
(* Type correctness.                                                       *)

LEMMA TypeFacts ==
    ASSUME TypeInv
    PROVE  /\ stack \in Seq(Frames) /\ StackOK(stack, DOMAIN keyOf, subs)
           /\ keyOf \in Seq(Keys) /\ DOMAIN keyOf = 1..Len(keyOf) /\ Len(keyOf) \in 0..MaxCalls
           /\ \A r \in DOMAIN keyOf : keyOf[r] \in Keys
           /\ acks \in [Slots -> Record] /\ \A i \in Slots : acks[i].free \/ acks[i].req > 0
           /\ subs \in [Entries -> Entry] /\ outcome \in [Requests -> Outcomes]
           /\ handlers \subseteq Topics /\ deaf \subseteq handlers /\ acted \in BOOLEAN
<1>1. stack \in Seq(Frames) /\ StackOK(stack, DOMAIN keyOf, subs)
  BY DEF TypeInv, StackOK
<1>2. keyOf \in Seq(Keys) /\ DOMAIN keyOf = 1..Len(keyOf) /\ Len(keyOf) \in 0..MaxCalls
  BY ShadowAssumption DEF TypeInv, TypeOK
<1>3. \A r \in DOMAIN keyOf : keyOf[r] \in Keys
  BY <1>2, ElementOfSeq
<1>4. acted \in BOOLEAN
  BY Zenon DEF TypeInv, TypeOK
<1> QED BY <1>1, <1>2, <1>3, <1>4 DEF TypeInv, TypeOK, Record, Entry

LEMMA TopFacts ==
    ASSUME TypeInv, stack # <<>>
    PROVE  /\ FrameOK(Top, DOMAIN keyOf, subs) /\ Top \in Frames
           /\ Top.op = "action" => Top \in Acts /\ ActOK(Top, DOMAIN keyOf, subs)
           /\ Top.op \in {"answered", "expiring"} => Top \in Reports /\ ReportOK(Top)
<1>1. stack \in Seq(Frames) /\ \A i \in DOMAIN stack : FrameOK(stack[i], DOMAIN keyOf, subs)
  BY DEF TypeInv, StackOK
<1>2. FrameOK(Top, DOMAIN keyOf, subs) /\ Top \in Frames
  BY <1>1, Innermost
<1> QED BY <1>2, FrameFacts DEF FrameOK

\* The conjuncts of the invariant, after a step.
LEMMA TypeAfter ==
    ASSUME StackOK(stack', DOMAIN keyOf', subs'),
           keyOf' \in Seq(Keys) /\ Len(keyOf') <= MaxCalls,
           acks' \in [Slots -> Record], \A i \in Slots : acks'[i].free \/ acks'[i].req > 0,
           expired' \subseteq Slots,
           subs' \in [Entries -> Entry], \A j \in Entries : subs'[j].count <= Len(keyOf'),
           deaf' \subseteq handlers' /\ handlers' \subseteq Topics,
           service' \subseteq Requests, faults' \in 0..MaxFaults,
           outcome' \in [Requests -> Outcomes], acted' \in BOOLEAN, troubled' \subseteq Keys
    PROVE  TypeInv'
<1>1. Len(stack') \in 0..MaxDepth
  BY StackRange
<1> QED BY <1>1 DEF TypeInv, TypeOK, Record, Entry

LEMMA FaultTyped == ASSUME TypeInv, Fault PROVE faults' \in 0..MaxFaults
BY ShadowAssumption DEF Fault, TypeInv, TypeOK

LEMMA DisplacedTyped == ASSUME TypeInv, NEW slot \in Slots, NEW req
                        PROVE  Displaced(slot, req) \in [Requests -> Outcomes]
<1>1. "dropped" \in Outcomes
  BY DEF Outcomes
<1> QED BY <1>1, TypeFacts DEF Displaced

LEMMA UsesTyped == \A u \in Uses : u[1] \in Keys /\ u[2] \in BOOLEAN
BY ShadowAssumption

\* Every start: the new frame, and the rest as it was.
LEMMA StartTyped ==
    ASSUME TypeInv, NEW k \in Keys, NEW sticky \in BOOLEAN,
           NEW pc \in {"accepted", "undo", "publish"}, NEW a \in 0..NumTopics, NEW b \in 0..NumTopics,
           StartAction(k, sticky, pc, a, b),
           subs' \in [Entries -> Entry], TopicsKept(subs, subs'),
           \A j \in Entries : subs'[j].count <= Len(keyOf) + 1,
           pc = "accepted" => a \in Entries /\ b \in Entries,
           pc = "undo" => a \in Entries /\ subs[a].topic \in Topics,
           troubled' \subseteq Keys
    PROVE  TypeInv'
<1>1. /\ keyOf' \in Seq(Keys) /\ Len(keyOf') = Len(keyOf) + 1 /\ Len(keyOf') \in Requests
      /\ DOMAIN keyOf' = 1..Len(keyOf) + 1
  BY TypeFacts, ShadowAssumption DEF StartAction, Requests
<1>2. acted' \in BOOLEAN
  BY Zenon DEF StartAction
<1>3. PICK i \in Slots : stack' = Append(stack, [op |-> "action", req |-> Len(keyOf) + 1, slot |-> i,
                                                 sticky |-> sticky, a |-> a, b |-> b, pc |-> pc,
                                                 failed |-> FALSE])
  BY DEF StartAction
<1> DEFINE frame == [op |-> "action", req |-> Len(keyOf) + 1, slot |-> i, sticky |-> sticky,
                     a |-> a, b |-> b, pc |-> pc, failed |-> FALSE]
<1>4. frame \in Acts
  BY <1>1 DEF Acts, Answers
<1>5. ActOK(frame, DOMAIN keyOf', subs')
  <2>1. frame.req \in DOMAIN keyOf'
    BY <1>1, TypeFacts
  <2> QED BY <2>1 DEF ActOK, TopicsKept, Answers
<1>6. FrameOK(frame, DOMAIN keyOf', subs')
  BY <1>4, <1>5 DEF FrameOK, Frames
<1> HIDE DEF frame
<1>7. StackOK(stack, DOMAIN keyOf', subs')
  <2>1. DOMAIN keyOf \subseteq DOMAIN keyOf'
    BY <1>1, TypeFacts
  <2> QED BY <2>1, TypeFacts, LaterOK
<1>8. StackOK(stack', DOMAIN keyOf', subs')
  <2>1. stack' = Append(stack, frame) /\ Len(stack) < MaxDepth
    BY <1>3 DEF StartAction, frame
  <2> QED BY <1>6, <1>7, <2>1, PushedOK
<1>9. expired \subseteq Slots /\ service \subseteq Requests /\ faults \in 0..MaxFaults
  BY DEF TypeInv, TypeOK
<1>10. UNCHANGED <<acks, expired, handlers, deaf, service, faults, outcome>>
  BY DEF StartAction, mqtt, world
<1> QED
  BY <1>1, <1>2, <1>8, <1>9, <1>10, TypeFacts, TypeAfter DEF Requests

\* The step of a frame that stays or goes, with the list of subscriptions and the
\* records that it changes.
LEMMA FrameTyped ==
    ASSUME TypeInv, stack # <<>>, UNCHANGED <<keyOf, acted>>,
           subs' \in [Entries -> Entry], TopicsKept(subs, subs'),
           \A j \in Entries : subs'[j].count <= Len(keyOf),
           \/ stack' = Below
           \/ \E frame : FrameOK(frame, DOMAIN keyOf, subs) /\ stack' = Replace(frame),
           acks' \in [Slots -> Record], \A i \in Slots : acks'[i].free \/ acks'[i].req > 0,
           expired' \subseteq Slots,
           deaf' \subseteq handlers' /\ handlers' \subseteq Topics,
           service' \subseteq Requests, faults' \in 0..MaxFaults,
           outcome' \in [Requests -> Outcomes], troubled' \subseteq Keys
    PROVE  TypeInv'
<1>1. StackOK(stack', DOMAIN keyOf, subs)
  BY TypeFacts, PoppedOK, ReplacedOK
<1>2. StackOK(stack', DOMAIN keyOf', subs')
  BY <1>1, LaterOK
<1>3. keyOf' \in Seq(Keys) /\ Len(keyOf') <= MaxCalls /\ acted' \in BOOLEAN
  BY TypeFacts
<1> QED
  BY <1>2, <1>3, TypeAfter

\* The calls that go on with the subscriptions do so for a key.
LEMMA WorkersKeyed ==
    ASSUME TypeInv
    PROVE  /\ \A f \in Working : FrameKey(stack[f]) \in Keys
           /\ \A calls \in SUBSET Working : KeysOf(calls) \subseteq Keys
<1>1. ASSUME NEW f \in Working PROVE FrameKey(stack[f]) \in Keys
  <2>1. f \in DOMAIN stack /\ FrameOK(stack[f], DOMAIN keyOf, subs)
    BY <1>1, TypeFacts DEF Working, StackOK
  <2>2. CASE stack[f].op = "action"
    BY <2>1, <2>2, TypeFacts DEF FrameOK, ActOK, FrameKey
  <2>3. CASE stack[f].op # "action"
    <3>1. stack[f].op \in {"answered", "expiring"} /\ stack[f].entry > 0
      BY <1>1, <2>3 DEF Working, Exchanging
    <3> QED BY <2>1, <2>3, <3>1 DEF FrameOK, ReportOK, FrameKey
  <2> QED BY <2>2, <2>3
<1> QED BY <1>1 DEF KeysOf

LEMMA DisorderTyped ==
    ASSUME TypeInv, NEW k \in Keys
    PROVE  /\ Crossing(k) \subseteq Keys
           /\ \A a, b : Retaking(k, a, b) \subseteq Keys
           /\ \A j : KeysOf(Holders(j)) \subseteq Keys
<1>1. \A j : Holders(j) \subseteq Working
  BY DEF Holders
<1> QED BY <1>1, WorkersKeyed DEF Crossing, Retaking

LEMMA InitTypeInv == Init => TypeInv
<1> SUFFICES ASSUME Init PROVE TypeInv
  OBVIOUS
<1>1. StackOK(stack, DOMAIN keyOf, subs) /\ keyOf \in Seq(Keys) /\ Len(keyOf) = 0 /\ Len(stack) = 0
  BY EmptySeq, ShadowAssumption DEF Init, StackOK
<1>2. acted \in BOOLEAN
  BY Zenon DEF Init
<1>3. NoRecord \in Record /\ NoRecord.free /\ NoEntry \in Entry /\ NoEntry.count = 0
  BY ShadowAssumption DEF NoRecord, Record, NoEntry, Entry
<1>4. /\ acks \in [Slots -> Record] /\ \A i \in Slots : acks[i].free
      /\ subs \in [Entries -> Entry] /\ \A j \in Entries : subs[j].count <= Len(keyOf)
  BY <1>1, <1>3 DEF Init
<1> QED
  BY <1>1, <1>2, <1>4, ShadowAssumption DEF Init, TypeInv, TypeOK, Record, Entry, Outcomes

LEMMA StartTypeInv == TypeInv /\ Start => TypeInv'
<1> SUFFICES ASSUME TypeInv, NEW u \in Uses,
                    \/ StartPresent(u[1], u[2])
                    \/ StartSubscribing(u[1], u[2])
                    \/ StartCrowded(u[1], u[2])
             PROVE  TypeInv'
  BY DEF Start
<1> DEFINE k == u[1]
           sticky == u[2]
<1>1. k \in Keys /\ sticky \in BOOLEAN
  BY UsesTyped
<1>2. subs \in [Entries -> Entry] /\ Len(keyOf) \in 0..MaxCalls
      /\ (\A j \in Entries : subs[j].count <= Len(keyOf)) /\ troubled \subseteq Keys
  BY TypeFacts DEF TypeInv, TypeOK
<1> HIDE DEF k, sticky
<1>3. CASE StartPresent(k, sticky)
  <2>1. StartAction(k, sticky, "publish", 0, 0)
    BY <1>3 DEF StartPresent
  <2>a. Len(keyOf) \in Nat /\ Len(keyOf) < MaxCalls /\ MaxCalls \in Nat
    BY <1>2, <2>1, ShadowAssumption DEF StartAction
  <2>2. \A j \in Entries : /\ subs'[j] \in Entry /\ subs'[j].count <= Len(keyOf) + 1
                           /\ subs'[j].topic = subs[j].topic
    <3> TAKE j \in Entries
    <3>1. subs[j] \in Entry /\ subs[j].count <= Len(keyOf) /\ subs[j].count + 1 \in 0..MaxCalls
      <4>1. subs[j] \in Entry /\ subs[j].count <= Len(keyOf)
        BY <1>2
      <4>2. subs[j].count \in Nat
        BY <4>1 DEF Entry
      <4> QED BY <2>a, <4>1, <4>2
    <3>2. CASE ~subs[j].free /\ subs[j].topic \in {k} \X Answers
      <4>1. subs'[j] = [subs[j] EXCEPT !.count = @ + 1, !.sticky = sticky]
        BY <1>3, <3>2 DEF StartPresent
      <4>2. /\ subs'[j] \in Entry /\ subs'[j].count = subs[j].count + 1
            /\ subs'[j].topic = subs[j].topic
        BY <1>1, <3>1, <4>1 DEF Entry
      <4> QED BY <1>2, <3>1, <4>2 DEF Entry
    <3>3. CASE ~(~subs[j].free /\ subs[j].topic \in {k} \X Answers)
      <4>1. subs'[j] = subs[j]
        BY <1>3, <3>3 DEF StartPresent
      <4> QED BY <1>2, <3>1, <4>1 DEF Entry
    <3> QED BY <3>2, <3>3
  <2>3. subs' \in [Entries -> Entry] /\ TopicsKept(subs, subs')
    <3>1. subs' = [j \in Entries |-> subs'[j]]
      BY <1>3 DEF StartPresent
    <3> QED BY <2>2, <3>1 DEF TopicsKept
  <2>4. troubled' \subseteq Keys
    BY <1>1, <1>2, <1>3, DisorderTyped DEF StartPresent
  <2> QED BY <1>1, <2>1, <2>2, <2>3, <2>4, StartTyped, ShadowAssumption
<1>4. CASE StartSubscribing(k, sticky)
  <2>1. PICK a \in Entries, b \in Entries :
          /\ a \in FreeEntries /\ b \in FreeEntries /\ a # b
          /\ StartAction(k, sticky, "accepted", a, b)
          /\ subs' = [subs EXCEPT ![a].free = FALSE, ![a].topic = <<k, "accepted">>, ![b].free = FALSE]
          /\ troubled' = troubled \union Crossing(k) \union Retaking(k, a, b)
    BY <1>4 DEF StartSubscribing, Least, FreeEntries
  <2>2. \A j \in Entries : /\ subs'[j] \in Entry /\ subs'[j].count = subs[j].count
                           /\ subs'[j].topic \in {subs[j].topic, <<k, "accepted">>}
    <3>1. <<k, "accepted">> \in Topics
      BY <1>1 DEF Topics, Answers
    <3>2. subs[a] \in Entry /\ subs[b] \in Entry
      BY <1>2
    <3>3. /\ subs'[a] = [subs[a] EXCEPT !.free = FALSE, !.topic = <<k, "accepted">>]
          /\ subs'[b] = [subs[b] EXCEPT !.free = FALSE]
          /\ \A j \in Entries : j # a /\ j # b => subs'[j] = subs[j]
      BY <1>2, <2>1, <3>2 DEF Entry
    <3>4. /\ subs'[a] \in Entry /\ subs'[a].count = subs[a].count /\ subs'[a].topic = <<k, "accepted">>
          /\ subs'[b] \in Entry /\ subs'[b].count = subs[b].count /\ subs'[b].topic = subs[b].topic
      BY <3>1, <3>2, <3>3 DEF Entry
    <3> QED BY <1>2, <3>3, <3>4
  <2>3. subs' \in [Entries -> Entry] /\ TopicsKept(subs, subs')
    <3>1. subs' = [j \in Entries |-> subs'[j]]
      BY <1>2, <2>1
    <3> QED BY <1>1, <2>2, <3>1 DEF TopicsKept, Topics, Answers
  <2>4. troubled' \subseteq Keys
    BY <1>1, <1>2, <2>1, DisorderTyped
  <2>5. \A j \in Entries : subs'[j].count <= Len(keyOf) + 1
    BY <1>2, <2>2 DEF Entry
  <2>6. a \in 0..NumTopics /\ b \in 0..NumTopics
    BY ShadowAssumption DEF Entries
  <2> QED BY <1>1, <2>1, <2>3, <2>4, <2>5, <2>6, StartTyped
<1>5. CASE StartCrowded(k, sticky)
  <2>1. /\ subs' \in [Entries -> Entry] /\ TopicsKept(subs, subs')
        /\ \A j \in Entries : subs'[j].count <= Len(keyOf) + 1
    BY <1>2, <1>5 DEF StartCrowded, TopicsKept, Entry
  <2>2. CASE StartAction(k, sticky, "publish", 0, 0) /\ troubled' = troubled \union {k}
    BY <1>1, <1>2, <2>1, <2>2, StartTyped, ShadowAssumption
  <2>3. ASSUME NEW j \in Entries, subs[j].topic \in handlers, StartAction(k, sticky, "undo", j, 0),
               troubled' = troubled \union {k, subs[j].topic[1]}
        PROVE  TypeInv'
    <3>1. subs[j].topic \in Topics /\ subs[j].topic[1] \in Keys
      BY <2>3, TypeFacts DEF Topics
    <3> QED BY <1>1, <1>2, <2>1, <2>3, <3>1, StartTyped, ShadowAssumption DEF Entries
  <2> QED BY <1>5, <2>2, <2>3 DEF StartCrowded, FreeEntries
<1> QED BY <1>3, <1>4, <1>5 DEF k, sticky

\* The list of subscriptions as it was: for the steps that leave it alone.
LEMMA SameList == ASSUME TypeInv
                  PROVE  /\ subs \in [Entries -> Entry] /\ TopicsKept(subs, subs)
                         /\ \A j \in Entries : subs[j].count <= Len(keyOf)
BY TypeFacts DEF TypeInv, TopicsKept

\* An entry is freed or counted anew.
LEMMA EntryChanged ==
    ASSUME TypeInv, NEW list \in [Entries -> Entry], TopicsKept(subs, list),
           \A i \in Entries : list[i].count <= Len(keyOf),
           NEW j \in Entries, NEW entry \in Entry, entry.count <= Len(keyOf),
           list[j].topic \in Topics => entry.topic \in Topics,
           NEW later, later = [list EXCEPT ![j] = entry]
    PROVE  /\ later \in [Entries -> Entry] /\ TopicsKept(subs, later)
           /\ \A i \in Entries : later[i].count <= Len(keyOf)
<1>1. \A i \in Entries : later[i] = IF i = j THEN entry ELSE list[i]
  OBVIOUS
<1> QED BY <1>1 DEF TopicsKept

LEMMA EntryFreed ==
    ASSUME TypeInv, NEW j \in Entries, NEW list \in [Entries -> Entry], TopicsKept(subs, list),
           \A i \in Entries : list[i].count <= Len(keyOf)
    PROVE  /\ [list EXCEPT ![j].free = TRUE] \in [Entries -> Entry]
           /\ TopicsKept(subs, [list EXCEPT ![j].free = TRUE])
           /\ \A i \in Entries : [list EXCEPT ![j].free = TRUE][i].count <= Len(keyOf)
<1> DEFINE entry == [list[j] EXCEPT !.free = TRUE]
<1>1. entry \in Entry /\ entry.count = list[j].count /\ entry.topic = list[j].topic
  BY DEF Entry
<1>2. [list EXCEPT ![j].free = TRUE] = [list EXCEPT ![j] = entry]
  OBVIOUS
<1> HIDE DEF entry
<1> QED BY <1>1, <1>2, EntryChanged

LEMMA EntryUsed ==
    ASSUME TypeInv, NEW j \in Entries, NEW sticky, sticky \in BOOLEAN, 1 <= Len(keyOf)
    PROVE  /\ [subs EXCEPT ![j].count = 1, ![j].sticky = sticky] \in [Entries -> Entry]
           /\ TopicsKept(subs, [subs EXCEPT ![j].count = 1, ![j].sticky = sticky])
           /\ \A i \in Entries : [subs EXCEPT ![j].count = 1, ![j].sticky = sticky][i].count <= Len(keyOf)
<1> DEFINE entry == [subs[j] EXCEPT !.count = 1, !.sticky = sticky]
<1>1. subs \in [Entries -> Entry] /\ subs[j] \in Entry
  BY SameList
<1>2. 1 \in 0..MaxCalls
  BY ShadowAssumption
<1>3. entry \in Entry /\ entry.count = 1 /\ entry.topic = subs[j].topic
  BY <1>1, <1>2 DEF Entry
<1>4. [subs EXCEPT ![j].count = 1, ![j].sticky = sticky] = [subs EXCEPT ![j] = entry]
  BY <1>1
<1> HIDE DEF entry
<1> QED BY <1>3, <1>4, SameList, EntryChanged

LEMMA ActTypeInv ==
    TypeInv /\ (SubscribeAccepted \/ SubscribeRejected \/ SubscribeFails \/ UndoEnds \/ Publish \/ PublishFails)
      => TypeInv'
<1> SUFFICES ASSUME TypeInv, Acting,
                    SubscribeAccepted \/ SubscribeRejected \/ SubscribeFails \/ UndoEnds \/ Publish \/ PublishFails
             PROVE  TypeInv'
  BY DEF SubscribeAccepted, SubscribeRejected, SubscribeFails, UndoEnds, Publish, PublishFails
<1>1. stack # <<>> /\ Top \in Acts /\ ActOK(Top, DOMAIN keyOf, subs)
  BY TopFacts DEF Acting
<1>2. /\ Top.req \in DOMAIN keyOf /\ Top.req \in Requests /\ keyOf[Top.req] \in Keys
      /\ 1 <= Len(keyOf) /\ Top.slot \in Slots /\ Top.sticky \in BOOLEAN
  BY <1>1, TypeFacts DEF ActOK, Acts
<1>3. /\ expired \subseteq Slots /\ service \subseteq Requests /\ faults \in 0..MaxFaults /\ troubled \subseteq Keys
      /\ Fault => faults' \in 0..MaxFaults
  BY FaultTyped DEF TypeInv, TypeOK
<1>4. ASSUME NEW pc \in {"rejected", "publish"}, pc = "rejected" => Top.pc = "accepted"
      PROVE  FrameOK([Top EXCEPT !.pc = pc], DOMAIN keyOf, subs)
  <2> DEFINE frame == [Top EXCEPT !.pc = pc]
  <2>1. /\ frame \in Acts /\ frame.pc = pc /\ frame.op = "action" /\ frame.req = Top.req
        /\ frame.a = Top.a /\ frame.b = Top.b
    BY <1>1 DEF Acts, Answers
  <2> HIDE DEF frame
  <2>2. frame.pc \in Answers => frame.a \in Entries /\ frame.b \in Entries
    BY <1>1, <1>4, <2>1 DEF ActOK, Answers
  <2>3. FrameOK(frame, DOMAIN keyOf, subs)
    BY <1>2, <2>1, <2>2, <1>4 DEF FrameOK, ActOK, Frames
  <2> QED BY <2>3 DEF frame
<1>5. \A a \in Answers : <<keyOf[Top.req], a>> \in Topics
  BY <1>2 DEF Topics
<1>6. CASE SubscribeAccepted
  <2> DEFINE k == keyOf[Top.req]
             first == [subs EXCEPT ![Top.a].count = 1, ![Top.a].sticky = Top.sticky]
  <2>1. Top.a \in Entries /\ Top.b \in Entries /\ Top.pc = "accepted"
    BY <1>1, <1>6 DEF SubscribeAccepted, ActOK, Answers
  <2>2. /\ first \in [Entries -> Entry] /\ TopicsKept(subs, first)
        /\ \A j \in Entries : first[j].count <= Len(keyOf)
    BY <1>2, <2>1, EntryUsed
  <2>3. /\ subs' \in [Entries -> Entry] /\ TopicsKept(subs, subs')
        /\ \A j \in Entries : subs'[j].count <= Len(keyOf)
    <3> DEFINE entry == [first[Top.b] EXCEPT !.topic = <<k, "rejected">>]
    <3>1. entry \in Entry /\ entry.count = first[Top.b].count /\ entry.topic \in Topics
      BY <1>5, <2>1, <2>2 DEF Entry, Answers
    <3>2. subs' = [first EXCEPT ![Top.b] = entry]
      BY <1>6, <2>1, TypeFacts DEF SubscribeAccepted
    <3> HIDE DEF entry, first
    <3> QED BY <2>1, <2>2, <3>1, <3>2, EntryChanged
  <2>4. deaf' \subseteq handlers' /\ handlers' \subseteq Topics
    BY <1>5, <1>6, TypeFacts DEF SubscribeAccepted, Answers
  <2>5. \E frame : FrameOK(frame, DOMAIN keyOf, subs) /\ stack' = Replace(frame)
    BY <1>4, <1>6, <2>1 DEF SubscribeAccepted
  <2> QED
    BY <1>1, <1>3, <1>6, <2>3, <2>4, <2>5, FrameTyped, TypeFacts DEF SubscribeAccepted, world
<1>7. CASE SubscribeRejected
  <2>1. Top.b \in Entries /\ Top.pc = "rejected"
    BY <1>1, <1>7 DEF SubscribeRejected, ActOK, Answers
  <2>2. /\ subs' \in [Entries -> Entry] /\ TopicsKept(subs, subs')
        /\ \A j \in Entries : subs'[j].count <= Len(keyOf)
    <3>1. subs' = [subs EXCEPT ![Top.b].count = 1, ![Top.b].sticky = Top.sticky]
      BY <1>7 DEF SubscribeRejected
    <3> QED BY <1>2, <2>1, <3>1, EntryUsed
  <2>3. deaf' \subseteq handlers' /\ handlers' \subseteq Topics
    BY <1>5, <1>7, TypeFacts DEF SubscribeRejected, Answers
  <2>4. \E frame : FrameOK(frame, DOMAIN keyOf, subs) /\ stack' = Replace(frame)
    BY <1>4, <1>7 DEF SubscribeRejected
  <2> QED
    BY <1>1, <1>3, <1>7, <2>2, <2>3, <2>4, FrameTyped, TypeFacts DEF SubscribeRejected, world
<1>8. CASE SubscribeFails
  <2>1. Top.a \in Entries /\ Top.b \in Entries /\ Top.pc \in Answers
    BY <1>1, <1>8 DEF SubscribeFails, ActOK
  <2> DEFINE first == [subs EXCEPT ![Top.a].free = TRUE]
  <2>2. /\ first \in [Entries -> Entry] /\ TopicsKept(subs, first)
        /\ \A j \in Entries : first[j].count <= Len(keyOf)
    BY <2>1, SameList, EntryFreed
  <2>3. /\ subs' \in [Entries -> Entry] /\ TopicsKept(subs, subs')
        /\ \A j \in Entries : subs'[j].count <= Len(keyOf)
    <3>1. subs' = first \/ subs' = [first EXCEPT ![Top.b].free = TRUE]
      BY <1>8, <2>1, TypeFacts DEF SubscribeFails
    <3> HIDE DEF first
    <3>2. CASE subs' = first
      BY <2>2, <3>2
    <3>3. CASE subs' = [first EXCEPT ![Top.b].free = TRUE]
      <4>1. /\ [first EXCEPT ![Top.b].free = TRUE] \in [Entries -> Entry]
            /\ TopicsKept(subs, [first EXCEPT ![Top.b].free = TRUE])
            /\ \A i \in Entries : [first EXCEPT ![Top.b].free = TRUE][i].count <= Len(keyOf)
        BY <2>1, <2>2, EntryFreed, Zenon
      <4> QED BY <3>3, <4>1
    <3> QED BY <3>1, <3>2, <3>3
  <2>4. stack' = Below \/ \E frame : FrameOK(frame, DOMAIN keyOf, subs) /\ stack' = Replace(frame)
    <3>1. CASE subs[Top.a].count = 1 /\ subs[Top.a].topic \in handlers
      <4> DEFINE frame == [Top EXCEPT !.pc = "undo", !.failed = TRUE]
      <4>1. frame \in Acts /\ frame.pc = "undo" /\ frame.a = Top.a /\ frame.req = Top.req
        BY <1>1 DEF Acts
      <4>2. subs[Top.a].topic \in Topics
        BY <3>1, TypeFacts
      <4>3. stack' = Replace(frame)
        BY <1>8, <3>1 DEF SubscribeFails
      <4> HIDE DEF frame
      <4>4. FrameOK(frame, DOMAIN keyOf, subs)
        BY <1>2, <2>1, <4>1, <4>2 DEF FrameOK, ActOK, Frames, Acts, Answers
      <4> QED BY <4>3, <4>4
    <3>2. CASE ~(subs[Top.a].count = 1 /\ subs[Top.a].topic \in handlers)
      BY <1>8, <3>2 DEF SubscribeFails
    <3> QED BY <3>1, <3>2
  <2> QED
    BY <1>1, <1>3, <1>8, <2>3, <2>4, FrameTyped, TypeFacts DEF SubscribeFails, mqtt
<1>9. CASE UndoEnds
  <2>1. Top.a \in Entries /\ subs[Top.a].topic \in Topics
    BY <1>1, <1>9 DEF UndoEnds, ActOK
  <2>2. deaf' \subseteq handlers' /\ handlers' \subseteq Topics /\ troubled' \subseteq Keys
    <3>1. subs[Top.a].topic[1] \in Keys
      BY <2>1 DEF Topics
    <3> QED BY <1>3, <1>9, <2>1, <3>1, TypeFacts DEF UndoEnds, Unsubscribed, UnsubscribeFailed
  <2>3. /\ subs' \in [Entries -> Entry] /\ TopicsKept(subs, subs')
        /\ \A j \in Entries : subs'[j].count <= Len(keyOf)
    <3>1. CASE Top.b > 0
      <4>1. Top.b \in Entries /\ subs' = [subs EXCEPT ![Top.b].free = TRUE]
        BY <1>1, <1>9, <3>1, ShadowAssumption DEF UndoEnds, Acts, Entries
      <4> QED BY <4>1, SameList, EntryFreed
    <3>2. CASE ~(Top.b > 0)
      BY <1>9, <3>2, SameList DEF UndoEnds
    <3> QED BY <3>1, <3>2
  <2>4. stack' = Below \/ \E frame : FrameOK(frame, DOMAIN keyOf, subs) /\ stack' = Replace(frame)
    BY <1>4, <1>9 DEF UndoEnds
  <2> QED
    BY <1>1, <1>3, <1>9, <2>2, <2>3, <2>4, FrameTyped, TypeFacts DEF UndoEnds, world
<1>10. CASE Publish
  <2>1. service' \subseteq Requests /\ expired' \subseteq Slots
    BY <1>2, <1>3, <1>10 DEF Publish
  <2>2. acks' \in [Slots -> Record] /\ \A i \in Slots : acks'[i].free \/ acks'[i].req > 0
    <3>1. [req |-> Top.req, free |-> FALSE] \in Record /\ Top.req > 0
      BY <1>2, ShadowAssumption DEF Record, Requests
    <3> QED BY <1>10, <3>1, TypeFacts DEF Publish
  <2>3. outcome' \in [Requests -> Outcomes]
    BY <1>2, <1>10, DisplacedTyped DEF Publish, Outcomes
  <2> QED
    BY <1>1, <1>3, <1>10, <2>1, <2>2, <2>3, FrameTyped, TypeFacts, SameList DEF Publish, mqtt
<1>11. CASE PublishFails
  BY <1>1, <1>3, <1>11, FrameTyped, TypeFacts, SameList DEF PublishFails, mqtt
<1> QED BY <1>6, <1>7, <1>8, <1>9, <1>10, <1>11

\* A report whose fields are these is a frame.
LEMMA ReportMade ==
    ASSUME NEW frame \in Reports, NEW started, NEW list,
           frame.pc # "scan" => frame.slot \in Slots,
           frame.pc = "scan" => frame.op = "expiring",
           frame.entry > 0 => frame.pc \in Answers,
           frame.pc \in Answers => frame.key \in Keys
    PROVE  FrameOK(frame, started, list)
<1>1. frame \in Frames /\ frame.op # "action"
  BY DEF Frames, Reports
<1> QED BY <1>1 DEF FrameOK, ReportOK

LEMMA FreedTyped == ASSUME TypeInv, NEW slot \in Slots
                    PROVE  Freed(slot) \in Record /\ Freed(slot).free
<1>1. acks[slot] \in Record
  BY TypeFacts
<1>2. NoRecord \in Record /\ NoRecord.free
  BY ShadowAssumption DEF NoRecord, Record
<1>3. [acks[slot] EXCEPT !.free = TRUE] \in Record /\ [acks[slot] EXCEPT !.free = TRUE].free
  BY <1>1 DEF Record
<1> QED BY <1>2, <1>3 DEF Freed

\* The key that a callback leaves behind is that of the record of its answer.
LEMMA CallbackKey ==
    ASSUME TypeInv, RecordInv, stack # <<>>, Top.pc = "callback"
    PROVE  KeyAt(Top.slot) \in Keys
<1>1. stack \in Seq(Frames) /\ Len(stack) \in DOMAIN stack /\ Top = stack[Len(stack)]
      /\ Top \in Reports /\ ReportOK(Top) /\ Top.op \in {"answered", "expiring"} /\ Top.slot \in Slots
  <2>1. stack \in Seq(Frames)
    BY TypeFacts
  <2>2. Len(stack) \in DOMAIN stack /\ Top = stack[Len(stack)] /\ Top \in Frames
    BY <2>1, Innermost
  <2>3. Top.op \in {"answered", "expiring"}
    BY <2>2, FrameFacts
  <2> QED BY <2>1, <2>2, <2>3, TopFacts DEF ReportOK
<1>2. acks[Top.slot].req \in DOMAIN keyOf
  <2>1. CASE Top.op = "answered"
    <3>1. acks[Top.slot] = [req |-> Top.req, free |-> FALSE]
      BY <1>1, <2>1 DEF RecordInv, AnswerOwns
    <3>2. ~acks[Top.slot].free
      BY <3>1
    <3>3. acks[Top.slot].req > 0 /\ acks[Top.slot].req \in 0..Len(keyOf)
      BY <1>1, <3>2, TypeFacts DEF RecordInv
    <3> QED BY <3>3, TypeFacts
  <2>2. CASE Top.op = "expiring"
    BY <1>1, <2>2 DEF RecordInv, ExpiryHolds
  <2> QED BY <1>1, <2>1, <2>2
<1> QED BY <1>2, TypeFacts DEF KeyAt

LEMMA AdvanceTyped ==
    ASSUME TypeInv, Releasing, Advance
    PROVE  /\ \/ stack' = Below
              \/ \E frame : FrameOK(frame, DOMAIN keyOf, subs) /\ stack' = Replace(frame)
           /\ acks' \in [Slots -> Record] /\ \A i \in Slots : acks'[i].free \/ acks'[i].req > 0
           /\ expired' \subseteq Slots /\ outcome' \in [Requests -> Outcomes]
<1>1. stack # <<>> /\ Top \in Reports /\ ReportOK(Top) /\ Top.slot \in Slots /\ Top.key \in Keys
      /\ Top.pc \in Answers /\ Top.pc # "scan"
  BY TopFacts DEF Releasing, ReportOK, Answers
<1>2. expired \subseteq Slots /\ 0 \in 0..NumTopics
  BY ShadowAssumption DEF TypeInv, TypeOK
<1>3. CASE Top.pc = "accepted"
  <2> DEFINE frame == [Top EXCEPT !.pc = "rejected", !.entry = 0]
  <2>1. frame \in Reports /\ frame.slot = Top.slot /\ frame.key = Top.key /\ frame.entry = 0
        /\ frame.pc = "rejected"
    BY <1>1, <1>2 DEF Reports, Answers
  <2>2. stack' = Replace(frame) /\ UNCHANGED <<acks, expired, outcome>>
    BY <1>3 DEF Advance
  <2> HIDE DEF frame
  <2>3. FrameOK(frame, DOMAIN keyOf, subs)
    BY <1>1, <2>1, ReportMade
  <2> QED BY <1>2, <2>2, <2>3, TypeFacts
<1>4. CASE Top.pc # "accepted" /\ Top.op = "expiring"
  <2> DEFINE frame == [Top EXCEPT !.pc = "scan", !.slot = @ + 1, !.entry = 0]
  <2>1. Top.slot + 1 \in 1..NumAcks + 1
    BY <1>1, ShadowAssumption DEF Slots
  <2>2. frame \in Reports /\ frame.op = Top.op /\ frame.entry = 0 /\ frame.pc = "scan"
    BY <1>1, <1>2, <2>1 DEF Reports, Answers
  <2>3. stack' = Replace(frame) /\ UNCHANGED <<acks, expired, outcome>>
    BY <1>4 DEF Advance
  <2> HIDE DEF frame
  <2>4. FrameOK(frame, DOMAIN keyOf, subs)
    BY <1>4, <2>2, ReportMade DEF Answers
  <2> QED BY <1>2, <2>3, <2>4, TypeFacts
<1>5. CASE Top.pc # "accepted" /\ Top.op # "expiring"
  <2>1. /\ stack' = Below /\ acks' = [acks EXCEPT ![Top.slot] = Freed(Top.slot)]
        /\ expired' = expired \ {Top.slot} /\ outcome' = Displaced(Top.slot, Top.req)
    BY <1>5 DEF Advance
  <2>2. acks' \in [Slots -> Record] /\ \A i \in Slots : acks'[i].free \/ acks'[i].req > 0
    <3>1. Freed(Top.slot) \in Record /\ Freed(Top.slot).free
      BY <1>1, FreedTyped
    <3> QED BY <1>1, <2>1, <3>1, TypeFacts
  <2> QED BY <1>1, <1>2, <2>1, <2>2, DisplacedTyped
<1> QED BY <1>3, <1>4, <1>5

LEMMA ReportTypeInv ==
    TypeInv /\ RecordInv
      /\ (Expire \/ ScanEnds \/ YieldReturns \/ CallbackReturns \/ Unsubscribe \/ Release \/ UnsubscribeEnds)
      => TypeInv'
<1> SUFFICES ASSUME TypeInv, RecordInv, stack # <<>>,
                    Expire \/ ScanEnds \/ YieldReturns \/ CallbackReturns \/ Unsubscribe \/ Release
                      \/ UnsubscribeEnds
             PROVE  TypeInv'
  BY DEF Expire, ScanEnds, YieldReturns, CallbackReturns, Unsubscribe, Release, UnsubscribeEnds,
         Scanning, Releasing
<1>1. Top \in Frames /\ \A a : a = 0 => a \in 0..NumTopics /\ a \in 0..MaxCalls
  BY TopFacts, ShadowAssumption
<1>2. /\ expired \subseteq Slots /\ service \subseteq Requests /\ faults \in 0..MaxFaults /\ troubled \subseteq Keys
      /\ Fault => faults' \in 0..MaxFaults
  BY FaultTyped DEF TypeInv, TypeOK
<1>3. CASE Expire
  <2>1. Top.pc = "scan" /\ Top \in Reports /\ ReportOK(Top) /\ Top.op = "expiring"
    <3>1. Top.pc = "scan"
      BY <1>3 DEF Expire, Scanning
    <3> QED BY <1>1, <3>1, FrameFacts, TopFacts DEF ReportOK
  <2>2. PICK i \in Slots :
          /\ stack' = Replace([Top EXCEPT !.slot = i, !.req = acks[i].req, !.pc = "callback"])
          /\ outcome' = [outcome EXCEPT ![acks[i].req] = "timeout"]
    BY <1>3 DEF Expire
  <2> DEFINE frame == [Top EXCEPT !.slot = i, !.req = acks[i].req, !.pc = "callback"]
  <2>3. acks[i].req \in 0..MaxCalls /\ i \in 1..NumAcks + 1
    BY TypeFacts, ShadowAssumption DEF Record, Slots
  <2>4. frame \in Reports /\ frame.slot = i /\ frame.pc = "callback" /\ frame.entry = Top.entry
    BY <2>1, <2>3 DEF Reports
  <2>5. Top.entry = 0 /\ 0 \in 0..NumTopics
    BY <2>1, ShadowAssumption DEF ReportOK, Answers, Reports
  <2> HIDE DEF frame
  <2>6. FrameOK(frame, DOMAIN keyOf, subs)
    BY <2>4, <2>5, ReportMade DEF Answers
  <2>7. \E new : FrameOK(new, DOMAIN keyOf, subs) /\ stack' = Replace(new)
    BY <2>2, <2>6 DEF frame
  <2>8. outcome' \in [Requests -> Outcomes]
    BY <2>2, TypeFacts DEF Outcomes
  <2> QED
    BY <1>2, <1>3, <2>7, <2>8, FrameTyped, TypeFacts, SameList DEF Expire, mqtt, world
<1>4. CASE ScanEnds
  <2>1. FrameOK([op |-> "yield", pc |-> "yield"], DOMAIN keyOf, subs)
    BY DEF FrameOK, Frames, Yields
  <2>2. \E new : FrameOK(new, DOMAIN keyOf, subs) /\ stack' = Replace(new)
    BY <1>4, <2>1 DEF ScanEnds
  <2> QED
    BY <1>2, <1>4, <2>2, FrameTyped, TypeFacts, SameList DEF ScanEnds, mqtt, world
<1>5. CASE YieldReturns
  BY <1>2, <1>5, FrameTyped, TypeFacts, SameList DEF YieldReturns, mqtt, world
<1>6. CASE CallbackReturns
  <2>1. Top.pc = "callback" /\ Top \in Reports /\ Top.slot \in Slots /\ KeyAt(Top.slot) \in Keys
    <3>1. Top.pc = "callback"
      BY <1>6 DEF CallbackReturns
    <3> QED BY <1>1, <3>1, CallbackKey, FrameFacts, TopFacts DEF ReportOK
  <2> DEFINE frame == [Top EXCEPT !.pc = "accepted", !.key = KeyAt(Top.slot)]
  <2>2. frame \in Reports /\ frame.slot = Top.slot /\ frame.pc = "accepted" /\ frame.key = KeyAt(Top.slot)
    BY <2>1 DEF Reports, Answers
  <2>3. stack' = Replace(frame)
    BY <1>6 DEF CallbackReturns
  <2> HIDE DEF frame
  <2>4. FrameOK(frame, DOMAIN keyOf, subs)
    BY <2>1, <2>2, ReportMade DEF Answers
  <2>5. /\ acks' \in [Slots -> Record] /\ \A i \in Slots : acks'[i].free \/ acks'[i].req > 0
        /\ expired' \subseteq Slots /\ outcome' \in [Requests -> Outcomes]
    <3>1. CASE Top.op = "expiring"
      <4>1. /\ acks' = [acks EXCEPT ![Top.slot] = NoRecord] /\ expired' = expired \ {Top.slot}
            /\ outcome' = Displaced(Top.slot, Top.req)
        BY <1>6, <3>1 DEF CallbackReturns
      <4>2. NoRecord \in Record /\ NoRecord.free
        BY ShadowAssumption DEF NoRecord, Record
      <4>3. acks' \in [Slots -> Record] /\ \A i \in Slots : acks'[i].free \/ acks'[i].req > 0
        BY <2>1, <4>1, <4>2, TypeFacts
      <4> QED BY <1>2, <2>1, <4>1, <4>3, DisplacedTyped
    <3>2. CASE Top.op # "expiring"
      BY <1>2, <1>6, <3>2, TypeFacts DEF CallbackReturns
    <3> QED BY <3>1, <3>2
  <2> QED
    BY <1>2, <1>6, <2>3, <2>4, <2>5, FrameTyped, TypeFacts, SameList DEF CallbackReturns, mqtt, world
<1>7. CASE Unsubscribe
  <2>1. Top \in Reports /\ ReportOK(Top) /\ Top.pc \in Answers /\ Top.slot \in Slots /\ Top.key \in Keys
    BY <1>7, TopFacts DEF Unsubscribe, Releasing, ReportOK, Answers
  <2>2. PICK j \in Entries : stack' = Replace([Top EXCEPT !.entry = j])
    BY <1>7 DEF Unsubscribe
  <2> DEFINE frame == [Top EXCEPT !.entry = j]
  <2>3. frame \in Reports /\ frame.slot = Top.slot /\ frame.pc = Top.pc /\ frame.key = Top.key
    BY <2>1, ShadowAssumption DEF Reports, Entries
  <2>4. stack' = Replace(frame)
    BY <2>2
  <2> HIDE DEF frame
  <2>5. FrameOK(frame, DOMAIN keyOf, subs)
    BY <2>1, <2>3, ReportMade DEF Answers
  <2>6. troubled' \subseteq Keys
    BY <1>2, <1>7, <2>1, DisorderTyped DEF Unsubscribe
  <2> QED
    BY <1>2, <1>7, <2>4, <2>5, <2>6, FrameTyped, TypeFacts, SameList DEF Unsubscribe, mqtt, world
<1>8. CASE Release
  <2>1. Releasing /\ Advance
    BY <1>8 DEF Release
  <2>2. /\ subs' \in [Entries -> Entry] /\ TopicsKept(subs, subs')
        /\ \A j \in Entries : subs'[j].count <= Len(keyOf)
    <3>1. CASE subs' = subs
      BY <3>1, SameList
    <3>2. ASSUME NEW j \in Entries, subs[j].count > 1, subs' = [subs EXCEPT ![j].count = @ - 1]
          PROVE  /\ subs' \in [Entries -> Entry] /\ TopicsKept(subs, subs')
                 /\ \A i \in Entries : subs'[i].count <= Len(keyOf)
      <4> DEFINE entry == [subs[j] EXCEPT !.count = subs[j].count - 1]
      <4>1. subs[j] \in Entry /\ subs[j].count \in 0..MaxCalls /\ subs[j].count <= Len(keyOf)
        BY SameList DEF Entry
      <4>2. subs[j].count - 1 \in 0..MaxCalls /\ subs[j].count - 1 <= Len(keyOf)
        BY <3>2, <4>1, TypeFacts, ShadowAssumption
      <4>3. entry \in Entry /\ entry.count = subs[j].count - 1 /\ entry.topic = subs[j].topic
        BY <4>1, <4>2 DEF Entry
      <4>4. subs' = [subs EXCEPT ![j] = entry]
        BY <3>2, <4>1, SameList
      <4> HIDE DEF entry
      <4> QED BY <4>2, <4>3, <4>4, SameList, EntryChanged
    <3> QED BY <1>8, <3>1, <3>2 DEF Release
  <2>3. troubled' \subseteq Keys
    <3>1. Top.key \in Keys
      BY <2>1, TopFacts DEF Releasing, ReportOK
    <3> QED BY <1>2, <1>8, <3>1, DisorderTyped DEF Release
  <2> QED
    BY <1>2, <1>8, <2>1, <2>2, <2>3, AdvanceTyped, FrameTyped, TypeFacts DEF Release, mqtt, world
<1>9. CASE UnsubscribeEnds
  <2>1. Releasing /\ Advance /\ Top.entry > 0
    BY <1>9 DEF UnsubscribeEnds
  <2>2. Top \in Reports /\ ReportOK(Top) /\ Top.entry \in Entries /\ Top.key \in Keys
        /\ <<Top.key, Top.pc>> \in Topics
    <3>1. Top \in Reports /\ ReportOK(Top) /\ Top.pc \in Answers
      BY <2>1, TopFacts DEF Releasing
    <3>2. Top.entry \in 0..NumTopics /\ Top.key \in Keys
      BY <3>1 DEF Reports, ReportOK
    <3> QED BY <2>1, <3>1, <3>2, ShadowAssumption DEF Entries, Topics
  <2>3. /\ subs' \in [Entries -> Entry] /\ TopicsKept(subs, subs')
        /\ \A j \in Entries : subs'[j].count <= Len(keyOf)
    <3>1. CASE subs' = subs
      BY <3>1, SameList
    <3>2. CASE subs' = [subs EXCEPT ![Top.entry].free = TRUE]
      BY <2>2, <3>2, SameList, EntryFreed
    <3> QED BY <1>9, <3>1, <3>2 DEF UnsubscribeEnds
  <2>4. deaf' \subseteq handlers' /\ handlers' \subseteq Topics /\ troubled' \subseteq Keys
    BY <1>2, <1>9, <2>2, TypeFacts DEF UnsubscribeEnds, Unsubscribed, UnsubscribeFailed
  <2>5. faults' \in 0..MaxFaults
    BY <1>2, <1>9 DEF UnsubscribeEnds
  <2> QED
    BY <1>2, <1>9, <2>1, <2>3, <2>4, <2>5, AdvanceTyped, FrameTyped, TypeFacts DEF UnsubscribeEnds
<1> QED BY <1>3, <1>4, <1>5, <1>6, <1>7, <1>8, <1>9

LEMMA NextTypeInv == TypeInv /\ RecordInv /\ [Next]_vars => TypeInv'
<1> SUFFICES ASSUME TypeInv, RecordInv, [Next]_vars PROVE TypeInv'
  OBVIOUS
<1>1. /\ expired \subseteq Slots /\ service \subseteq Requests /\ faults \in 0..MaxFaults /\ troubled \subseteq Keys
      /\ keyOf \in Seq(Keys) /\ Len(keyOf) <= MaxCalls /\ acted \in BOOLEAN
      /\ \A j \in Entries : subs[j].count <= Len(keyOf)
  <2>1. acted \in BOOLEAN
    BY TypeFacts
  <2> QED BY <2>1 DEF TypeInv, TypeOK
<1>2. ASSUME NEW i \in Slots, TimerExpires(i) PROVE TypeInv'
  <2>1. UNCHANGED <<stack, keyOf, acks, subs, handlers, deaf, service, faults, outcome, acted, troubled>>
        /\ expired' \subseteq Slots
    BY <1>1, <1>2 DEF TimerExpires, mqtt, world
  <2>2. StackOK(stack', DOMAIN keyOf', subs')
    BY <2>1, TypeFacts
  <2> QED BY <1>1, <2>1, <2>2, TypeFacts, TypeAfter
<1>3. CASE Connect
  <2>1. stack = <<>> /\ UNCHANGED <<stack, keyOf, handlers, service>> /\ faults' \in 0..MaxFaults
    BY <1>3, FaultTyped DEF Connect
  <2>2. StackOK(stack', DOMAIN keyOf', subs')
    BY <2>1, EmptySeq, ShadowAssumption DEF StackOK
  <2>3. NoRecord \in Record /\ NoRecord.free /\ Len(keyOf) \in Nat
    BY TypeFacts, ShadowAssumption DEF NoRecord, Record
  <2>8. ASSUME NEW j \in Entries
        PROVE  /\ [NoEntry EXCEPT !.topic = subs[j].topic] \in Entry
               /\ [NoEntry EXCEPT !.topic = subs[j].topic].count = 0
    <3>1. subs[j].topic \in Topics \union {NoTopic} /\ 0 \in 0..MaxCalls
      BY TypeFacts, ShadowAssumption DEF Entry
    <3> QED BY <3>1 DEF NoEntry, Entry
  <2>4. /\ acks' \in [Slots -> Record] /\ \A i \in Slots : acks'[i].free
        /\ subs' \in [Entries -> Entry] /\ \A j \in Entries : subs'[j].count <= Len(keyOf')
    <3>1. acks' \in [Slots -> Record] /\ \A i \in Slots : acks'[i].free
      BY <1>3, <2>3 DEF Connect
    <3>2. \A j \in Entries : subs'[j] \in Entry /\ subs'[j].count = 0
      BY <1>3, <2>8, Zenon DEF Connect
    <3>3. subs' = [j \in Entries |-> subs'[j]]
      BY <1>3 DEF Connect
    <3> QED BY <2>1, <2>3, <3>1, <3>2, <3>3
  <2>5. outcome' \in [Requests -> Outcomes]
    BY <1>3, TypeFacts DEF Connect, Outcomes
  <2>6. acted' \in BOOLEAN
    BY <1>3, Zenon DEF Connect
  <2>7. expired' \subseteq Slots /\ deaf' \subseteq handlers' /\ handlers' \subseteq Topics /\ troubled' \subseteq Keys
    BY <1>3, <2>1, TypeFacts DEF Connect
  <2> QED BY <1>1, <2>1, <2>2, <2>4, <2>5, <2>6, <2>7, TypeAfter
<1>4. ASSUME NEW r \in Requests, NEW status \in Answers, ReadAnswer(r, status) PROVE TypeInv'
  <2>1. PICK i \in Slots :
          /\ stack' = Append(stack, [op |-> "answered", slot |-> i, req |-> r, key |-> keyOf[r],
                                     pc |-> "callback", entry |-> 0])
          /\ troubled' = IF TimingOut(i) THEN troubled \union {keyOf[r]} ELSE troubled
    BY <1>4 DEF ReadAnswer
  <2> DEFINE frame == [op |-> "answered", slot |-> i, req |-> r, key |-> keyOf[r], pc |-> "callback",
                       entry |-> 0]
  <2>2. keyOf[r] \in Keys
    BY <1>4, TypeFacts DEF ReadAnswer, Heard, Topics
  <2>3. frame \in Reports
    BY <2>2, ShadowAssumption DEF Reports, Slots, Requests
  <2>4. FrameOK(frame, DOMAIN keyOf, subs)
    BY <2>2, <2>3, ReportMade DEF Answers
  <2>5. stack' = Append(stack, frame) /\ Len(stack) < MaxDepth
    BY <1>4, <2>1 DEF ReadAnswer
  <2> HIDE DEF frame
  <2>6. UNCHANGED <<keyOf, acks, expired, subs, handlers, deaf, faults, acted>>
    BY <1>4 DEF ReadAnswer, mqtt
  <2>7. StackOK(stack', DOMAIN keyOf', subs')
    BY <2>4, <2>5, <2>6, TypeFacts, PushedOK
  <2>8. outcome' \in [Requests -> Outcomes] /\ service' \subseteq Requests /\ troubled' \subseteq Keys
    BY <1>1, <1>4, <2>1, <2>2, TypeFacts DEF ReadAnswer, Outcomes, Answers
  <2> QED BY <1>1, <2>6, <2>7, <2>8, TypeFacts, TypeAfter
<1>5. CASE Yield
  <2> DEFINE frame == [op |-> "expiring", slot |-> 1, req |-> 0, key |-> NoTopic, pc |-> "scan",
                       entry |-> 0]
  <2>1. frame \in Reports
    BY ShadowAssumption DEF Reports
  <2>2. FrameOK(frame, DOMAIN keyOf, subs)
    BY <2>1, ReportMade DEF Answers
  <2>3. stack = <<>> /\ stack' = <<frame>>
        /\ UNCHANGED <<keyOf, acks, expired, subs, handlers, deaf, service, faults, outcome, acted, troubled>>
    BY <1>5 DEF Yield, mqtt, world
  <2> HIDE DEF frame
  <2>4. frame \in Frames
    BY <2>2 DEF FrameOK
  <2>5. StackOK(stack', DOMAIN keyOf', subs')
    BY <2>2, <2>3, <2>4, ShadowAssumption DEF StackOK
  <2> QED BY <1>1, <2>3, <2>5, TypeFacts, TypeAfter
<1>6. CASE UNCHANGED vars
  <2>1. UNCHANGED <<stack, keyOf, acks, expired, subs, handlers, deaf, service, faults, outcome, acted, troubled>>
    BY <1>6 DEF vars, mqtt, world
  <2>2. StackOK(stack', DOMAIN keyOf', subs')
    BY <2>1, TypeFacts
  <2> QED BY <1>1, <2>1, <2>2, TypeFacts, TypeAfter
<1>7. CASE Start
  BY <1>7, StartTypeInv
<1>8. CASE Proceed
  BY <1>8, ActTypeInv, ReportTypeInv DEF Proceed
<1> QED BY <1>2, <1>3, <1>4, <1>5, <1>6, <1>7, <1>8 DEF Next

----------------------------------------------------------------------------
(* Records and the calls that work on them.                                *)

LEMMA FrameTypes ==
    ASSUME TypeInv, NEW p \in DOMAIN stack
    PROVE  /\ p \in Nat \ {0} /\ p <= Len(stack) /\ stack # <<>> /\ stack[p] \in Frames
           /\ stack[p].op = "action" => /\ stack[p] \in Acts /\ stack[p].req \in DOMAIN keyOf
                                        /\ stack[p].slot \in Slots /\ stack[p].pc # "callback"
           /\ stack[p].op \in {"answered", "expiring"} => stack[p] \in Reports /\ ReportOK(stack[p])
<1>1. stack \in Seq(Frames) /\ FrameOK(stack[p], DOMAIN keyOf, subs)
  BY DEF TypeInv, StackOK
<1>2. p \in Nat \ {0} /\ p <= Len(stack) /\ stack # <<>> /\ stack[p] \in Frames
  BY <1>1 DEF FrameOK
<1>3. ASSUME stack[p].op = "action"
      PROVE  stack[p] \in Acts /\ stack[p].req \in DOMAIN keyOf /\ stack[p].slot \in Slots /\ stack[p].pc # "callback"
  <2>1. stack[p] \in Acts
    BY <1>2, <1>3, FrameFacts
  <2> QED BY <1>1, <1>3, <2>1 DEF FrameOK, ActOK, Acts, Answers
<1>4. ASSUME stack[p].op \in {"answered", "expiring"} PROVE stack[p] \in Reports /\ ReportOK(stack[p])
  BY <1>1, <1>2, <1>4, FrameFacts DEF FrameOK
<1> QED BY <1>2, <1>3, <1>4

LEMMA TopPlace ==
    ASSUME TypeInv, stack # <<>>
    PROVE  /\ Len(stack) \in DOMAIN stack /\ Top = stack[Len(stack)] /\ Len(stack) \in Nat \ {0}
           /\ DOMAIN stack = 1..Len(stack) /\ stack \in Seq(Frames)
<1>1. stack \in Seq(Frames)
  BY TypeFacts
<1> QED BY <1>1, Innermost

\* A record in use is that of an action that was started.
LEMMA RecordFacts ==
    ASSUME TypeInv, RecordInv, NEW i \in Slots
    PROVE  /\ acks[i] \in Record /\ acks[i].req \in 0..Len(keyOf)
           /\ ~acks[i].free => /\ acks[i].req \in DOMAIN keyOf /\ acks[i].req \in Requests
                               /\ acks[i] = [req |-> acks[i].req, free |-> FALSE]
<1>1. acks[i] \in Record /\ acks[i].req \in 0..Len(keyOf) /\ (acks[i].free \/ acks[i].req > 0)
  BY TypeFacts DEF RecordInv
<1>2. ~acks[i].free => acks[i] = [req |-> acks[i].req, free |-> FALSE]
  BY <1>1 DEF Record
<1>3. DOMAIN keyOf = 1..Len(keyOf) /\ Len(keyOf) \in 0..MaxCalls
  BY TypeFacts
<1> QED BY <1>1, <1>2, <1>3, ShadowAssumption DEF Requests

\* The innermost call goes on with the same record, or its part in it is over.
LEMMA RecordReplaced ==
    ASSUME TypeInv, RecordInv, stack # <<>>, NEW frame \in Frames, stack' = Replace(frame),
           UNCHANGED <<keyOf, acks, outcome, service, acted>>,
           Top.pc # "callback" \/ Top.op = "answered", frame.pc # "callback",
           frame.op = Top.op \/ frame.op = "yield",
           frame.op \in {"action", "answered"} => frame.req = Top.req /\ frame.slot = Top.slot,
           frame.op = "yield" => Top.op \in {"expiring", "yield"}
    PROVE  RecordInv'
<1>1. /\ Len(stack) \in DOMAIN stack /\ Top = stack[Len(stack)]
      /\ DOMAIN stack' = DOMAIN stack /\ Len(stack') = Len(stack)
      /\ \A p \in DOMAIN stack : stack'[p] = IF p = Len(stack) THEN frame ELSE stack[p]
  BY TopPlace, Replaced
<1>2. \A p \in DOMAIN stack :
        /\ stack'[p].op \in {"action", "answered"} =>
             stack[p].op = stack'[p].op /\ stack[p].req = stack'[p].req /\ stack[p].slot = stack'[p].slot
        /\ stack'[p].op = "expiring" => stack[p].op = "expiring"
        /\ stack'[p].pc = "callback" => stack'[p] = stack[p] /\ p # Len(stack)
        /\ stack[p].op = "answered" => stack'[p].op = "answered"
        /\ stack[p].op = "expiring" /\ stack[p].pc = "callback" => stack'[p] = stack[p]
  BY <1>1
<1>3. \A i \in Slots : acks'[i].free \/ Waits(i)' \/ BeingAnswered(i)' \/ BeingTimedOut(i)'
  <2> TAKE i \in Slots
  <2>1. CASE acks[i].free \/ Waits(i)
    BY <2>1 DEF Waits
  <2>2. CASE BeingAnswered(i)
    BY <1>1, <1>2, <2>2 DEF BeingAnswered
  <2>3. CASE BeingTimedOut(i)
    BY <1>1, <1>2, <2>3 DEF BeingTimedOut
  <2> QED BY <2>1, <2>2, <2>3 DEF RecordInv
<1>4. ASSUME NEW p \in DOMAIN stack
      PROVE  /\ stack'[p].op = "action" => ActFresh(p)'
             /\ stack'[p].op = "answered" => AnswerOwns(p)'
             /\ stack'[p].op = "expiring" => ExpiryHolds(p)'
             /\ stack'[p].pc = "callback" => acted' \/ p = Len(stack')
  <2>1. ASSUME stack'[p].op = "action" PROVE ActFresh(p)'
    <3>1. ActFresh(p) /\ stack[p].req = stack'[p].req /\ stack[p].slot = stack'[p].slot
      BY <1>2, <2>1 DEF RecordInv
    <3>2. \A q \in DOMAIN stack' : stack'[q].op = "action" /\ stack'[q].req = stack'[p].req => q = p
      BY <1>1, <1>2, <3>1 DEF ActFresh
    <3> QED BY <3>1, <3>2 DEF ActFresh
  <2>2. ASSUME stack'[p].op = "answered" PROVE AnswerOwns(p)'
    <3>1. AnswerOwns(p) /\ stack[p].req = stack'[p].req /\ stack[p].slot = stack'[p].slot
      BY <1>2, <2>2 DEF RecordInv
    <3>2. \A q \in DOMAIN stack' :
            q > p => ~(stack'[q].op \in {"action", "answered"} /\ stack'[q].slot = stack'[p].slot)
      BY <1>1, <1>2, <3>1 DEF AnswerOwns
    <3> QED BY <3>1, <3>2 DEF AnswerOwns
  <2>3. ASSUME stack'[p].op = "expiring" PROVE ExpiryHolds(p)'
    <3>1. ExpiryHolds(p)
      BY <1>2, <2>3 DEF RecordInv
    <3>2. stack'[p].pc = "callback" => stack'[p] = stack[p]
      BY <1>2
    <3>3. keyOf' = keyOf /\ acks' = acks /\ acted' = acted
      OBVIOUS
    <3>4. CASE stack'[p].pc = "callback"
      <4>1. stack'[p] = stack[p] /\ stack[p].pc = "callback"
        BY <3>2, <3>4
      <4>2. /\ p = 1 /\ acks[stack[p].slot].req \in DOMAIN keyOf
            /\ acted \/ acks[stack[p].slot] = [req |-> stack[p].req, free |-> FALSE]
        BY <3>1, <4>1 DEF ExpiryHolds
      <4>3. p = 1 /\ acks'[stack'[p].slot].req \in DOMAIN keyOf'
        BY <3>3, <4>1, <4>2
      <4>4. acted => acted'
        OBVIOUS
      <4>5. acks[stack[p].slot] = [req |-> stack[p].req, free |-> FALSE]
              => acks'[stack'[p].slot] = [req |-> stack'[p].req, free |-> FALSE]
        BY <3>3, <4>1
      <4> QED BY <4>2, <4>3, <4>4, <4>5, Zenon DEF ExpiryHolds
    <3>5. CASE stack'[p].pc # "callback"
      BY <3>1, <3>5 DEF ExpiryHolds
    <3> QED BY <3>4, <3>5
  <2>4. stack'[p].pc = "callback" => acted' \/ p = Len(stack')
    BY <1>1, <1>2 DEF RecordInv
  <2> QED BY <2>1, <2>2, <2>3, <2>4
<1> QED BY <1>1, <1>3, <1>4 DEF RecordInv

\* A call that has nothing to do with a record returns.
LEMMA RecordPopped ==
    ASSUME TypeInv, RecordInv, stack # <<>>, stack' = Below,
           UNCHANGED <<keyOf, acks, outcome, service, acted>>,
           Top.op \in {"action", "yield"}, Top.pc # "callback"
    PROVE  RecordInv'
<1>1. /\ Len(stack) \in DOMAIN stack /\ Top = stack[Len(stack)]
      /\ \A p \in DOMAIN stack' : p \in DOMAIN stack /\ p < Len(stack) /\ stack'[p] = stack[p]
      /\ \A p \in DOMAIN stack : p # Len(stack) => p \in DOMAIN stack'
  BY TopPlace, Innermost
<1>2. \A i \in Slots : acks'[i].free \/ Waits(i)' \/ BeingAnswered(i)' \/ BeingTimedOut(i)'
  <2> TAKE i \in Slots
  <2>1. CASE acks[i].free \/ Waits(i)
    BY <2>1 DEF Waits
  <2>2. CASE BeingAnswered(i)
    BY <1>1, <2>2 DEF BeingAnswered
  <2>3. CASE BeingTimedOut(i)
    BY <1>1, <2>3 DEF BeingTimedOut
  <2> QED BY <2>1, <2>2, <2>3 DEF RecordInv
<1>3. ASSUME NEW p \in DOMAIN stack'
      PROVE  /\ stack'[p].op = "action" => ActFresh(p)'
             /\ stack'[p].op = "answered" => AnswerOwns(p)'
             /\ stack'[p].op = "expiring" => ExpiryHolds(p)'
             /\ stack'[p].pc = "callback" => acted' \/ p = Len(stack')
  <2>1. ASSUME stack'[p].op = "action" PROVE ActFresh(p)'
    BY <1>1, <2>1 DEF RecordInv, ActFresh
  <2>2. ASSUME stack'[p].op = "answered" PROVE AnswerOwns(p)'
    BY <1>1, <2>2 DEF RecordInv, AnswerOwns
  <2>3. ASSUME stack'[p].op = "expiring" PROVE ExpiryHolds(p)'
    BY <1>1, <2>3 DEF RecordInv, ExpiryHolds
  <2>4. ASSUME stack'[p].pc = "callback" PROVE acted'
    BY <1>1, <2>4 DEF RecordInv
  <2> QED BY <2>1, <2>2, <2>3, <2>4
<1> QED BY <1>2, <1>3 DEF RecordInv

\* A new action has no record yet, and only one that a callback starts may find
\* its record taken.
LEMMA RecordStarted ==
    ASSUME TypeInv, RecordInv, NEW k \in Keys, NEW sticky \in BOOLEAN, NEW a, NEW b,
           NEW pc \in {"accepted", "undo", "publish"}, StartAction(k, sticky, pc, a, b)
    PROVE  RecordInv'
<1>1. PICK s \in Slots :
        /\ acks[s].free
        /\ stack' = Append(stack, [op |-> "action", req |-> Len(keyOf) + 1, slot |-> s, sticky |-> sticky,
                                   a |-> a, b |-> b, pc |-> pc, failed |-> FALSE])
  BY DEF StartAction, Least
<1> DEFINE frame == [op |-> "action", req |-> Len(keyOf) + 1, slot |-> s, sticky |-> sticky,
                     a |-> a, b |-> b, pc |-> pc, failed |-> FALSE]
<1>2. frame.op = "action" /\ frame.req = Len(keyOf) + 1 /\ frame.slot = s /\ frame.pc # "callback"
  OBVIOUS
<1>3. /\ Len(keyOf) \in Nat /\ Len(keyOf) + 1 \in Requests /\ Len(keyOf') = Len(keyOf) + 1
      /\ DOMAIN keyOf = 1..Len(keyOf) /\ DOMAIN keyOf' = 1..Len(keyOf) + 1
  BY TypeFacts, ShadowAssumption DEF StartAction, Requests
<1>4. UNCHANGED <<acks, outcome, service>> /\ acted' = (acted \/ stack # <<>>)
  BY DEF StartAction, world
<1>5. /\ Len(stack) \in Nat /\ DOMAIN stack = 1..Len(stack) /\ Len(stack') = Len(stack) + 1
      /\ stack # <<>> => Len(stack) > 0
      /\ DOMAIN stack' = 1..Len(stack) + 1
      /\ \A p \in DOMAIN stack : p \in DOMAIN stack' /\ p <= Len(stack) /\ stack'[p] = stack[p]
      /\ stack'[Len(stack) + 1] = frame
  <2>1. stack \in Seq(Frames) /\ stack' = Append(stack, frame)
    BY <1>1, TypeFacts
  <2> HIDE DEF frame
  <2> QED BY <2>1, EmptySeq
<1> HIDE DEF frame
<1>6. \A p \in DOMAIN stack' : p \in DOMAIN stack \/ p = Len(stack) + 1
  BY <1>5
<1>7. \A p \in DOMAIN stack : stack[p].op = "action" => stack[p].req # frame.req
  BY <1>2, <1>3, FrameTypes
<1>8. \A i \in Slots : acks[i].req \in 0..Len(keyOf) /\ acks[i].req # frame.req
  <2> TAKE i \in Slots
  <2>1. acks[i].req \in 0..Len(keyOf)
    BY RecordFacts
  <2> QED BY <1>2, <1>3, <2>1
<1>9. stack = <<>> \/ acted'
  BY <1>4
<1>10. \A i \in Slots : acks'[i].free \/ Waits(i)' \/ BeingAnswered(i)' \/ BeingTimedOut(i)'
  <2> TAKE i \in Slots
  <2>1. CASE acks[i].free \/ Waits(i)
    BY <1>4, <2>1 DEF Waits
  <2>2. CASE BeingAnswered(i)
    BY <1>4, <1>5, <2>2 DEF BeingAnswered
  <2>3. CASE BeingTimedOut(i)
    BY <1>4, <1>5, <2>3 DEF BeingTimedOut
  <2> QED BY <2>1, <2>2, <2>3 DEF RecordInv
<1>11. ASSUME NEW p \in DOMAIN stack'
       PROVE  /\ stack'[p].op = "action" => ActFresh(p)'
              /\ stack'[p].op = "answered" => AnswerOwns(p)'
              /\ stack'[p].op = "expiring" => ExpiryHolds(p)'
              /\ stack'[p].pc = "callback" => acted' \/ p = Len(stack')
  <2>1. CASE p \in DOMAIN stack
    <3>1. stack'[p] = stack[p] /\ stack # <<>> /\ acted'
      BY <1>5, <1>9, <2>1, FrameTypes
    <3>2. ASSUME stack[p].op = "action" PROVE ActFresh(p)'
      <4>1. ActFresh(p)
        BY <2>1, <3>2 DEF RecordInv
      <4>2. \A q \in DOMAIN stack' : stack'[q].op = "action" /\ stack'[q].req = stack[p].req => q = p
        BY <1>5, <1>6, <1>7, <2>1, <3>2, <4>1 DEF ActFresh
      <4> QED BY <1>4, <3>1, <4>1, <4>2 DEF ActFresh
    <3>3. ASSUME stack[p].op = "answered" PROVE AnswerOwns(p)'
      <4>1. AnswerOwns(p)
        BY <2>1, <3>3 DEF RecordInv
      <4>2. ~acks[stack[p].slot].free
        BY <4>1 DEF AnswerOwns
      <4>3. \A q \in DOMAIN stack' :
              q > p => ~(stack'[q].op \in {"action", "answered"} /\ stack'[q].slot = stack[p].slot)
        BY <1>1, <1>2, <1>5, <1>6, <4>1, <4>2 DEF AnswerOwns
      <4> QED BY <1>4, <3>1, <4>1, <4>3 DEF AnswerOwns
    <3>4. ASSUME stack[p].op = "expiring" PROVE ExpiryHolds(p)'
      <4>1. ExpiryHolds(p)
        BY <2>1, <3>4 DEF RecordInv
      <4>2. DOMAIN keyOf \subseteq DOMAIN keyOf'
        BY <1>3
      <4> QED BY <1>4, <3>1, <4>1, <4>2 DEF ExpiryHolds
    <3> QED BY <3>1, <3>2, <3>3, <3>4
  <2>2. CASE p = Len(stack) + 1
    <3>1. stack'[p] = frame
      BY <1>5, <2>2
    <3>2. outcome[frame.req] = "none"
      BY <1>2, <1>3 DEF RecordInv
    <3>3. \A q \in DOMAIN stack' : stack'[q].op = "action" /\ stack'[q].req = frame.req => q = p
      BY <1>5, <1>6, <1>7, <2>2
    <3>4. acted' \/ (p = 1 /\ acks[frame.slot].free)
      BY <1>1, <1>2, <1>9, <2>2
    <3>5. ActFresh(p)'
      BY <1>4, <1>8, <3>1, <3>2, <3>3, <3>4 DEF ActFresh
    <3> QED BY <1>2, <3>1, <3>5
  <2> QED BY <1>6, <2>1, <2>2
<1>12. /\ \A i \in Slots : acks'[i].req \in 0..Len(keyOf')
       /\ \A r \in Requests : outcome'[r] # "none" => r <= Len(keyOf')
       /\ \A i, j \in Slots : ~acks'[i].free /\ ~acks'[j].free /\ acks'[i].req = acks'[j].req => i = j
  BY <1>3, <1>4, <1>8 DEF RecordInv, Requests
<1> QED BY <1>10, <1>11, <1>12 DEF RecordInv

\* Nothing is read while a callback is the innermost frame.
LEMMA ReadingOutside ==
    ASSUME TypeInv, stack # <<>>, Exchanging(Top)
    PROVE  Top.pc # "callback"
<1>1. Top.op = "action" => Top.pc # "callback"
  BY TopPlace, FrameTypes
<1>2. Top.op \in {"answered", "expiring"} /\ Top.entry > 0 => Top.pc # "callback"
  BY TopFacts DEF ReportOK, Answers
<1>3. Top.op = "yield" => Top.pc # "callback"
  BY TopFacts, FrameFacts DEF Yields
<1> QED BY <1>1, <1>2, <1>3 DEF Exchanging

\* An answer that is read finds the only record of its action.
LEMMA RecordAnswered ==
    ASSUME TypeInv, RecordInv, NEW r \in Requests, NEW status \in Answers, ReadAnswer(r, status)
    PROVE  RecordInv'
<1>1. PICK s \in Slots :
        /\ ~acks[s].free /\ acks[s].req = r
        /\ stack' = Append(stack, [op |-> "answered", slot |-> s, req |-> r, key |-> keyOf[r],
                                   pc |-> "callback", entry |-> 0])
  BY DEF ReadAnswer, Matches, Least
<1> DEFINE frame == [op |-> "answered", slot |-> s, req |-> r, key |-> keyOf[r], pc |-> "callback",
                     entry |-> 0]
<1>2. frame.op = "answered" /\ frame.req = r /\ frame.slot = s
  OBVIOUS
<1>3. /\ UNCHANGED <<keyOf, acks, acted>> /\ service' = service \ {r} /\ r \in service
      /\ outcome' = [outcome EXCEPT ![r] = status] /\ stack # <<>> /\ Exchanging(Top)
  BY DEF ReadAnswer
<1>4. /\ Len(stack) \in Nat /\ DOMAIN stack = 1..Len(stack) /\ Len(stack') = Len(stack) + 1
      /\ DOMAIN stack' = 1..Len(stack) + 1
      /\ \A p \in DOMAIN stack : p \in DOMAIN stack' /\ p <= Len(stack) /\ stack'[p] = stack[p]
      /\ stack'[Len(stack) + 1] = frame
  <2>1. stack \in Seq(Frames) /\ stack' = Append(stack, frame)
    BY <1>1, TypeFacts
  <2> HIDE DEF frame
  <2> QED BY <2>1
<1> HIDE DEF frame
<1>5. \A p \in DOMAIN stack' : p \in DOMAIN stack \/ p = Len(stack) + 1
  BY <1>4
<1>6. acks[s] = [req |-> r, free |-> FALSE] /\ r \in 1..Len(keyOf)
  BY <1>1, RecordFacts, TypeFacts
<1>7. \A q \in Requests : outcome'[q] = IF q = r THEN status ELSE outcome[q]
  BY <1>3, TypeFacts
<1>8. status # "none"
  BY DEF Answers
<1>9. \A i \in Slots : acks'[i].free \/ Waits(i)' \/ BeingAnswered(i)' \/ BeingTimedOut(i)'
  <2> SUFFICES ASSUME NEW i \in Slots, ~acks[i].free
               PROVE  Waits(i)' \/ BeingAnswered(i)' \/ BeingTimedOut(i)'
    BY <1>3
  <2>1. CASE acks[i].req = r
    <3>1. i = s
      BY <1>1, <2>1 DEF RecordInv
    <3>2. BeingAnswered(i)'
      BY <1>2, <1>3, <1>4, <1>6, <3>1 DEF BeingAnswered
    <3> QED BY <3>2
  <2>2. CASE acks[i].req # r
    <3>1. outcome'[acks'[i].req] = outcome[acks[i].req]
      BY <1>3, <1>7, <2>2, RecordFacts
    <3>2. CASE Waits(i)
      BY <3>1, <3>2 DEF Waits
    <3>3. CASE BeingAnswered(i)
      BY <1>3, <1>4, <3>3 DEF BeingAnswered
    <3>4. CASE BeingTimedOut(i)
      BY <1>3, <1>4, <3>1, <3>4 DEF BeingTimedOut
    <3> QED BY <3>2, <3>3, <3>4 DEF RecordInv
  <2> QED BY <2>1, <2>2
<1>10. ASSUME NEW p \in DOMAIN stack'
       PROVE  /\ stack'[p].op = "action" => ActFresh(p)'
              /\ stack'[p].op = "answered" => AnswerOwns(p)'
              /\ stack'[p].op = "expiring" => ExpiryHolds(p)'
              /\ stack'[p].pc = "callback" => acted' \/ p = Len(stack')
  <2>1. CASE p \in DOMAIN stack
    <3>1. stack'[p] = stack[p]
      BY <1>4, <2>1
    <3>2. ASSUME stack[p].op = "action" PROVE ActFresh(p)'
      <4>1. ActFresh(p) /\ stack[p].req # r
        BY <1>1, <2>1, <3>2 DEF RecordInv, ActFresh
      <4>2. \A q \in DOMAIN stack' : stack'[q].op = "action" /\ stack'[q].req = stack[p].req => q = p
        BY <1>2, <1>4, <1>5, <4>1 DEF ActFresh
      <4>3. outcome'[stack[p].req] = outcome[stack[p].req]
        BY <1>3, <4>1, TypeFacts
      <4> QED BY <1>3, <3>1, <4>1, <4>2, <4>3 DEF ActFresh
    <3>3. ASSUME stack[p].op = "answered" PROVE AnswerOwns(p)'
      <4>1. AnswerOwns(p) /\ stack[p].slot # s
        BY <1>3, <1>6, <2>1, <3>3 DEF RecordInv, AnswerOwns
      <4>2. \A q \in DOMAIN stack' :
              q > p => ~(stack'[q].op \in {"action", "answered"} /\ stack'[q].slot = stack[p].slot)
        BY <1>2, <1>4, <1>5, <4>1 DEF AnswerOwns
      <4> QED BY <1>3, <3>1, <4>1, <4>2 DEF AnswerOwns
    <3>4. ASSUME stack[p].op = "expiring" PROVE ExpiryHolds(p)'
      BY <1>3, <2>1, <3>1, <3>4 DEF RecordInv, ExpiryHolds
    <3>5. ASSUME stack[p].pc = "callback" PROVE acted'
      <4>1. Top.pc # "callback"
        BY <1>3, ReadingOutside
      <4>2. p # Len(stack)
        BY <1>3, <3>5, <4>1, TopPlace
      <4> QED BY <1>3, <2>1, <3>5, <4>2 DEF RecordInv
    <3> QED BY <3>1, <3>2, <3>3, <3>4, <3>5
  <2>2. CASE p = Len(stack) + 1
    <3>1. stack'[p] = frame /\ p = Len(stack')
      BY <1>4, <2>2
    <3>2. AnswerOwns(p)'
      <4>1. \A q \in DOMAIN stack' : ~(q > p)
        BY <1>4, <2>2
      <4>2. acks'[frame.slot] = [req |-> frame.req, free |-> FALSE] /\ frame.req \notin service'
        BY <1>2, <1>3, <1>6
      <4> QED BY <3>1, <4>1, <4>2 DEF AnswerOwns
    <3> QED BY <1>2, <3>1, <3>2
  <2> QED BY <1>5, <2>1, <2>2
<1>11. /\ \A i \in Slots : acks'[i].req \in 0..Len(keyOf')
       /\ \A q \in Requests : outcome'[q] # "none" => q <= Len(keyOf')
       /\ \A i, j \in Slots : ~acks'[i].free /\ ~acks'[j].free /\ acks'[i].req = acks'[j].req => i = j
  BY <1>3, <1>6, <1>7 DEF RecordInv
<1> QED BY <1>9, <1>10, <1>11 DEF RecordInv

\* The other action, if any, that loses its record to req.
LEMMA DisplacedFacts ==
    ASSUME TypeInv, RecordInv, NEW slot \in Slots, NEW req
    PROVE  /\ Displaced(slot, req) \in [Requests -> Outcomes]
           /\ acks[slot].free \/ acks[slot].req = req => Displaced(slot, req) = outcome
           /\ ~acks[slot].free /\ acks[slot].req # req =>
                \A r \in Requests : Displaced(slot, req)[r] = IF r = acks[slot].req THEN "dropped" ELSE outcome[r]
           /\ \A r \in Requests : Displaced(slot, req)[r] # "none" => r <= Len(keyOf)
           /\ \A r \in Requests : (\A i \in Slots : acks[i].req # r) => Displaced(slot, req)[r] = outcome[r]
           /\ \A i \in Slots : ~acks[i].free /\ i # slot => Displaced(slot, req)[acks[i].req] = outcome[acks[i].req]
<1>1. Displaced(slot, req) \in [Requests -> Outcomes]
  BY DisplacedTyped
<1>2. CASE acks[slot].free \/ acks[slot].req = req
  <2>1. Displaced(slot, req) = outcome
    BY <1>2 DEF Displaced
  <2> QED BY <1>1, <1>2, <2>1 DEF RecordInv
<1>3. CASE ~acks[slot].free /\ acks[slot].req # req
  <2>1. Displaced(slot, req) = [outcome EXCEPT ![acks[slot].req] = "dropped"]
    BY <1>3 DEF Displaced
  <2>2. acks[slot].req \in Requests /\ acks[slot].req <= Len(keyOf)
    BY <1>3, RecordFacts, TypeFacts
  <2>3. \A r \in Requests : Displaced(slot, req)[r] = IF r = acks[slot].req THEN "dropped" ELSE outcome[r]
    BY <2>1, TypeFacts
  <2>4. ASSUME NEW i \in Slots, ~acks[i].free, i # slot
        PROVE  Displaced(slot, req)[acks[i].req] = outcome[acks[i].req]
    <3>1. acks[i].req # acks[slot].req /\ acks[i].req \in Requests
      BY <1>3, <2>4, RecordFacts DEF RecordInv
    <3> QED BY <2>3, <3>1
  <2>5. \A r \in Requests : Displaced(slot, req)[r] # "none" => r <= Len(keyOf)
    BY <2>2, <2>3 DEF RecordInv
  <2>6. \A r \in Requests : (\A i \in Slots : acks[i].req # r) => Displaced(slot, req)[r] = outcome[r]
    BY <2>3
  <2> QED BY <1>1, <1>3, <2>3, <2>4, <2>5, <2>6
<1> QED BY <1>2, <1>3

LEMMA RecordPublished == ASSUME TypeInv, RecordInv, Publish PROVE RecordInv'
<1>1. /\ stack # <<>> /\ Top.op = "action" /\ stack' = Below /\ UNCHANGED <<keyOf, acted>>
      /\ service' = service \union {Top.req}
      /\ acks' = [acks EXCEPT ![Top.slot] = [req |-> Top.req, free |-> FALSE]]
      /\ outcome' = [Displaced(Top.slot, Top.req) EXCEPT ![Top.req] = "pending"]
  BY DEF Publish, Acting
<1> DEFINE n == Len(stack)
<1>2. n \in DOMAIN stack /\ Top = stack[n] /\ n \in Nat \ {0}
  BY <1>1, TopPlace
<1>3. /\ \A p \in DOMAIN stack' : p \in DOMAIN stack /\ p < n /\ stack'[p] = stack[p]
      /\ \A p \in DOMAIN stack : p # n => p \in DOMAIN stack'
  BY <1>1, Innermost, TypeFacts
<1>4. ActFresh(n)
  BY <1>1, <1>2 DEF RecordInv
<1> HIDE DEF n
<1>5. Top.req \in DOMAIN keyOf /\ Top.req \in Requests /\ Top.slot \in Slots /\ Top.req \in 0..Len(keyOf)
  <2>1. Top.req \in DOMAIN keyOf /\ Top.slot \in Slots
    BY <1>1, <1>2, FrameTypes
  <2> QED BY <2>1, TypeFacts, ShadowAssumption DEF Requests
<1>6. \A i \in Slots : acks[i].req # Top.req
  BY <1>2, <1>4 DEF ActFresh
<1>7. \A i \in Slots : acks'[i] = IF i = Top.slot THEN [req |-> Top.req, free |-> FALSE] ELSE acks[i]
  BY <1>1, TypeFacts
<1>8. \A r \in Requests : outcome'[r] = IF r = Top.req THEN "pending" ELSE Displaced(Top.slot, Top.req)[r]
  BY <1>1, <1>5, DisplacedTyped
<1>9. DOMAIN stack' # {} => acted
  BY <1>2, <1>3, <1>4, FrameTypes DEF ActFresh
<1>10. \A i \in Slots : acks'[i].free \/ Waits(i)' \/ BeingAnswered(i)' \/ BeingTimedOut(i)'
  <2> TAKE i \in Slots
  <2>1. CASE i = Top.slot
    BY <1>5, <1>7, <1>8, <2>1 DEF Waits
  <2>2. CASE i # Top.slot /\ ~acks[i].free
    <3>1. acks'[i] = acks[i] /\ outcome'[acks[i].req] = outcome[acks[i].req]
      <4>1. acks[i].req \in Requests /\ acks[i].req # Top.req
        BY <1>6, <2>2, RecordFacts
      <4>2. Displaced(Top.slot, Top.req)[acks[i].req] = outcome[acks[i].req]
        BY <1>5, <2>2, DisplacedFacts
      <4> QED BY <1>7, <1>8, <2>2, <4>1, <4>2
    <3>2. CASE Waits(i)
      BY <3>1, <3>2 DEF Waits
    <3>3. CASE BeingAnswered(i)
      BY <1>1, <1>2, <1>3, <3>1, <3>3 DEF BeingAnswered
    <3>4. CASE BeingTimedOut(i)
      BY <1>1, <1>2, <1>3, <3>1, <3>4 DEF BeingTimedOut
    <3> QED BY <2>2, <3>2, <3>3, <3>4 DEF RecordInv
  <2>3. CASE i # Top.slot /\ acks[i].free
    BY <1>7, <2>3
  <2> QED BY <2>1, <2>2, <2>3
<1>11. ASSUME NEW p \in DOMAIN stack'
       PROVE  /\ stack'[p].op = "action" => ActFresh(p)'
              /\ stack'[p].op = "answered" => AnswerOwns(p)'
              /\ stack'[p].op = "expiring" => ExpiryHolds(p)'
              /\ stack'[p].pc = "callback" => acted' \/ p = Len(stack')
  <2>1. p \in DOMAIN stack /\ p < n /\ stack'[p] = stack[p] /\ acted' /\ acted
    BY <1>1, <1>3, <1>9
  <2>2. ASSUME stack[p].op = "action" PROVE ActFresh(p)'
    <3>1. ActFresh(p) /\ stack[p].req # Top.req /\ stack[p].req \in Requests
      <4>1. ActFresh(p)
        BY <2>1, <2>2 DEF RecordInv
      <4>2. stack[p].req # Top.req
        BY <1>1, <1>2, <1>4, <2>1, <2>2 DEF ActFresh
      <4>3. stack[p].req \in Requests
        BY <2>1, <2>2, FrameTypes DEF Acts
      <4> QED BY <4>1, <4>2, <4>3
    <3>2. outcome'[stack[p].req] = "none"
      BY <1>5, <1>8, <3>1, DisplacedFacts DEF ActFresh
    <3>3. \A i \in Slots : acks'[i].req # stack[p].req
      BY <1>7, <3>1 DEF ActFresh
    <3>4. \A q \in DOMAIN stack' : stack'[q].op = "action" /\ stack'[q].req = stack[p].req => q = p
      BY <1>3, <3>1 DEF ActFresh
    <3> QED BY <2>1, <3>2, <3>3, <3>4 DEF ActFresh
  <2>3. ASSUME stack[p].op = "answered" PROVE AnswerOwns(p)'
    <3>1. AnswerOwns(p)
      BY <2>1, <2>3 DEF RecordInv
    <3>2. stack[p].slot \in Slots /\ stack[p].slot # Top.slot
      <4>1. stack[p].slot # Top.slot
        BY <1>1, <1>2, <2>1, <3>1 DEF AnswerOwns
      <4>2. stack[p].slot \in Slots
        BY <2>1, <2>3, FrameTypes DEF ReportOK
      <4> QED BY <4>1, <4>2
    <3>3. acks'[stack[p].slot] = [req |-> stack[p].req, free |-> FALSE]
      BY <1>7, <3>1, <3>2 DEF AnswerOwns
    <3>4. stack[p].req \notin service'
      <4>1. stack[p].req = acks[stack[p].slot].req
        BY <3>1 DEF AnswerOwns
      <4> QED BY <1>1, <1>6, <3>1, <3>2, <4>1 DEF AnswerOwns
    <3>5. \A q \in DOMAIN stack' :
            q > p => ~(stack'[q].op \in {"action", "answered"} /\ stack'[q].slot = stack[p].slot)
      BY <1>3, <3>1 DEF AnswerOwns
    <3> QED BY <2>1, <3>3, <3>4, <3>5 DEF AnswerOwns
  <2>4. ASSUME stack[p].op = "expiring" PROVE ExpiryHolds(p)'
    <3>1. ExpiryHolds(p)
      BY <2>1, <2>4 DEF RecordInv
    <3>2. stack[p].pc = "callback" => acks'[stack[p].slot].req \in DOMAIN keyOf'
      <4> SUFFICES ASSUME stack[p].pc = "callback" PROVE acks'[stack[p].slot].req \in DOMAIN keyOf
        BY <1>1
      <4>1. stack[p].slot \in Slots /\ acks[stack[p].slot].req \in DOMAIN keyOf
        BY <2>1, <2>4, <3>1, FrameTypes DEF ReportOK, ExpiryHolds
      <4> QED BY <1>5, <1>7, <4>1
    <3> QED BY <2>1, <3>1, <3>2 DEF ExpiryHolds
  <2> QED BY <2>1, <2>2, <2>3, <2>4
<1>12. \A i \in Slots : acks'[i].req \in 0..Len(keyOf')
  BY <1>1, <1>5, <1>7 DEF RecordInv
<1>13. \A r \in Requests : outcome'[r] # "none" => r <= Len(keyOf')
  BY <1>1, <1>5, <1>8, DisplacedFacts
<1>14. \A i, j \in Slots : ~acks'[i].free /\ ~acks'[j].free /\ acks'[i].req = acks'[j].req => i = j
  BY <1>6, <1>7 DEF RecordInv
<1> QED BY <1>10, <1>11, <1>12, <1>13, <1>14 DEF RecordInv

\* The scan of the time-outs is the only call in progress.
LEMMA ScanAlone ==
    ASSUME TypeInv, RecordInv, stack # <<>>, Top.op = "expiring"
    PROVE  Len(stack) = 1 /\ DOMAIN stack = {1} /\ Top = stack[1]
<1>1. Len(stack) = 1
  BY TopPlace DEF RecordInv, ExpiryHolds
<1> QED BY <1>1, TopPlace

LEMMA RecordExpired == ASSUME TypeInv, RecordInv, Expire PROVE RecordInv'
<1>1. stack # <<>> /\ Top.pc = "scan" /\ Top.op = "expiring"
  <2>1. stack # <<>> /\ Top.pc = "scan"
    BY DEF Expire, Scanning
  <2> QED BY <2>1, TopFacts, FrameFacts DEF ReportOK
<1>2. Len(stack) = 1 /\ DOMAIN stack = {1} /\ Top = stack[1] /\ Top \in Reports
  BY <1>1, ScanAlone, TopFacts
<1>3. PICK s \in Slots :
        /\ ~acks[s].free
        /\ stack' = Replace([Top EXCEPT !.slot = s, !.req = acks[s].req, !.pc = "callback"])
        /\ outcome' = [outcome EXCEPT ![acks[s].req] = "timeout"]
  BY DEF Expire, Least, Due
<1> DEFINE frame == [Top EXCEPT !.slot = s, !.req = acks[s].req, !.pc = "callback"]
<1>4. acks[s].req \in DOMAIN keyOf /\ acks[s].req \in Requests /\ acks[s].req <= Len(keyOf)
      /\ acks[s] = [req |-> acks[s].req, free |-> FALSE]
  BY <1>3, RecordFacts, TypeFacts
<1>5. frame.op = "expiring" /\ frame.slot = s /\ frame.req = acks[s].req /\ frame.pc = "callback" /\ frame \in Frames
  <2>1. s \in 1..NumAcks + 1 /\ acks[s].req \in 0..MaxCalls
    BY <1>4, ShadowAssumption DEF Slots, Requests
  <2> QED BY <1>1, <1>2, <2>1 DEF Reports, Frames
<1>6. stack' = Replace(frame)
  BY <1>3
<1> HIDE DEF frame
<1>7. DOMAIN stack' = {1} /\ Len(stack') = 1 /\ stack'[1] = frame
  BY <1>1, <1>2, <1>5, <1>6, Replaced, TypeFacts
<1>8. UNCHANGED <<keyOf, acks, service, acted>>
  BY DEF Expire, world
<1>9. \A r \in Requests : outcome'[r] = IF r = acks[s].req THEN "timeout" ELSE outcome[r]
  BY <1>3, TypeFacts
<1>10. \A i \in Slots : acks'[i].free \/ Waits(i)' \/ BeingAnswered(i)' \/ BeingTimedOut(i)'
  <2> SUFFICES ASSUME NEW i \in Slots, ~acks[i].free
               PROVE  Waits(i)' \/ BeingAnswered(i)' \/ BeingTimedOut(i)'
    BY <1>8
  <2>1. CASE i = s
    <3>1. outcome'[acks'[i].req] = "timeout"
      BY <1>4, <1>8, <1>9, <2>1
    <3>2. BeingTimedOut(i)'
      BY <1>5, <1>7, <1>8, <2>1, <3>1 DEF BeingTimedOut
    <3> QED BY <3>2
  <2>2. CASE i # s
    <3>1. acks[i].req # acks[s].req
      BY <1>3, <2>2 DEF RecordInv
    <3>2. outcome'[acks'[i].req] = outcome[acks[i].req]
      BY <1>8, <1>9, <3>1, RecordFacts
    <3>3. ~BeingAnswered(i) /\ ~BeingTimedOut(i)
      BY <1>1, <1>2 DEF BeingAnswered, BeingTimedOut
    <3> QED BY <3>2, <3>3 DEF Waits, RecordInv
  <2> QED BY <2>1, <2>2
<1>11. ExpiryHolds(1)'
  BY <1>4, <1>5, <1>7, <1>8 DEF ExpiryHolds
<1>12. \A r \in Requests : outcome'[r] # "none" => r <= Len(keyOf')
  BY <1>4, <1>8, <1>9 DEF RecordInv
<1> QED BY <1>5, <1>7, <1>8, <1>10, <1>11, <1>12 DEF RecordInv

LEMMA RecordTimedOut ==
    ASSUME TypeInv, RecordInv, CallbackReturns, Top.op = "expiring" PROVE RecordInv'
<1>1. /\ stack # <<>> /\ Len(stack) = 1 /\ DOMAIN stack = {1} /\ Top = stack[1] /\ Top.pc = "callback"
      /\ Top \in Reports /\ Top.slot \in Slots
  <2>1. stack # <<>> /\ Top.pc = "callback"
    BY DEF CallbackReturns
  <2> QED BY <2>1, ScanAlone, TopFacts DEF ReportOK
<1> DEFINE frame == [Top EXCEPT !.pc = "accepted", !.key = KeyAt(Top.slot)]
<1>2. /\ stack' = Replace(frame) /\ acks' = [acks EXCEPT ![Top.slot] = NoRecord]
      /\ outcome' = Displaced(Top.slot, Top.req) /\ UNCHANGED <<keyOf, service, acted>>
  BY DEF CallbackReturns, world
<1>3. frame.op = "expiring" /\ frame.pc = "accepted" /\ frame \in Frames
  <2>1. KeyAt(Top.slot) \in Keys
    BY <1>1, CallbackKey
  <2> QED BY <1>1, <2>1 DEF Reports, Frames, Answers
<1> HIDE DEF frame
<1>4. DOMAIN stack' = {1} /\ Len(stack') = 1 /\ stack'[1] = frame
  BY <1>1, <1>2, <1>3, Replaced, TypeFacts
<1>5. \A i \in Slots : acks'[i] = IF i = Top.slot THEN NoRecord ELSE acks[i]
  BY <1>2, TypeFacts
<1>6. NoRecord.free /\ NoRecord.req = 0
  BY DEF NoRecord
<1>7. \A i \in Slots : acks'[i].free \/ Waits(i)' \/ BeingAnswered(i)' \/ BeingTimedOut(i)'
  <2> SUFFICES ASSUME NEW i \in Slots, i # Top.slot, ~acks[i].free PROVE Waits(i)'
    BY <1>5, <1>6
  <2>1. ~BeingAnswered(i) /\ ~BeingTimedOut(i)
    BY <1>1 DEF BeingAnswered, BeingTimedOut
  <2>2. Waits(i)
    BY <2>1 DEF RecordInv
  <2> QED BY <1>1, <1>2, <1>5, <2>2, DisplacedFacts DEF Waits
<1>8. ExpiryHolds(1)'
  BY <1>3, <1>4 DEF ExpiryHolds
<1>9. \A r \in Requests : outcome'[r] # "none" => r <= Len(keyOf')
  BY <1>1, <1>2, DisplacedFacts
<1>10. \A i \in Slots : acks'[i].req \in 0..Len(keyOf')
  BY <1>2, <1>5, <1>6, TypeFacts DEF RecordInv
<1>11. \A i, j \in Slots : ~acks'[i].free /\ ~acks'[j].free /\ acks'[i].req = acks'[j].req => i = j
  BY <1>5, <1>6 DEF RecordInv
<1> QED BY <1>3, <1>4, <1>7, <1>8, <1>9, <1>10, <1>11 DEF RecordInv

\* The record of an answer is freed; its time-out may still be being reported.
LEMMA RecordReleased ==
    ASSUME TypeInv, RecordInv, Releasing, Advance, Top.pc # "accepted", Top.op # "expiring",
           UNCHANGED <<keyOf, service, acted>>
    PROVE  RecordInv' /\ outcome' = outcome
<1>1. /\ stack # <<>> /\ Top.op = "answered" /\ stack' = Below
      /\ acks' = [acks EXCEPT ![Top.slot] = Freed(Top.slot)]
      /\ outcome' = Displaced(Top.slot, Top.req)
  BY DEF Releasing, Advance
<1> DEFINE n == Len(stack)
<1>2. n \in DOMAIN stack /\ Top = stack[n] /\ n \in Nat \ {0} /\ DOMAIN stack = 1..n
  BY <1>1, TopPlace
<1>3. /\ \A p \in DOMAIN stack' : p \in DOMAIN stack /\ p < n /\ stack'[p] = stack[p]
      /\ \A p \in DOMAIN stack : p # n => p \in DOMAIN stack' /\ p < n
  BY <1>1, Innermost, TypeFacts
<1>4. AnswerOwns(n)
  BY <1>1, <1>2 DEF RecordInv
<1>5. /\ Freed(Top.slot).free /\ Freed(Top.slot).req \in {0, acks[Top.slot].req}
      /\ (\E f \in 1..n - 1 : stack[f].op = "expiring" /\ stack[f].slot = Top.slot)
           => Freed(Top.slot).req = acks[Top.slot].req
  <2>1. acks[Top.slot] \in Record
    BY <1>1, TopFacts, TypeFacts DEF Releasing, ReportOK, Answers
  <2>2. LET r == [acks[Top.slot] EXCEPT !.free = TRUE] IN r.free /\ r.req = acks[Top.slot].req
    BY <2>1 DEF Record
  <2> QED BY <2>2 DEF Freed, NoRecord, n
<1> HIDE DEF n
<1>6. Top.slot \in Slots
  BY <1>1, TopFacts DEF Releasing, ReportOK, Answers
<1>7. \A i \in Slots : acks'[i] = IF i = Top.slot THEN Freed(Top.slot) ELSE acks[i]
  BY <1>1, TypeFacts
<1>8. outcome' = outcome
  <2>1. acks[Top.slot].req = Top.req
    BY <1>2, <1>4 DEF AnswerOwns
  <2> QED BY <1>1, <1>6, <2>1, DisplacedFacts
<1>9. \A i \in Slots : acks'[i].free \/ Waits(i)' \/ BeingAnswered(i)' \/ BeingTimedOut(i)'
  <2> SUFFICES ASSUME NEW i \in Slots, i # Top.slot, ~acks[i].free
               PROVE  Waits(i)' \/ BeingAnswered(i)' \/ BeingTimedOut(i)'
    BY <1>5, <1>7
  <2>1. acks'[i] = acks[i]
    BY <1>7
  <2>2. CASE Waits(i)
    BY <1>8, <2>1, <2>2 DEF Waits
  <2>3. CASE BeingAnswered(i)
    BY <1>2, <1>3, <2>1, <2>3 DEF BeingAnswered
  <2>4. CASE BeingTimedOut(i)
    BY <1>1, <1>2, <1>3, <1>8, <2>1, <2>4 DEF BeingTimedOut
  <2> QED BY <2>2, <2>3, <2>4 DEF RecordInv
<1>10. ASSUME NEW p \in DOMAIN stack'
       PROVE  /\ stack'[p].op = "action" => ActFresh(p)'
              /\ stack'[p].op = "answered" => AnswerOwns(p)'
              /\ stack'[p].op = "expiring" => ExpiryHolds(p)'
              /\ stack'[p].pc = "callback" => acted' \/ p = Len(stack')
  <2>1. p \in DOMAIN stack /\ p < n /\ p # n /\ stack'[p] = stack[p] /\ acted' = acted /\ p \in 1..n - 1
    BY <1>2, <1>3
  <2>2. ASSUME stack[p].op = "action" PROVE ActFresh(p)'
    <3>1. ActFresh(p) /\ stack[p].req \in 1..Len(keyOf) /\ stack[p].slot \in Slots
      BY <2>1, <2>2, FrameTypes, TypeFacts DEF RecordInv
    <3>2. outcome'[stack[p].req] = "none"
      BY <1>8, <3>1 DEF ActFresh
    <3>3. \A i \in Slots : acks'[i].req # stack[p].req
      BY <1>5, <1>7, <3>1, TypeFacts DEF ActFresh
    <3>4. \A q \in DOMAIN stack' : stack'[q].op = "action" /\ stack'[q].req = stack[p].req => q = p
      BY <1>3, <3>1 DEF ActFresh
    <3>5. acted' \/ (p = 1 /\ acks'[stack[p].slot].free)
      BY <1>5, <1>7, <2>1, <3>1 DEF ActFresh
    <3> QED BY <2>1, <3>2, <3>3, <3>4, <3>5 DEF ActFresh
  <2>3. ASSUME stack[p].op = "answered" PROVE AnswerOwns(p)'
    <3>1. AnswerOwns(p)
      BY <2>1, <2>3 DEF RecordInv
    <3>2. stack[p].slot \in Slots /\ stack[p].slot # Top.slot
      <4>1. stack[p].slot # Top.slot
        BY <1>1, <1>2, <2>1, <3>1 DEF AnswerOwns
      <4>2. stack[p].slot \in Slots
        BY <2>1, <2>3, FrameTypes DEF ReportOK
      <4> QED BY <4>1, <4>2
    <3>3. acks'[stack[p].slot] = [req |-> stack[p].req, free |-> FALSE]
      BY <1>7, <3>1, <3>2 DEF AnswerOwns
    <3>4. \A q \in DOMAIN stack' :
            q > p => ~(stack'[q].op \in {"action", "answered"} /\ stack'[q].slot = stack[p].slot)
      BY <1>3, <3>1 DEF AnswerOwns
    <3> QED BY <2>1, <3>1, <3>3, <3>4 DEF AnswerOwns
  <2>4. ASSUME stack[p].op = "expiring" PROVE ExpiryHolds(p)'
    <3>1. ExpiryHolds(p)
      BY <2>1, <2>4 DEF RecordInv
    <3>2. stack[p].pc = "callback" => acted
      BY <1>2, <2>1 DEF RecordInv, n
    <3>3. stack[p].pc = "callback" => acks'[stack[p].slot].req \in DOMAIN keyOf'
      <4> SUFFICES ASSUME stack[p].pc = "callback" PROVE acks'[stack[p].slot].req \in DOMAIN keyOf
        OBVIOUS
      <4>1. stack[p].slot \in Slots /\ acks[stack[p].slot].req \in DOMAIN keyOf
        BY <2>1, <2>4, <3>1, FrameTypes DEF ReportOK, ExpiryHolds
      <4>2. stack[p].slot = Top.slot => Freed(Top.slot).req = acks[Top.slot].req
        BY <1>5, <2>1, <2>4
      <4> QED BY <1>7, <4>1, <4>2
    <3> QED BY <2>1, <3>1, <3>2, <3>3 DEF ExpiryHolds
  <2>5. ASSUME stack[p].pc = "callback" PROVE acted
    BY <2>1, <2>5 DEF RecordInv, n
  <2> QED BY <2>1, <2>2, <2>3, <2>4, <2>5
<1>11. \A i \in Slots : acks'[i].req \in 0..Len(keyOf')
  BY <1>5, <1>7, TypeFacts DEF RecordInv
<1>12. \A i, j \in Slots : ~acks'[i].free /\ ~acks'[j].free /\ acks'[i].req = acks'[j].req => i = j
  BY <1>5, <1>7 DEF RecordInv
<1>13. \A r \in Requests : outcome'[r] # "none" => r <= Len(keyOf')
  BY <1>8 DEF RecordInv
<1> QED BY <1>8, <1>9, <1>10, <1>11, <1>12, <1>13 DEF RecordInv

LEMMA InitRecordInv == Init => RecordInv
<1> SUFFICES ASSUME Init PROVE RecordInv
  OBVIOUS
<1>1. stack = <<>> /\ DOMAIN stack = {} /\ Len(keyOf) = 0
  BY DEF Init
<1>2. \A i \in Slots : acks[i].free /\ acks[i].req = 0
  BY DEF Init, NoRecord
<1>3. \A r \in Requests : outcome[r] = "none"
  BY DEF Init
<1> QED BY <1>1, <1>2, <1>3 DEF RecordInv

\* With no call in progress every record in use waits.
LEMMA RecordIdle ==
    ASSUME TypeInv, RecordInv, stack = <<>>
    PROVE  \A i \in Slots : acks[i].free \/ Waits(i)
<1>1. DOMAIN stack = {}
  OBVIOUS
<1> QED BY <1>1 DEF RecordInv, BeingAnswered, BeingTimedOut

LEMMA NextRecordInv == TypeInv /\ RecordInv /\ [Next]_vars => RecordInv'
<1> SUFFICES ASSUME TypeInv, RecordInv, [Next]_vars PROVE RecordInv'
  OBVIOUS
<1>1. ASSUME UNCHANGED <<stack, keyOf, acks, outcome, service, acted>> PROVE RecordInv'
  BY <1>1 DEF RecordInv, ActFresh, AnswerOwns, ExpiryHolds, Waits, BeingAnswered, BeingTimedOut
<1>2. ASSUME NEW i \in Slots, TimerExpires(i) PROVE RecordInv'
  BY <1>1, <1>2 DEF TimerExpires, world
<1>3. CASE Connect
  <2>1. stack' = <<>> /\ DOMAIN stack' = {} /\ UNCHANGED keyOf
    BY <1>3 DEF Connect
  <2>2. \A i \in Slots : acks'[i].free /\ acks'[i].req = 0
    BY <1>3 DEF Connect, NoRecord
  <2>3. \A r \in Requests : outcome'[r] # "none" => r <= Len(keyOf')
    BY <1>3, <2>1 DEF Connect, RecordInv
  <2> QED BY <2>1, <2>2, <2>3, TypeFacts DEF RecordInv
<1>4. CASE Start
  <2>1. PICK u \in Uses : \/ StartPresent(u[1], u[2])
                          \/ StartSubscribing(u[1], u[2])
                          \/ StartCrowded(u[1], u[2])
    BY <1>4 DEF Start
  <2>2. u[1] \in Keys /\ u[2] \in BOOLEAN
    BY UsesTyped
  <2>3. \E pc \in {"accepted", "undo", "publish"} : \E a, b : StartAction(u[1], u[2], pc, a, b)
    BY <2>1, Zenon DEF StartPresent, StartSubscribing, StartCrowded
  <2> QED BY <2>2, <2>3, RecordStarted
<1>5. ASSUME NEW r \in Requests, NEW status \in Answers, ReadAnswer(r, status) PROVE RecordInv'
  BY <1>5, RecordAnswered
<1>6. CASE Yield
  <2>1. /\ stack = <<>> /\ DOMAIN stack' = {1} /\ Len(stack') = 1
        /\ stack'[1].op = "expiring" /\ stack'[1].pc = "scan"
        /\ UNCHANGED <<keyOf, acks, outcome, service, acted>>
    BY <1>6 DEF Yield, world
  <2>2. \A i \in Slots : acks'[i].free \/ Waits(i)'
    BY <2>1, RecordIdle DEF Waits
  <2>3. ExpiryHolds(1)'
    BY <2>1 DEF ExpiryHolds
  <2> QED BY <2>1, <2>2, <2>3 DEF RecordInv
<1>7. ASSUME Acting, \/ SubscribeAccepted \/ SubscribeRejected \/ SubscribeFails \/ UndoEnds \/ PublishFails
      PROVE  RecordInv'
  <2>1. stack # <<>> /\ Top.op = "action" /\ Top \in Acts /\ Top.pc # "callback"
    BY <1>7, TopFacts DEF Acting, Acts, Answers
  <2>2. UNCHANGED <<keyOf, acks, outcome, service, acted>>
    BY <1>7 DEF SubscribeAccepted, SubscribeRejected, SubscribeFails, UndoEnds, PublishFails, world
  <2>3. CASE stack' = Below
    BY <2>1, <2>2, <2>3, RecordPopped
  <2>4. ASSUME NEW pc \in {"rejected", "publish", "undo"}, NEW failed \in BOOLEAN,
               stack' = Replace([Top EXCEPT !.pc = pc, !.failed = failed])
        PROVE  RecordInv'
    <3> DEFINE frame == [Top EXCEPT !.pc = pc, !.failed = failed]
    <3>1. frame \in Frames /\ frame.op = "action" /\ frame.pc # "callback" /\ frame.req = Top.req
          /\ frame.slot = Top.slot
      BY <2>1 DEF Acts, Frames, Answers
    <3>2. stack' = Replace(frame)
      BY <2>4
    <3> HIDE DEF frame
    <3> QED BY <2>1, <2>2, <3>1, <3>2, RecordReplaced
  <2>5. ASSUME NEW pc \in {"rejected", "publish"}, stack' = Replace([Top EXCEPT !.pc = pc])
        PROVE  RecordInv'
    <3>1. [Top EXCEPT !.pc = pc] = [Top EXCEPT !.pc = pc, !.failed = Top.failed] /\ Top.failed \in BOOLEAN
      BY <2>1 DEF Acts
    <3> QED BY <2>4, <2>5, <3>1
  <2> QED
    BY <1>7, <2>3, <2>4, <2>5 DEF SubscribeAccepted, SubscribeRejected, SubscribeFails, UndoEnds, PublishFails
<1>8. CASE Publish
  BY <1>8, RecordPublished
<1>9. CASE Expire
  BY <1>9, RecordExpired
<1>10. CASE ScanEnds
  <2>1. stack # <<>> /\ Top.pc = "scan" /\ Top.op = "expiring"
    <3>1. stack # <<>> /\ Top.pc = "scan"
      BY <1>10 DEF ScanEnds, Scanning
    <3> QED BY <3>1, TopFacts, FrameFacts DEF ReportOK
  <2> DEFINE frame == [op |-> "yield", pc |-> "yield"]
  <2>2. frame \in Frames /\ frame.op = "yield" /\ frame.pc # "callback"
    BY DEF Frames, Yields
  <2>3. stack' = Replace(frame) /\ UNCHANGED <<keyOf, acks, outcome, service, acted>>
    BY <1>10 DEF ScanEnds, world
  <2> HIDE DEF frame
  <2> QED BY <2>1, <2>2, <2>3, RecordReplaced
<1>11. CASE YieldReturns
  <2>1. stack # <<>> /\ Top.op = "yield" /\ Top.pc # "callback"
    BY <1>11, TopFacts, FrameFacts DEF YieldReturns, Yields
  <2> QED BY <1>11, <2>1, RecordPopped DEF YieldReturns, world
<1>12. CASE CallbackReturns
  <2>1. stack # <<>> /\ Top.pc = "callback" /\ Top \in Reports /\ Top.op \in {"answered", "expiring"}
    <3>1. stack # <<>> /\ Top.pc = "callback"
      BY <1>12 DEF CallbackReturns
    <3> QED BY <3>1, TopFacts, FrameFacts
  <2>2. CASE Top.op = "expiring"
    BY <1>12, <2>2, RecordTimedOut
  <2>3. CASE Top.op = "answered"
    <3> DEFINE frame == [Top EXCEPT !.pc = "accepted", !.key = KeyAt(Top.slot)]
    <3>1. frame \in Frames /\ frame.op = "answered" /\ frame.pc # "callback" /\ frame.req = Top.req
          /\ frame.slot = Top.slot
      <4>1. KeyAt(Top.slot) \in Keys
        BY <2>1, CallbackKey
      <4> QED BY <2>1, <2>3, <4>1 DEF Reports, Frames, Answers
    <3>2. stack' = Replace(frame) /\ UNCHANGED <<keyOf, acks, outcome, service, acted>>
      BY <1>12, <2>3 DEF CallbackReturns, world
    <3> HIDE DEF frame
    <3> QED BY <2>1, <2>3, <3>1, <3>2, RecordReplaced
  <2> QED BY <2>1, <2>2, <2>3
<1>13. ASSUME Releasing, \E j \in Entries : stack' = Replace([Top EXCEPT !.entry = j]),
              UNCHANGED <<keyOf, acks, outcome, service, acted>>
       PROVE  RecordInv'
  <2>1. PICK j \in Entries : stack' = Replace([Top EXCEPT !.entry = j])
    BY <1>13
  <2>2. stack # <<>> /\ Top \in Reports /\ Top.pc \in Answers /\ Top.op \in {"answered", "expiring"} /\ Top.pc # "callback"
    BY <1>13, TopFacts DEF Releasing, Answers
  <2> DEFINE frame == [Top EXCEPT !.entry = j]
  <2>3. frame \in Frames /\ frame.op = Top.op /\ frame.pc = Top.pc /\ frame.req = Top.req
        /\ frame.slot = Top.slot
    <3>1. j \in 0..NumTopics
      BY ShadowAssumption DEF Entries
    <3> QED BY <2>2, <3>1 DEF Reports, Frames
  <2>4. stack' = Replace(frame)
    BY <2>1
  <2> HIDE DEF frame
  <2> QED BY <1>13, <2>2, <2>3, <2>4, RecordReplaced
<1>14. ASSUME Releasing, Advance, UNCHANGED <<keyOf, service, acted>> PROVE RecordInv'
  <2>1. stack # <<>> /\ Top \in Reports /\ Top.pc \in Answers /\ Top.op \in {"answered", "expiring"}
        /\ Top.pc # "callback" /\ Top.slot \in Slots
    BY <1>14, TopFacts DEF Releasing, Answers, ReportOK
  <2>2. 0 \in 0..NumTopics
    BY ShadowAssumption
  <2>3. CASE Top.pc = "accepted"
    <3> DEFINE frame == [Top EXCEPT !.pc = "rejected", !.entry = 0]
    <3>1. frame \in Frames /\ frame.op = Top.op /\ frame.pc # "callback" /\ frame.req = Top.req
          /\ frame.slot = Top.slot
      BY <2>1, <2>2 DEF Reports, Frames, Answers
    <3>2. stack' = Replace(frame) /\ UNCHANGED <<keyOf, acks, outcome, service, acted>>
      BY <1>14, <2>3 DEF Advance
    <3> HIDE DEF frame
    <3> QED BY <2>1, <3>1, <3>2, RecordReplaced
  <2>4. CASE Top.pc # "accepted" /\ Top.op = "expiring"
    <3> DEFINE frame == [Top EXCEPT !.pc = "scan", !.slot = @ + 1, !.entry = 0]
    <3>1. Top.slot + 1 \in 1..NumAcks + 1
      BY <2>1, ShadowAssumption DEF Slots
    <3>2. frame \in Frames /\ frame.op = "expiring" /\ frame.pc # "callback"
      BY <2>1, <2>2, <2>4, <3>1 DEF Reports, Frames, Answers
    <3>3. stack' = Replace(frame) /\ UNCHANGED <<keyOf, acks, outcome, service, acted>>
      BY <1>14, <2>4 DEF Advance
    <3> HIDE DEF frame
    <3> QED BY <2>1, <2>4, <3>2, <3>3, RecordReplaced
  <2>5. CASE Top.pc # "accepted" /\ Top.op # "expiring"
    BY <1>14, <2>5, RecordReleased
  <2> QED BY <2>3, <2>4, <2>5
<1>15. CASE Unsubscribe
  BY <1>13, <1>15 DEF Unsubscribe, world
<1>16. CASE Release \/ UnsubscribeEnds
  BY <1>14, <1>16 DEF Release, UnsubscribeEnds, world
<1>17. CASE UNCHANGED vars
  BY <1>1, <1>17 DEF vars, world
<1>18. CASE SubscribeAccepted \/ SubscribeRejected \/ SubscribeFails \/ UndoEnds \/ PublishFails
  BY <1>7, <1>18 DEF SubscribeAccepted, SubscribeRejected, SubscribeFails, UndoEnds, PublishFails
<1>19. CASE Proceed
  BY <1>8, <1>9, <1>10, <1>11, <1>12, <1>15, <1>16, <1>18, <1>19 DEF Proceed
<1> QED BY <1>2, <1>3, <1>4, <1>5, <1>6, <1>17, <1>19 DEF Next

\* Every variable stays in its range: no call is made beyond MaxDepth, no list
\* grows, no count exceeds the number of actions, and what the MQTT client or the
\* service is told is about keys and actions that exist (the frames of
\* aws_iot_shadow_records.c and aws_iot_shadow_actions.c).
THEOREM ShadowTypesHold == Spec => []TypeOK
<1>1. Init => TypeInv /\ RecordInv
  BY InitTypeInv, InitRecordInv
<1>2. TypeInv /\ RecordInv /\ [Next]_vars => TypeInv' /\ RecordInv'
  BY NextTypeInv, NextRecordInv
<1>3. TypeInv => TypeOK
  BY DEF TypeInv
<1> QED BY <1>1, <1>2, <1>3, PTL DEF Spec

----------------------------------------------------------------------------
(* Every action is called back at most once.                               *)

\* What ActionsImplemented allows a step to do.
Excused == acted /\ \E r \in Requests : Overtaken(r) \/ AnsweredLate(r)
ActionStep == Actions!Step \/ (Actions!Forget /\ Connect) \/ Excused

LEMMA PublishAccepts == ASSUME TypeInv, RecordInv, Publish PROVE ActionStep
<1>1. stack # <<>> /\ Top.op = "action" /\ outcome' = [Displaced(Top.slot, Top.req) EXCEPT ![Top.req] = "pending"]
  BY DEF Publish, Acting
<1> DEFINE n == Len(stack)
<1>2. n \in DOMAIN stack /\ Top = stack[n] /\ n \in Nat \ {0} /\ DOMAIN stack = 1..n
  BY <1>1, TopPlace
<1>3. ActFresh(n)
  BY <1>1, <1>2 DEF RecordInv
<1> HIDE DEF n
<1>4. Top.slot \in Slots /\ Top.req \in Requests
  BY <1>1, <1>2, FrameTypes DEF Acts
<1>5. CASE acks[Top.slot].free
  <2>1. outcome' = [outcome EXCEPT ![Top.req] = "pending"] /\ outcome[Top.req] = "none"
    BY <1>1, <1>2, <1>3, <1>5 DEF Displaced, ActFresh
  <2>2. Actions!Accept(Top.req)
    BY <2>1 DEF Actions!Accept
  <2> QED BY <1>4, <2>2 DEF ActionStep, Actions!Step
<1>6. CASE ~acks[Top.slot].free
  <2> DEFINE r == acks[Top.slot].req
  <2>1. r \in Requests /\ r # Top.req /\ acted
    BY <1>2, <1>3, <1>4, <1>6, RecordFacts DEF ActFresh
  <2>2. /\ outcome[Top.req] = "none"
        /\ outcome' = [[outcome EXCEPT ![r] = "dropped"] EXCEPT ![Top.req] = "pending"]
    BY <1>1, <1>2, <1>3, <1>6, <2>1 DEF Displaced, ActFresh
  <2>3. ~BeingAnswered(Top.slot)
    <3> SUFFICES ASSUME NEW p \in DOMAIN stack, stack[p].op = "answered", stack[p].slot = Top.slot
                 PROVE  FALSE
      BY DEF BeingAnswered
    <3>1. AnswerOwns(p) /\ n > p
      BY <1>1, <1>2 DEF RecordInv
    <3> QED BY <1>1, <1>2, <3>1 DEF AnswerOwns
  <2>4. outcome[r] \in {"pending", "timeout"}
    BY <1>4, <1>6, <2>3 DEF RecordInv, Waits, BeingTimedOut
  <2> HIDE DEF r
  <2>5. Overtaken(r)
    BY <1>4, <2>2, <2>4 DEF Overtaken
  <2> QED BY <2>1, <2>5 DEF ActionStep, Excused
<1> QED BY <1>5, <1>6

LEMMA AnswerCallsBack ==
    ASSUME TypeInv, RecordInv, NEW r \in Requests, NEW status \in Answers, ReadAnswer(r, status),
           outcome' # outcome
    PROVE  ActionStep
<1>1. /\ stack # <<>> /\ Exchanging(Top) /\ r \in service /\ outcome' = [outcome EXCEPT ![r] = status]
  BY DEF ReadAnswer
<1>2. PICK s \in Slots : ~acks[s].free /\ acks[s].req = r
  BY DEF ReadAnswer, Matches, Least
<1>3. CASE Waits(s)
  <2>1. outcome[r] = "pending" /\ status \in {"accepted", "rejected", "timeout"}
    BY <1>2, <1>3 DEF Waits, Answers
  <2>2. Actions!CallBack(r, status)
    BY <1>1, <2>1 DEF Actions!CallBack
  <2> QED BY <2>1, <2>2 DEF ActionStep, Actions!Step
<1>4. CASE BeingAnswered(s)
  <2>1. PICK p \in DOMAIN stack : stack[p].op = "answered" /\ stack[p].req = r
    BY <1>2, <1>4 DEF BeingAnswered
  <2>2. AnswerOwns(p)
    BY <2>1 DEF RecordInv
  <2> QED BY <1>1, <2>1, <2>2 DEF AnswerOwns
<1>5. CASE BeingTimedOut(s)
  <2>1. PICK p \in DOMAIN stack :
          stack[p].op = "expiring" /\ stack[p].pc = "callback" /\ stack[p].slot = s
    BY <1>5 DEF BeingTimedOut
  <2>2. p # Len(stack)
    BY <1>1, <2>1, ReadingOutside, TopPlace
  <2>3. acted
    BY <2>1, <2>2 DEF RecordInv
  <2>4. TimingOut(s)
    BY <2>1 DEF TimingOut
  <2>5. outcome[r] = "timeout"
    BY <1>2, <1>5 DEF BeingTimedOut
  <2>6. AnsweredLate(r)
    BY <1>1, <1>2, <2>4, <2>5 DEF AnsweredLate
  <2> QED BY <2>3, <2>6 DEF ActionStep, Excused
<1> QED BY <1>2, <1>3, <1>4, <1>5 DEF RecordInv

LEMMA ExpiryCallsBack == ASSUME TypeInv, RecordInv, Expire PROVE ActionStep
<1>1. stack # <<>> /\ Top.pc = "scan" /\ Top.op = "expiring"
  <2>1. stack # <<>> /\ Top.pc = "scan"
    BY DEF Expire, Scanning
  <2> QED BY <2>1, TopFacts, FrameFacts DEF ReportOK
<1>2. DOMAIN stack = {1} /\ Top = stack[1]
  BY <1>1, ScanAlone
<1>3. PICK s \in Slots : ~acks[s].free /\ outcome' = [outcome EXCEPT ![acks[s].req] = "timeout"]
  BY DEF Expire, Least, Due
<1>4. ~BeingAnswered(s) /\ ~BeingTimedOut(s)
  BY <1>1, <1>2 DEF BeingAnswered, BeingTimedOut
<1>5. outcome[acks[s].req] = "pending" /\ acks[s].req \in Requests
  BY <1>3, <1>4, RecordFacts DEF RecordInv, Waits
<1>6. Actions!CallBack(acks[s].req, "timeout")
  BY <1>3, <1>5 DEF Actions!CallBack
<1> QED BY <1>5, <1>6 DEF ActionStep, Actions!Step

\* The record of the time-out was taken over, by an action that waits.
LEMMA TimeOutDrops ==
    ASSUME TypeInv, RecordInv, CallbackReturns, outcome' # outcome PROVE ActionStep
<1>1. stack # <<>> /\ Top.pc = "callback" /\ Top.op = "expiring" /\ outcome' = Displaced(Top.slot, Top.req)
  BY DEF CallbackReturns
<1>2. DOMAIN stack = {1} /\ Top = stack[1] /\ Top.slot \in Slots
  BY <1>1, ScanAlone, TopFacts DEF ReportOK
<1>3. ~acks[Top.slot].free /\ acks[Top.slot].req # Top.req
  BY <1>1, <1>2, DisplacedFacts
<1>4. acted
  <2>1. ExpiryHolds(1)
    BY <1>1, <1>2 DEF RecordInv
  <2> QED BY <1>1, <1>2, <1>3, <2>1 DEF ExpiryHolds
<1>5. ~BeingAnswered(Top.slot) /\ ~BeingTimedOut(Top.slot)
  BY <1>1, <1>2, <1>3 DEF BeingAnswered, BeingTimedOut
<1>6. acks[Top.slot].req \in Requests /\ outcome[acks[Top.slot].req] = "pending"
  BY <1>2, <1>3, <1>5, RecordFacts DEF RecordInv, Waits
<1>7. outcome' = [outcome EXCEPT ![acks[Top.slot].req] = "dropped"]
  BY <1>1, <1>3 DEF Displaced
<1>8. Overtaken(acks[Top.slot].req)
  BY <1>6, <1>7 DEF Overtaken
<1> QED BY <1>4, <1>6, <1>8 DEF ActionStep, Excused

LEMMA StepImplements == TypeInv /\ RecordInv /\ [Next]_vars => [ActionStep]_outcome
<1> SUFFICES ASSUME TypeInv, RecordInv, Next, outcome' # outcome PROVE ActionStep
  BY DEF vars
<1>1. ASSUME NEW i \in Slots, TimerExpires(i) PROVE FALSE
  BY <1>1 DEF TimerExpires
<1>2. CASE Connect
  <2>1. Actions!Forget /\ Connect
    BY <1>2 DEF Connect, Actions!Forget
  <2> QED BY ONLY <2>1 DEF ActionStep
<1>3. CASE Start
  BY <1>3 DEF Start, StartPresent, StartSubscribing, StartCrowded, StartAction
<1>4. ASSUME NEW r \in Requests, NEW status \in Answers, ReadAnswer(r, status) PROVE ActionStep
  BY <1>4, AnswerCallsBack
<1>5. CASE Yield
  BY <1>5 DEF Yield
<1>6. CASE Publish
  BY <1>6, PublishAccepts
<1>7. CASE Expire
  BY <1>7, ExpiryCallsBack
<1>8. CASE CallbackReturns
  BY <1>8, TimeOutDrops
<1>9. CASE Release \/ UnsubscribeEnds
  <2>1. Releasing /\ Advance /\ UNCHANGED <<keyOf, service, acted>>
    BY <1>9 DEF Release, UnsubscribeEnds, world
  <2>2. Top.pc # "accepted" /\ Top.op # "expiring"
    BY <2>1 DEF Advance
  <2> QED BY <2>1, <2>2, RecordReleased
<1>10. CASE \/ SubscribeAccepted \/ SubscribeRejected \/ SubscribeFails \/ UndoEnds \/ PublishFails
            \/ ScanEnds \/ YieldReturns \/ Unsubscribe
  BY <1>10 DEF SubscribeAccepted, SubscribeRejected, SubscribeFails, UndoEnds, PublishFails, ScanEnds,
               YieldReturns, Unsubscribe
<1> QED BY <1>1, <1>2, <1>3, <1>4, <1>5, <1>6, <1>7, <1>8, <1>9, <1>10 DEF Next, Proceed

\* Every action whose call returned SUCCESS is called back at most once, by its
\* answer or its time-out, and is not forgotten, but for the two things that
\* callbacks can bring about: the steps of the records implement ShadowActions
\* (addToAckWaitList, AckStatusCallback, HandleExpiredResponseCallbacks).
THEOREM ShadowActionsHold == Spec => ActionsImplemented
<1>1. Init => TypeInv /\ RecordInv /\ Actions!Init
  BY InitTypeInv, InitRecordInv DEF Init, Actions!Init
<1>2. TypeInv /\ RecordInv /\ [Next]_vars => TypeInv' /\ RecordInv'
  BY NextTypeInv, NextRecordInv
<1>3. TypeInv /\ RecordInv /\ [Next]_vars => [ActionStep]_outcome
  BY StepImplements
<1> QED BY <1>1, <1>2, <1>3, PTL DEF Spec, ActionsImplemented, ActionStep, Excused
----------------------------------------------------------------------------
(* Both answers of an action that waits are heard: the subscriptions of a   *)
(* key, their counts, and who counts in them.                               *)

Calls == {f \in {stack[p] : p \in DOMAIN stack} : f.op # "yield"}

\* f changes the subscriptions of its key, or releases them.
Changing(f, k) == f.op = "action" /\ f.pc \in Answers \union {"undo"} /\ keyOf[f.req] = k
Ending(f, k) == f.op \in {"answered", "expiring"} /\ f.pc \in Answers /\ f.key = k

Holds(f, j) == \/ f.op = "action" /\ f.pc \in Answers \union {"undo"} /\ j \in {f.a, f.b}
               \/ f.op \in {"answered", "expiring"} /\ f.pc \in Answers /\ j = f.entry

\* An entry that was taken and still has the topic of its last user.
Stale(j, k) == \E f \in Calls : /\ f.op = "action" /\ f.pc \in {"accepted", "undo"}
                                /\ f.b = j /\ keyOf[f.req] # k

Mine(k, x, j) == ~subs[j].free /\ subs[j].topic = <<k, x>> /\ ~Stale(j, k)
First(k, x, j) == \A e \in Entries : e < j => subs[e].topic # <<k, x>>
Only(k, x, j) == Mine(k, x, j) /\ First(k, x, j) /\ \A e \in Entries : Mine(k, x, e) => e = j

\* Who counts in the subscription to <<k, x>>: the records of actions that wait
\* or are being answered, by their slot, a time-out that is being released and
\* an action about to be published.
Passed(i) == \E f \in Calls : f.op = "answered" /\ f.slot = i /\ f.pc = "rejected"
Waiters(k, x) == {i \in Slots : ~acks[i].free /\ KeyAt(i) = k /\ (x = "accepted" => ~Passed(i))}
Expiring(k, x) == \E f \in Calls : f.op = "expiring" /\ Ending(f, k) /\ (x = "accepted" => f.pc = "accepted")
Publishing(k) == \E f \in Calls : f.op = "action" /\ f.pc = "publish" /\ keyOf[f.req] = k
Users(k, x) == {u \in 0..NumAcks + 1 : \/ u \in Waiters(k, x)
                                       \/ u = 0 /\ Expiring(k, x)
                                       \/ u = NumAcks + 1 /\ Publishing(k)}
None(k) == \A x \in Answers : Users(k, x) = {}

Subscribing(k, f) ==
    /\ None(k)
    /\ \A g \in Calls : Changing(g, k) => g = f
    /\ f.pc \in Answers =>
         /\ f.a # f.b /\ ~subs[f.a].free /\ ~subs[f.b].free
         /\ \A g \in Calls : Holds(g, f.a) \/ Holds(g, f.b) => g = f
         /\ \A x \in Answers, j \in Entries : Mine(k, x, j) => j \in {f.a, f.b}
         /\ subs[f.a].topic = <<k, "accepted">> /\ First(k, "accepted", f.a)
         /\ First(k, "rejected", f.b)
    /\ f.pc = "rejected" =>
         /\ subs[f.a].count = 1 /\ subs[f.a].sticky = f.sticky /\ <<k, "accepted">> \in Heard
         /\ subs[f.b].topic = <<k, "rejected">>
    /\ f.pc = "undo" =>
         /\ f.failed
         /\ \A x \in Answers, j \in Entries : Mine(k, x, j) => j = f.b

Absent(k) == None(k) /\ \A x \in Answers, j \in Entries : ~Mine(k, x, j)

Good(k, x, j) == /\ Only(k, x, j) /\ <<k, x>> \in Heard
                 /\ subs[j].count > 0 /\ Cardinality(Users(k, x)) <= subs[j].count

Both(k, i, j) ==
    /\ Good(k, "accepted", i) /\ Good(k, "rejected", j) /\ subs[i].sticky = subs[j].sticky
    /\ subs[i].count = subs[j].count
    /\ \A f \in Calls : Ending(f, k) =>
         f.pc = "accepted" /\ (f.entry > 0 => f.entry = i /\ subs[i].count = 1 /\ ~subs[i].sticky)

EndsAlone(k, f) == \A g \in Calls : Ending(g, k) => g = f

\* The count of the first answer has been taken down, that of the second not yet.
Between(k, i, j) ==
    /\ Good(k, "accepted", i) /\ Good(k, "rejected", j) /\ subs[i].sticky = subs[j].sticky
    /\ \/ subs[j].count = subs[i].count + 1
       \/ subs[i].sticky /\ subs[i].count = 1 /\ subs[j].count = 1
    /\ \E f \in Calls : Ending(f, k) /\ f.pc = "rejected" /\ f.entry = 0 /\ EndsAlone(k, f)

Half(k, j) ==
    /\ \A e \in Entries : ~Mine(k, "accepted", e)
    /\ Users(k, "accepted") = {}
    /\ Good(k, "rejected", j) /\ subs[j].count = 1 /\ ~subs[j].sticky
    /\ \E f \in Calls : Ending(f, k) /\ f.pc = "rejected" /\ f.entry \in {0, j} /\ EndsAlone(k, f)

\* An entry in use is not changed by the calls of other keys.
Reserved(k) == \A x \in Answers, j \in Entries, f \in Calls : Mine(k, x, j) /\ Holds(f, j) => FrameKey(f) = k
\* The first entry of an action of another key does not name this one.
TopicOwn(k) == \A f \in Calls :
    f.op = "action" /\ f.pc \in Answers \union {"undo"} /\ subs[f.a].topic \in {k} \X Answers => keyOf[f.req] = k
\* A time-out that is being reported keeps its record, and no answer is read for it.
TimeOutAlone(k) == \A f \in Calls :
    f.op = "expiring" /\ f.pc = "callback" /\ KeyAt(f.slot) = k
      => ~acks[f.slot].free /\ \A g \in Calls : ~(g.op = "answered" /\ g.slot = f.slot)

Settled(k) == \/ Absent(k)
              \/ \E i, j \in Entries : Both(k, i, j) \/ Between(k, i, j)
              \/ \E j \in Entries : Half(k, j)

KeyInv(k) ==
    /\ \A f \in Calls : Changing(f, k) => Subscribing(k, f)
    /\ (\A f \in Calls : ~Changing(f, k)) => Settled(k)
    /\ Reserved(k)
    /\ TopicOwn(k)
    /\ TimeOutAlone(k)

\* Only a callback, or a call that waits for the MQTT client, has others above it.
Nested == \A p \in DOMAIN stack : p < Len(stack) => stack[p].pc = "callback" \/ Exchanging(stack[p])

\* An answer is reported under the thing and action that it answers.
Keyed == \A f \in Calls : f.op = "answered" => f.key = keyOf[f.req]

HearInv ==
    /\ Nested
    /\ Keyed
    /\ \A k \in Keys \ troubled : KeyInv(k)

----------------------------------------------------------------------------
(* The calls and callbacks in progress, as a set.                          *)

LEMMA CallPlace == \A f : f \in Calls <=> f.op # "yield" /\ \E p \in DOMAIN stack : stack[p] = f
BY DEF Calls

LEMMA CallTypes ==
    ASSUME TypeInv, NEW f \in Calls
    PROVE  /\ f \in Frames /\ f.op \in {"action", "answered", "expiring"}
           /\ f.op = "action" => /\ f \in Acts /\ f.req \in DOMAIN keyOf /\ f.slot \in Slots
                                 /\ keyOf[f.req] \in Keys /\ f.pc # "callback" /\ f.pc # "scan"
                                 /\ f.pc \in Answers => f.a \in Entries /\ f.b \in Entries
                                 /\ f.pc = "undo" => f.a \in Entries /\ subs[f.a].topic \in Topics
           /\ f.op \in {"answered", "expiring"} => f \in Reports /\ ReportOK(f)
<1>1. PICK p \in DOMAIN stack : stack[p] = f /\ f.op # "yield"
  BY CallPlace
<1>2. f \in Frames /\ f.op \in {"action", "answered", "expiring"}
  BY <1>1, FrameTypes, FrameFacts
<1>3. StackOK(stack, DOMAIN keyOf, subs)
  BY TypeFacts
<1>4. FrameOK(f, DOMAIN keyOf, subs)
  BY <1>1, <1>3 DEF StackOK
<1>5. ASSUME f.op = "action"
      PROVE  /\ f \in Acts /\ f.req \in DOMAIN keyOf /\ f.slot \in Slots
             /\ keyOf[f.req] \in Keys /\ f.pc # "callback" /\ f.pc # "scan"
             /\ f.pc \in Answers => f.a \in Entries /\ f.b \in Entries
             /\ f.pc = "undo" => f.a \in Entries /\ subs[f.a].topic \in Topics
  <2>1. f \in Acts /\ ActOK(f, DOMAIN keyOf, subs)
    BY <1>2, <1>4, <1>5, FrameFacts DEF FrameOK
  <2> QED BY <2>1, TypeFacts DEF ActOK, Acts, Answers
<1>6. ASSUME f.op \in {"answered", "expiring"} PROVE f \in Reports /\ ReportOK(f)
  BY <1>2, <1>4, <1>6, FrameFacts DEF FrameOK
<1> QED BY <1>2, <1>5, <1>6

\* No two calls are alike.
LEMMA TopAlone ==
    ASSUME TypeInv, RecordInv, stack # <<>>, Top.op # "yield",
           NEW p \in DOMAIN stack, stack[p] = Top
    PROVE  p = Len(stack)
<1>1. /\ Len(stack) \in DOMAIN stack /\ Top = stack[Len(stack)] /\ Len(stack) \in Nat \ {0}
      /\ DOMAIN stack = 1..Len(stack)
  BY TopPlace
<1>2. CASE Top.op = "action"
  <2>1. ActFresh(p)
    BY <1>2 DEF RecordInv
  <2> QED BY <1>1, <1>2, <2>1 DEF ActFresh
<1>3. CASE Top.op = "answered"
  <2>1. AnswerOwns(p)
    BY <1>3 DEF RecordInv
  <2>2. ~(Len(stack) > p)
    BY <1>1, <1>3, <2>1 DEF AnswerOwns
  <2> QED BY <1>1, <2>2
<1>4. CASE Top.op = "expiring"
  <2>1. ExpiryHolds(p) /\ ExpiryHolds(Len(stack))
    BY <1>1, <1>4 DEF RecordInv
  <2> QED BY <2>1 DEF ExpiryHolds
<1>5. Top.op \in {"action", "answered", "expiring"}
  BY <1>1, FrameTypes, FrameFacts
<1> QED BY <1>2, <1>3, <1>4, <1>5

LEMMA TopCall == ASSUME TypeInv, stack # <<>>, Top.op # "yield" PROVE Top \in Calls
BY TopPlace, CallPlace

LEMMA CallsPushed ==
    ASSUME TypeInv, NEW frame \in Frames, frame.op # "yield", stack' = Append(stack, frame)
    PROVE  Calls' = Calls \union {frame}
<1>1. stack \in Seq(Frames)
  BY TypeFacts
<1>2. /\ \A i \in DOMAIN stack : i \in DOMAIN stack' /\ stack'[i] = stack[i]
      /\ \A i \in DOMAIN stack' : i \notin DOMAIN stack => stack'[i] = frame
      /\ \E i \in DOMAIN stack' : stack'[i] = frame
  BY <1>1
<1> QED BY <1>2 DEF Calls

LEMMA CallsReplaced ==
    ASSUME TypeInv, RecordInv, stack # <<>>, Top.op # "yield",
           NEW frame \in Frames, frame.op # "yield", stack' = Replace(frame)
    PROVE  Calls' = (Calls \ {Top}) \union {frame}
<1>1. /\ Len(stack) \in DOMAIN stack /\ Top = stack[Len(stack)]
      /\ DOMAIN stack' = DOMAIN stack
      /\ \A p \in DOMAIN stack : stack'[p] = IF p = Len(stack) THEN frame ELSE stack[p]
  BY TopPlace, Replaced
<1>2. \A p \in DOMAIN stack : stack[p] = Top => p = Len(stack)
  BY TopAlone
<1>3. \A f : f \in Calls' <=> f.op # "yield" /\ \E p \in DOMAIN stack : stack'[p] = f
  BY <1>1 DEF Calls
<1> HIDE DEF Top
<1>4. ASSUME NEW f \in Calls' PROVE f \in (Calls \ {Top}) \union {frame}
  <2>1. PICK p \in DOMAIN stack : stack'[p] = f /\ f.op # "yield"
    BY <1>3, <1>4
  <2>2. p # Len(stack) => stack[p] = f /\ f # Top
    BY <1>1, <1>2, <2>1
  <2> QED BY <1>1, <2>1, <2>2, CallPlace
<1>5. ASSUME NEW f \in (Calls \ {Top}) \union {frame} PROVE f \in Calls'
  <2>1. CASE f = frame
    BY <1>1, <1>3, <2>1
  <2>2. CASE f \in Calls \ {Top}
    <3>1. PICK p \in DOMAIN stack : stack[p] = f /\ f.op # "yield"
      BY <2>2, CallPlace
    <3>2. p # Len(stack)
      BY <1>1, <2>2, <3>1
    <3> QED BY <1>1, <1>3, <3>1, <3>2
  <2> QED BY <1>5, <2>1, <2>2
<1> QED BY <1>4, <1>5

LEMMA CallsPopped ==
    ASSUME TypeInv, RecordInv, stack # <<>>, Top.op # "yield",
           \/ stack' = Below
           \/ \E frame \in Frames : frame.op = "yield" /\ stack' = Replace(frame)
    PROVE  Calls' = Calls \ {Top}
<1>1. /\ Len(stack) \in DOMAIN stack /\ Top = stack[Len(stack)]
      /\ \A p \in DOMAIN stack' : p # Len(stack) => p \in DOMAIN stack /\ stack'[p] = stack[p]
      /\ \A p \in DOMAIN stack : p # Len(stack) => p \in DOMAIN stack' /\ stack'[p] = stack[p]
      /\ Len(stack) \in DOMAIN stack' => stack'[Len(stack)].op = "yield"
  <2>1. CASE stack' = Below
    <3>1. Len(stack) \notin DOMAIN Below
      BY TopPlace, Innermost
    <3> QED BY <2>1, <3>1, TopPlace, Innermost
  <2>2. CASE \E frame \in Frames : frame.op = "yield" /\ stack' = Replace(frame)
    BY <2>2, TopPlace, Replaced
  <2> QED BY <2>1, <2>2
<1>2. \A p \in DOMAIN stack : stack[p] = Top => p = Len(stack)
  BY TopAlone
<1> HIDE DEF Top
<1>3. \A f : f \in Calls' <=> f.op # "yield" /\ \E p \in DOMAIN stack' : stack'[p] = f
  BY DEF Calls
<1>4. ASSUME NEW f \in Calls' PROVE f \in Calls \ {Top}
  <2>1. PICK p \in DOMAIN stack' : stack'[p] = f /\ f.op # "yield"
    BY <1>3, <1>4
  <2> QED BY <1>1, <1>2, <2>1, CallPlace
<1>5. ASSUME NEW f \in Calls \ {Top} PROVE f \in Calls'
  <2>1. PICK p \in DOMAIN stack : stack[p] = f /\ f.op # "yield"
    BY <1>5, CallPlace
  <2> QED BY <1>1, <1>3, <1>5, <2>1
<1> QED BY <1>4, <1>5

----------------------------------------------------------------------------
(* Counting the users of a subscription.                                   *)

LEMMA PlusOne ==
    ASSUME NEW S, IsFiniteSet(S), NEW v
    PROVE  /\ IsFiniteSet(S \union {v}) /\ Cardinality(S) \in Nat
           /\ Cardinality(S \union {v}) \in Nat
           /\ Cardinality(S \union {v}) <= Cardinality(S) + 1
<1>1. IsFiniteSet(S \union {v}) /\ Cardinality(S) \in Nat
  BY FS_AddElement, FS_CardinalityType
<1>2. Cardinality(S \union {v}) \in {Cardinality(S), Cardinality(S) + 1}
  BY FS_AddElement
<1> QED BY <1>1, <1>2

LEMMA SmallerSet ==
    ASSUME NEW S, IsFiniteSet(S), NEW T,
           T \subseteq S \/ \E u \in S : \E v : T \subseteq (S \ {u}) \union {v}
    PROVE  /\ IsFiniteSet(T) /\ Cardinality(S) \in Nat /\ Cardinality(T) \in Nat
           /\ Cardinality(T) <= Cardinality(S)
           /\ S = {} => T = {}
<1>1. Cardinality(S) \in Nat
  BY FS_CardinalityType
<1>2. CASE T \subseteq S
  BY <1>1, <1>2, FS_Subset, FS_CardinalityType
<1>3. ASSUME NEW u \in S, NEW v, T \subseteq (S \ {u}) \union {v}
      PROVE  IsFiniteSet(T) /\ Cardinality(T) \in Nat /\ Cardinality(T) <= Cardinality(S)
  <2> DEFINE R == S \ {u}
  <2>1. IsFiniteSet(R) /\ Cardinality(R) = Cardinality(S) - 1 /\ Cardinality(R) \in Nat
    BY <1>3, FS_RemoveElement, FS_CardinalityType
  <2> HIDE DEF R
  <2>2. IsFiniteSet(R \union {v}) /\ Cardinality(R \union {v}) \in Nat
        /\ Cardinality(R \union {v}) <= Cardinality(R) + 1
    BY <2>1, PlusOne
  <2>3. T \subseteq R \union {v}
    BY <1>3 DEF R
  <2>4. IsFiniteSet(T) /\ Cardinality(T) \in Nat /\ Cardinality(T) <= Cardinality(R \union {v})
    BY <2>2, <2>3, FS_Subset, FS_CardinalityType
  <2> QED BY <1>1, <2>1, <2>2, <2>4
<1> QED BY <1>1, <1>2, <1>3

\* One that has ended is not counted any more.
LEMMA OneLess ==
    ASSUME NEW S, IsFiniteSet(S), NEW u \in S, NEW T, T \subseteq S \ {u}
    PROVE  /\ IsFiniteSet(T) /\ Cardinality(S) \in Nat /\ Cardinality(T) \in Nat
           /\ Cardinality(T) <= Cardinality(S) - 1
<1>1. IsFiniteSet(S \ {u}) /\ Cardinality(S \ {u}) = Cardinality(S) - 1
  BY FS_RemoveElement
<1>2. IsFiniteSet(T) /\ Cardinality(T) <= Cardinality(S \ {u})
  BY <1>1, FS_Subset
<1> QED BY <1>1, <1>2, FS_CardinalityType

LEMMA OneMore ==
    ASSUME NEW S, IsFiniteSet(S), NEW v, NEW T, T \subseteq S \union {v}
    PROVE  /\ IsFiniteSet(T) /\ Cardinality(S) \in Nat /\ Cardinality(T) \in Nat
           /\ Cardinality(T) <= Cardinality(S) + 1
<1>1. IsFiniteSet(S \union {v}) /\ Cardinality(S \union {v}) <= Cardinality(S) + 1
      /\ Cardinality(S) \in Nat
  BY PlusOne
<1>2. IsFiniteSet(T) /\ Cardinality(T) <= Cardinality(S \union {v})
  BY <1>1, FS_Subset
<1> QED BY <1>1, <1>2, FS_CardinalityType

LEMMA OneUser ==
    ASSUME NEW S, IsFiniteSet(S), Cardinality(S) <= 1, NEW u \in S, NEW v \in S
    PROVE  u = v
<1> SUFFICES ASSUME u # v PROVE FALSE
  OBVIOUS
<1>1. IsFiniteSet(S \ {u}) /\ Cardinality(S \ {u}) = Cardinality(S) - 1 /\ Cardinality(S) \in Nat
  BY FS_RemoveElement, FS_CardinalityType
<1>2. v \in S \ {u} /\ Cardinality(S \ {u}) \in Nat
  BY <1>1, FS_CardinalityType
<1>3. Cardinality(S \ {u}) = 0
  BY <1>1, <1>2
<1> QED BY <1>1, <1>2, <1>3, FS_EmptySet

LEMMA UsersFinite ==
    \A k, x : IsFiniteSet(Users(k, x)) /\ Cardinality(Users(k, x)) \in Nat
<1> TAKE k, x
<1>1. 0 \in Int /\ NumAcks + 1 \in Int
  BY ShadowAssumption
<1>2. IsFiniteSet(0..NumAcks + 1)
  BY <1>1, FS_Interval
<1>3. Users(k, x) \subseteq 0..NumAcks + 1
  BY DEF Users
<1> QED BY <1>2, <1>3, FS_Subset, FS_CardinalityType

\* Membership in Users, by what is counted.
LEMMA UserFacts ==
    ASSUME NEW k, NEW x
    PROVE  /\ \A i \in Slots : i \in Users(k, x) <=> i \in Waiters(k, x)
           /\ 0 \in Users(k, x) <=> Expiring(k, x)
           /\ NumAcks + 1 \in Users(k, x) <=> Publishing(k)
           /\ \A u \in Users(k, x) : u \in Slots \/ u = 0 \/ u = NumAcks + 1
           /\ \A i \in Slots : i # 0 /\ i # NumAcks + 1
<1>1. NumAcks \in Nat \ {0}
  BY ShadowAssumption
<1>2. \A i \in Slots : i \in 0..NumAcks + 1 /\ i # 0 /\ i # NumAcks + 1
  BY <1>1 DEF Slots
<1>3. 0 \in 0..NumAcks + 1 /\ NumAcks + 1 \in 0..NumAcks + 1 /\ NumAcks + 1 # 0
  BY <1>1
<1>4. Waiters(k, x) \subseteq Slots
  BY DEF Waiters
<1> QED BY <1>2, <1>3, <1>4 DEF Users

LEMMA UserFactsAfter ==
    ASSUME NEW k, NEW x
    PROVE  /\ \A i \in Slots : i \in Users(k, x)' <=> i \in Waiters(k, x)'
           /\ 0 \in Users(k, x)' <=> Expiring(k, x)'
           /\ NumAcks + 1 \in Users(k, x)' <=> Publishing(k)'
           /\ \A u \in Users(k, x)' : u \in Slots \/ u = 0 \/ u = NumAcks + 1
<1>1. NumAcks \in Nat \ {0}
  BY ShadowAssumption
<1>2. \A i \in Slots : i \in 0..NumAcks + 1 /\ i # 0 /\ i # NumAcks + 1
  BY <1>1 DEF Slots
<1>3. 0 \in 0..NumAcks + 1 /\ NumAcks + 1 \in 0..NumAcks + 1 /\ NumAcks + 1 # 0
  BY <1>1
<1>4. Waiters(k, x)' \subseteq Slots
  BY DEF Waiters
<1> QED BY <1>2, <1>3, <1>4 DEF Users

\* The users after a step are among the earlier ones.
LEMMA UsersWithin ==
    ASSUME NEW k, NEW x,
           \A i \in Slots : i \in Waiters(k, x)' => i \in Waiters(k, x),
           Expiring(k, x)' => Expiring(k, x), Publishing(k)' => Publishing(k)
    PROVE  Users(k, x)' \subseteq Users(k, x)
BY DEF Users, Waiters

----------------------------------------------------------------------------
(* The calls that end a subscription, and what they stand for.             *)

Token(f) == IF f.op = "expiring" THEN 0 ELSE f.slot

LEMMA CallsApart ==
    ASSUME TypeInv, RecordInv, NEW f \in Calls, NEW g \in Calls,
           f.op \in {"answered", "expiring"}, g.op \in {"answered", "expiring"}, Token(f) = Token(g)
    PROVE  f = g
<1>1. PICK p \in DOMAIN stack : stack[p] = f
  BY CallPlace
<1>2. PICK q \in DOMAIN stack : stack[q] = g
  BY CallPlace
<1>3. f.slot \in Nat \ {0} /\ g.slot \in Nat \ {0}
  BY CallTypes, ShadowAssumption DEF Reports
<1>4. CASE f.op = "expiring"
  <2>1. g.op = "expiring"
    BY <1>3, <1>4 DEF Token
  <2>2. ExpiryHolds(p) /\ ExpiryHolds(q)
    BY <1>1, <1>2, <1>4, <2>1 DEF RecordInv
  <2> QED BY <1>1, <1>2, <2>2 DEF ExpiryHolds
<1>5. CASE f.op = "answered"
  <2>1. g.op = "answered" /\ f.slot = g.slot
    BY <1>3, <1>5 DEF Token
  <2>2. AnswerOwns(p) /\ AnswerOwns(q)
    BY <1>1, <1>2, <1>5, <2>1 DEF RecordInv
  <2>3. ~(q > p) /\ ~(p > q)
    BY <1>1, <1>2, <1>5, <2>1, <2>2 DEF AnswerOwns
  <2>4. p \in Nat /\ q \in Nat
    BY TypeFacts
  <2> QED BY <1>1, <1>2, <2>3, <2>4
<1> QED BY <1>4, <1>5

LEMMA AnswerRecord ==
    ASSUME TypeInv, RecordInv, Keyed, NEW f \in Calls, f.op = "answered"
    PROVE  /\ f.slot \in Slots \/ f.pc = "scan"
           /\ acks[f.slot] = [req |-> f.req, free |-> FALSE] /\ KeyAt(f.slot) = f.key
           /\ ~acks[f.slot].free
<1>1. PICK p \in DOMAIN stack : stack[p] = f
  BY CallPlace
<1>2. AnswerOwns(p)
  BY <1>1 DEF RecordInv
<1>3. acks[f.slot] = [req |-> f.req, free |-> FALSE]
  BY <1>1, <1>2 DEF AnswerOwns
<1>4. ~acks[f.slot].free /\ acks[f.slot].req = f.req
  BY <1>3
<1> QED BY <1>3, <1>4, CallTypes DEF KeyAt, ReportOK, Keyed

LEMMA EnderCounts ==
    ASSUME TypeInv, RecordInv, Keyed, NEW k, NEW f \in Calls, Ending(f, k)
    PROVE  /\ f.op \in {"answered", "expiring"} /\ f.slot \in Slots
           /\ Token(f) \in Users(k, "rejected")
           /\ f.pc = "accepted" => Token(f) \in Users(k, "accepted")
<1>1. f.op \in {"answered", "expiring"} /\ f.pc \in Answers /\ f.key = k /\ f.slot \in Slots
  BY CallTypes DEF Ending, ReportOK, Answers
<1>2. CASE f.op = "expiring"
  <2>1. Expiring(k, "rejected") /\ (f.pc = "accepted" => Expiring(k, "accepted"))
    BY <1>2 DEF Expiring
  <2> QED BY <1>1, <1>2, <2>1, UserFacts DEF Token
<1>3. CASE f.op = "answered"
  <2>1. ~acks[f.slot].free /\ KeyAt(f.slot) = k
    BY <1>1, <1>3, AnswerRecord
  <2>2. ASSUME f.pc = "accepted" PROVE ~Passed(f.slot)
    <3> SUFFICES ASSUME NEW g \in Calls, g.op = "answered", g.slot = f.slot, g.pc = "rejected"
                 PROVE  FALSE
      BY DEF Passed
    <3>1. f = g
      BY <1>3, CallsApart DEF Token
    <3> QED BY <2>2, <3>1
  <2>3. f.slot \in Waiters(k, "rejected") /\ (f.pc = "accepted" => f.slot \in Waiters(k, "accepted"))
    BY <1>1, <2>1, <2>2 DEF Waiters
  <2> QED BY <1>1, <1>3, <2>3, UserFacts DEF Token
<1> QED BY <1>1, <1>2, <1>3
----------------------------------------------------------------------------
(* A step that does not concern a key leaves its subscriptions alone.      *)

LEMMA CountTyped == TypeInv => \A j \in Entries : subs[j] \in Entry /\ subs[j].count \in Nat
<1> SUFFICES ASSUME TypeInv, NEW j \in Entries PROVE subs[j] \in Entry /\ subs[j].count \in Nat
  OBVIOUS
<1>1. subs[j] \in Entry
  BY TypeFacts
<1> QED BY <1>1, ShadowAssumption DEF Entry

\* Whoever counts keeps the subscriptions from being changed.
LEMMA UsersSettle ==
    ASSUME NEW k, KeyInv(k), NEW x \in Answers, NEW u \in Users(k, x)
    PROVE  /\ \A f \in Calls : ~Changing(f, k)
           /\ Settled(k) /\ ~Absent(k)
<1>1. ~None(k)
  BY DEF None
<1>2. \A f \in Calls : ~Changing(f, k)
  BY <1>1 DEF KeyInv, Subscribing
<1> QED BY <1>1, <1>2 DEF KeyInv, Absent

\* What a call for another key has in hand.
LEMMA Elsewhere ==
    ASSUME TypeInv, NEW k, KeyInv(k), NEW f \in Calls, FrameKey(f) # k, NEW j, Holds(f, j)
    PROVE  /\ \A x \in Answers : j \in Entries => ~Mine(k, x, j)
           /\ \A g \in Calls : Changing(g, k) /\ g.pc \in Answers => j # g.a /\ j # g.b
<1>1. \A x \in Answers : j \in Entries => ~Mine(k, x, j)
  BY DEF KeyInv, Reserved
<1>2. ASSUME NEW g \in Calls, Changing(g, k), g.pc \in Answers PROVE j # g.a /\ j # g.b
  <2>1. \A h \in Calls : Holds(h, g.a) \/ Holds(h, g.b) => h = g
    BY <1>2 DEF KeyInv, Subscribing
  <2>2. FrameKey(g) = k
    BY <1>2 DEF Changing, FrameKey
  <2> QED BY <2>1, <2>2
<1> QED BY <1>1, <1>2

LEMMA ChangingHolds ==
    ASSUME NEW f, NEW k, NEW j, Holds(f, j), FrameKey(f) = k
    PROVE  Changing(f, k) \/ Ending(f, k)
BY DEF Holds, FrameKey, Changing, Ending

\* The subscriptions of k, before and after a step.
ListKept(k) ==
    /\ \A x \in Answers, j \in Entries : /\ Mine(k, x, j)' <=> Mine(k, x, j)
                                         /\ Mine(k, x, j) => subs'[j] = subs[j]
                                         /\ subs'[j].topic = <<k, x>> => subs[j].topic = <<k, x>>
    /\ \A x \in Answers : <<k, x>> \in Heard => <<k, x>> \in Heard'
CallsKept(k) ==
    /\ \A f : f \in Calls' /\ Changing(f, k)' <=> f \in Calls /\ Changing(f, k)
    /\ \A f : Ending(f, k) => (f \in Calls' <=> f \in Calls)
    /\ \A f \in Calls : Changing(f, k) /\ f.pc \in Answers =>
         /\ subs'[f.a] = subs[f.a] /\ subs'[f.b].topic = subs[f.b].topic
         /\ ~subs'[f.b].free
    /\ \A f \in Calls', j \in Entries : Holds(f, j) /\ ~(f \in Calls /\ FrameKey(f) = k) =>
         /\ FrameKey(f)' # k
         /\ \A x \in Answers : ~Mine(k, x, j)'
         /\ \A g \in Calls : Changing(g, k) /\ g.pc \in Answers => j # g.a /\ j # g.b
FewerUsers(k) == \A x \in Answers :
    /\ Cardinality(Users(k, x)') \in Nat /\ Cardinality(Users(k, x)') <= Cardinality(Users(k, x))
    /\ Users(k, x) = {} => Users(k, x)' = {}

LEMMA SubscribingKept ==
    ASSUME TypeInv, NEW k, NEW f \in Calls, Changing(f, k), Subscribing(k, f),
           ListKept(k), CallsKept(k), FewerUsers(k)
    PROVE  Subscribing(k, f)'
<1>1. None(k)'
  BY DEF Subscribing, None, FewerUsers
<1>2. \A g \in Calls' : Changing(g, k)' => g = f
  BY DEF CallsKept, Subscribing
<1>3. ASSUME f.pc \in Answers
      PROVE  /\ f.a # f.b /\ ~subs'[f.a].free /\ ~subs'[f.b].free
             /\ subs'[f.a] = subs[f.a] /\ subs'[f.b].topic = subs[f.b].topic
             /\ subs'[f.a].topic = <<k, "accepted">>
  BY <1>3 DEF Subscribing, CallsKept
<1>4. ASSUME f.pc \in Answers, NEW g \in Calls', Holds(g, f.a) \/ Holds(g, f.b) PROVE g = f
  <2>1. f.a \in Entries /\ f.b \in Entries
    BY <1>4, CallTypes DEF Changing
  <2>2. g \in Calls
    BY <1>4, <2>1 DEF CallsKept
  <2> QED BY <1>4, <2>2 DEF Subscribing
<1>5. f.pc \in Answers => \A x \in Answers, j \in Entries : Mine(k, x, j)' => j \in {f.a, f.b}
  BY DEF Subscribing, ListKept
<1>6. f.pc \in Answers => First(k, "accepted", f.a)' /\ First(k, "rejected", f.b)'
  BY DEF Subscribing, ListKept, First, Answers
<1>7. f.pc = "rejected" =>
         /\ subs'[f.a].count = 1 /\ subs'[f.a].sticky = f.sticky /\ <<k, "accepted">> \in Heard'
         /\ subs'[f.b].topic = <<k, "rejected">>
  BY <1>3 DEF Subscribing, ListKept, Answers
<1>8. f.pc = "undo" => f.failed /\ \A x \in Answers, j \in Entries : Mine(k, x, j)' => j = f.b
  BY DEF Subscribing, ListKept
<1> QED BY <1>1, <1>2, <1>3, <1>4, <1>5, <1>6, <1>7, <1>8 DEF Subscribing

LEMMA GoodKept ==
    ASSUME TypeInv, NEW k, NEW x \in Answers, NEW j \in Entries, Good(k, x, j), ListKept(k), FewerUsers(k)
    PROVE  Good(k, x, j)' /\ subs'[j] = subs[j]
<1>1. subs'[j] = subs[j] /\ Mine(k, x, j)'
  BY DEF Good, Only, ListKept
<1>2. First(k, x, j)' /\ \A e \in Entries : Mine(k, x, e)' => e = j
  BY DEF Good, Only, First, ListKept
<1>3. <<k, x>> \in Heard'
  BY DEF Good, ListKept
<1>4. subs[j].count > 0 => Cardinality(Users(k, x)') <= subs[j].count
  <2>1. Cardinality(Users(k, x)') \in Nat /\ Cardinality(Users(k, x)) \in Nat
        /\ Cardinality(Users(k, x)') <= Cardinality(Users(k, x))
    BY UsersFinite DEF FewerUsers
  <2>2. subs[j].count \in Nat /\ Cardinality(Users(k, x)) <= subs[j].count
    BY CountTyped DEF Good
  <2> QED BY <2>1, <2>2
<1> QED BY <1>1, <1>2, <1>3, <1>4 DEF Good, Only

\* The step leaves what the invariant says of k.
LEMMA KeyKept ==
    ASSUME TypeInv, NEW k, KeyInv(k), ListKept(k), CallsKept(k), FewerUsers(k),
           TopicOwn(k)', TimeOutAlone(k)'
    PROVE  KeyInv(k)'
<1>1. ASSUME NEW f \in Calls', Changing(f, k)' PROVE Subscribing(k, f)'
  <2>1. f \in Calls /\ Changing(f, k)
    BY <1>1 DEF CallsKept
  <2>2. Subscribing(k, f)
    BY <2>1 DEF KeyInv
  <2> QED BY <2>1, <2>2, SubscribingKept
<1>2. ASSUME \A f \in Calls' : ~Changing(f, k)' PROVE Settled(k)'
  <2>1. \A f \in Calls : ~Changing(f, k)
    BY <1>2 DEF CallsKept
  <2>2. Settled(k)
    BY <2>1 DEF KeyInv
  <2>3. CASE Absent(k)
    <3>1. Absent(k)'
      BY <2>3 DEF Absent, None, FewerUsers, ListKept
    <3> QED BY <3>1 DEF Settled
  <2>4. \A f : Ending(f, k) => (f \in Calls' <=> f \in Calls)
    BY DEF CallsKept
  <2>5. "accepted" \in Answers /\ "rejected" \in Answers
    BY DEF Answers
  <2>6. ASSUME NEW i \in Entries, NEW j \in Entries, Both(k, i, j) PROVE Settled(k)'
    <3>1. Good(k, "accepted", i)' /\ Good(k, "rejected", j)' /\ subs'[i] = subs[i] /\ subs'[j] = subs[j]
      BY <2>5, <2>6, GoodKept DEF Both
    <3>2. Both(k, i, j)'
      BY <2>4, <2>6, <3>1 DEF Both
    <3> QED BY <3>2 DEF Settled
  <2>7. ASSUME NEW i \in Entries, NEW j \in Entries, Between(k, i, j) PROVE Settled(k)'
    <3>1. Good(k, "accepted", i)' /\ Good(k, "rejected", j)' /\ subs'[i] = subs[i] /\ subs'[j] = subs[j]
      BY <2>5, <2>7, GoodKept DEF Between
    <3>2. Between(k, i, j)'
      BY <2>4, <2>7, <3>1 DEF Between, EndsAlone
    <3> QED BY <3>2 DEF Settled
  <2>8. ASSUME NEW j \in Entries, Half(k, j) PROVE Settled(k)'
    <3>1. Good(k, "rejected", j)' /\ subs'[j] = subs[j]
      BY <2>5, <2>8, GoodKept DEF Half
    <3>2. (\A e \in Entries : ~Mine(k, "accepted", e)') /\ Users(k, "accepted")' = {}
      BY <2>5, <2>8 DEF Half, ListKept, FewerUsers
    <3>3. Half(k, j)'
      BY <2>4, <2>8, <3>1, <3>2 DEF Half, EndsAlone
    <3> QED BY <3>3 DEF Settled
  <2> QED BY <2>2, <2>3, <2>6, <2>7, <2>8 DEF Settled
<1>3. Reserved(k)'
  <2> SUFFICES ASSUME NEW x \in Answers, NEW j \in Entries, NEW f \in Calls', Mine(k, x, j)', Holds(f, j),
                      FrameKey(f)' # k
               PROVE  FALSE
    BY DEF Reserved
  <2>1. f \in Calls /\ FrameKey(f) = k
    BY DEF CallsKept
  <2>2. Changing(f, k) \/ Ending(f, k)
    BY <2>1, ChangingHolds
  <2>3. Changing(f, k) => Changing(f, k)'
    BY <2>1 DEF CallsKept
  <2>4. Changing(f, k)' \/ Ending(f, k) => FrameKey(f)' = k
    BY DEF Changing, Ending, FrameKey
  <2> QED BY <2>2, <2>3, <2>4
<1> QED BY <1>1, <1>2, <1>3 DEF KeyInv

LEMMA UsersFewer ==
    ASSUME NEW k, \A x \in Answers : \/ Users(k, x)' \subseteq Users(k, x)
                                     \/ \E u \in Users(k, x) : \E v : Users(k, x)' \subseteq (Users(k, x) \ {u}) \union {v}
    PROVE  FewerUsers(k)
BY UsersFinite, SmallerSet DEF FewerUsers

\* Actions keep their keys.
KeysKept == \A r \in DOMAIN keyOf : r \in DOMAIN keyOf' /\ keyOf'[r] = keyOf[r]

LEMMA ChangingSame ==
    ASSUME TypeInv, KeysKept, NEW f \in Calls, NEW k
    PROVE  (Changing(f, k)' <=> Changing(f, k)) /\ (f.op = "action" => keyOf'[f.req] = keyOf[f.req])
BY CallTypes DEF Changing, KeysKept

\* J: the entries that calls for other keys have, had or get in hand.
LEMMA Beside ==
    ASSUME TypeInv, TypeInv', KeysKept, NEW k, KeyInv(k), NEW J,
           \A f \in Calls : f \notin Calls' => ~Changing(f, k) /\ ~Ending(f, k),
           \A f \in Calls' : f \notin Calls =>
             /\ ~Changing(f, k)' /\ ~Ending(f, k)
             /\ \A j \in Entries : Holds(f, j) => j \in J
             /\ f.op = "action" /\ f.pc \in Answers \union {"undo"} => subs'[f.a].topic \notin {k} \X Answers,
           \A f : ~(f \in Calls <=> f \in Calls') /\ f.op = "action" /\ f.pc \in {"accepted", "undo"}
                 => f.b \notin Entries \ J,
           \A j \in Entries : j \notin J =>
             /\ subs'[j].topic = subs[j].topic /\ subs'[j].free = subs[j].free
             /\ subs[j].topic \in {k} \X Answers => subs'[j] = subs[j],
           \A j \in Entries : j \in J =>
             /\ \A x \in Answers : /\ ~Mine(k, x, j) /\ ~Mine(k, x, j)'
                                   /\ subs'[j].topic = <<k, x>> => subs[j].topic = <<k, x>>
             /\ \A g \in Calls : Changing(g, k) /\ g.pc \in Answers => j # g.a /\ j # g.b,
           \A x \in Answers : <<k, x>> \in Heard => <<k, x>> \in Heard',
           FewerUsers(k), TimeOutAlone(k)'
    PROVE  KeyInv(k)'
<1>1. ASSUME NEW j \in Entries, j \notin J PROVE Stale(j, k)' <=> Stale(j, k)
  <2>1. ASSUME NEW f, f.op = "action", f.pc \in {"accepted", "undo"}, f.b = j PROVE f \in Calls <=> f \in Calls'
    BY <1>1, <2>1
  <2>2. \A f \in Calls : f.op = "action" => keyOf'[f.req] = keyOf[f.req]
    BY ChangingSame
  <2> QED BY <2>1, <2>2 DEF Stale
<1>2. ListKept(k)
  <2>1. ASSUME NEW x \in Answers, NEW j \in Entries, j \notin J
        PROVE  /\ Mine(k, x, j)' <=> Mine(k, x, j)
               /\ Mine(k, x, j) => subs'[j] = subs[j]
               /\ subs'[j].topic = <<k, x>> => subs[j].topic = <<k, x>>
    <3>1. subs'[j].topic = subs[j].topic /\ (subs'[j].free <=> subs[j].free)
      BY <2>1
    <3>2. Mine(k, x, j)' <=> Mine(k, x, j)
      BY <1>1, <2>1, <3>1 DEF Mine
    <3>3. subs[j].topic = <<k, x>> => subs[j].topic \in {k} \X Answers
      OBVIOUS
    <3>4. Mine(k, x, j) => subs'[j] = subs[j]
      BY <2>1, <3>3 DEF Mine
    <3> QED BY <3>1, <3>2, <3>4
  <2> QED BY <2>1 DEF ListKept
<1>3. \A f : f \in Calls' /\ Changing(f, k)' <=> f \in Calls /\ Changing(f, k)
  BY ChangingSame
<1>4. ASSUME NEW f \in Calls, Changing(f, k), f.pc \in Answers
      PROVE  subs'[f.a] = subs[f.a] /\ subs'[f.b].topic = subs[f.b].topic /\ ~subs'[f.b].free
  <2>1. f.a \in Entries /\ f.b \in Entries
    BY <1>4, CallTypes DEF Changing
  <2>2. f.a \notin J /\ f.b \notin J
    BY <1>4, <2>1
  <2>3. subs[f.a].topic = <<k, "accepted">> /\ ~subs[f.b].free
    BY <1>4 DEF KeyInv, Subscribing
  <2> QED BY <2>1, <2>2, <2>3 DEF Answers
<1>5. ASSUME NEW f \in Calls', NEW j \in Entries, Holds(f, j), ~(f \in Calls /\ FrameKey(f) = k)
      PROVE  /\ FrameKey(f)' # k
             /\ \A x \in Answers : ~Mine(k, x, j)'
             /\ \A g \in Calls : Changing(g, k) /\ g.pc \in Answers => j # g.a /\ j # g.b
  <2>1. CASE f \in Calls
    <3>1. FrameKey(f)' # k
      BY <1>5, <2>1, ChangingSame DEF FrameKey
    <3>2. /\ \A x \in Answers : ~Mine(k, x, j)
          /\ \A g \in Calls : Changing(g, k) /\ g.pc \in Answers => j # g.a /\ j # g.b
      BY <1>5, <2>1, Elsewhere
    <3> QED BY <1>2, <3>1, <3>2 DEF ListKept
  <2>2. CASE f \notin Calls
    <3>1. j \in J
      BY <1>5, <2>2
    <3>2. FrameKey(f)' # k
      BY <1>5, <2>2 DEF Holds, FrameKey, Changing, Ending
    <3> QED BY <3>1, <3>2
  <2> QED BY <2>1, <2>2
<1>6. CallsKept(k)
  <2>1. \A f : Ending(f, k) => (f \in Calls' <=> f \in Calls)
    OBVIOUS
  <2> QED BY <1>3, <1>4, <1>5, <2>1 DEF CallsKept
<1>7. TopicOwn(k)'
  <2> SUFFICES ASSUME NEW f \in Calls', f.op = "action", f.pc \in Answers \union {"undo"},
                      NEW x \in Answers, subs'[f.a].topic = <<k, x>>
               PROVE  keyOf'[f.req] = k
    BY DEF TopicOwn
  <2>1. f \in Calls
    <3>1. <<k, x>> \in {k} \X Answers
      OBVIOUS
    <3> QED BY <3>1
  <2>2. f.a \in Entries
    BY <2>1, CallTypes
  <2>3. subs[f.a].topic = <<k, x>>
    BY <1>2, <2>2 DEF ListKept
  <2>4. keyOf[f.req] = k
    <3>1. <<k, x>> \in {k} \X Answers
      OBVIOUS
    <3> QED BY <2>1, <2>3, <3>1 DEF KeyInv, TopicOwn
  <2> QED BY <2>1, <2>4, ChangingSame
<1> QED BY <1>2, <1>6, <1>7, KeyKept

\* When no entry passes into or out of the hands of a call.
LEMMA BesideIdle ==
    ASSUME TypeInv, TypeInv', KeysKept, NEW k, KeyInv(k),
           \A f \in Calls : f \notin Calls' =>
             /\ ~Changing(f, k) /\ ~Ending(f, k)
             /\ ~(f.op = "action" /\ f.pc \in {"accepted", "undo"}),
           \A f \in Calls' : f \notin Calls =>
             /\ ~Changing(f, k)' /\ ~Ending(f, k)
             /\ \A j \in Entries : ~Holds(f, j)
             /\ ~(f.op = "action" /\ f.pc \in Answers \union {"undo"}),
           \A j \in Entries :
             /\ subs'[j].topic = subs[j].topic /\ subs'[j].free = subs[j].free
             /\ subs[j].topic \in {k} \X Answers => subs'[j] = subs[j],
           \A x \in Answers : <<k, x>> \in Heard => <<k, x>> \in Heard',
           FewerUsers(k), TimeOutAlone(k)'
    PROVE  KeyInv(k)'
<1> DEFINE J == {}
<1>1. \A j : j \notin J
  OBVIOUS
<1> HIDE DEF J
<1>2. \A f \in Calls' : f \notin Calls =>
        /\ ~Changing(f, k)' /\ ~Ending(f, k)
        /\ \A j \in Entries : Holds(f, j) => j \in J
        /\ f.op = "action" /\ f.pc \in Answers \union {"undo"} => subs'[f.a].topic \notin {k} \X Answers
  OBVIOUS
<1>3. \A f : ~(f \in Calls <=> f \in Calls') /\ f.op = "action" /\ f.pc \in {"accepted", "undo"} => f.b \notin Entries \ J
  BY DEF Answers
<1>4. \A j \in Entries : j \notin J =>
        /\ subs'[j].topic = subs[j].topic /\ subs'[j].free = subs[j].free
        /\ subs[j].topic \in {k} \X Answers => subs'[j] = subs[j]
  OBVIOUS
<1>5. \A j \in Entries : j \in J =>
        /\ \A x \in Answers : /\ ~Mine(k, x, j) /\ ~Mine(k, x, j)'
                              /\ subs'[j].topic = <<k, x>> => subs[j].topic = <<k, x>>
        /\ \A g \in Calls : Changing(g, k) /\ g.pc \in Answers => j # g.a /\ j # g.b
  BY <1>1
<1>6. \A f \in Calls : f \notin Calls' => ~Changing(f, k) /\ ~Ending(f, k)
  OBVIOUS
<1> QED BY <1>2, <1>3, <1>4, <1>5, <1>6, Beside

LEMMA ZeroEntry == 0 \in 0..NumTopics
BY ShadowAssumption

\* No time-out is newly reported, no answer newly read.
LEMMA TimeOutKept ==
    ASSUME TypeInv, RecordInv, KeysKept, NEW k, TimeOutAlone(k),
           \A f \in Calls' : f.op = "expiring" /\ f.pc = "callback" => f \in Calls,
           \A f \in Calls' : f.op = "answered" => \E g \in Calls : g.op = "answered" /\ g.slot = f.slot,
           UNCHANGED acks
    PROVE  TimeOutAlone(k)'
<1> SUFFICES ASSUME NEW f \in Calls', f.op = "expiring", f.pc = "callback", KeyAt(f.slot)' = k
             PROVE  ~acks'[f.slot].free /\ \A g \in Calls' : ~(g.op = "answered" /\ g.slot = f.slot)
  BY DEF TimeOutAlone
<1>1. f \in Calls
  OBVIOUS
<1>2. PICK p \in DOMAIN stack : stack[p] = f
  BY <1>1, CallPlace
<1>3. acks[f.slot].req \in DOMAIN keyOf
  BY <1>2 DEF RecordInv, ExpiryHolds
<1>4. KeyAt(f.slot) = k
  BY <1>3 DEF KeyAt, KeysKept
<1> QED BY <1>1, <1>4 DEF TimeOutAlone
----------------------------------------------------------------------------
(* Users of other keys, and of a key whose calls go on.                    *)

LEMMA WaiterStays ==
    ASSUME TypeInv, RecordInv, KeysKept, NEW k, NEW i \in Slots,
           acks'[i].free \/ acks'[i] = acks[i] \/ KeyAt(i)' # k,
           \A f \in Calls : f.op = "answered" /\ f.pc = "rejected" /\ f.slot = i /\ f \notin Calls'
                            => acks'[i].free
    PROVE  \A x : i \in Waiters(k, x)' => i \in Waiters(k, x)
<1> SUFFICES ASSUME NEW x, i \in Waiters(k, x)' PROVE i \in Waiters(k, x)
  OBVIOUS
<1>1. i \in Slots /\ ~acks'[i].free /\ KeyAt(i)' = k /\ (x = "accepted" => ~Passed(i)')
  BY DEF Waiters
<1>2. acks'[i] = acks[i] /\ ~acks[i].free
  BY <1>1
<1>3. acks[i].req \in DOMAIN keyOf
  BY <1>1, <1>2, RecordFacts
<1>4. KeyAt(i) = k
  BY <1>1, <1>2, <1>3 DEF KeyAt, KeysKept
<1>5. ASSUME Passed(i) PROVE Passed(i)'
  <2>1. PICK f \in Calls : f.op = "answered" /\ f.slot = i /\ f.pc = "rejected"
    BY <1>5 DEF Passed
  <2>2. f \in Calls'
    BY <1>1, <2>1
  <2> QED BY <2>1, <2>2 DEF Passed
<1> QED BY <1>1, <1>2, <1>4, <1>5 DEF Waiters

LEMMA WaitersStay ==
    ASSUME TypeInv, RecordInv, KeysKept, NEW k,
           \A i \in Slots : acks'[i].free \/ acks'[i] = acks[i] \/ KeyAt(i)' # k,
           \A f \in Calls : f.op = "answered" /\ f.pc = "rejected" /\ f.slot \in Slots /\ f \notin Calls'
                            => acks'[f.slot].free
    PROVE  \A x, i : i \in Waiters(k, x)' => i \in Waiters(k, x)
<1>1. \A x, i : i \in Waiters(k, x)' => i \in Slots
  BY DEF Waiters
<1>2. ASSUME NEW i \in Slots PROVE \A x : i \in Waiters(k, x)' => i \in Waiters(k, x)
  BY WaiterStays
<1> QED BY <1>1, <1>2

\* Those of k, but for an action about to be published.
LEMMA ExpiringStays ==
    ASSUME NEW k, \A f \in Calls' : f \notin Calls => ~(f.op = "expiring" /\ Ending(f, k))
    PROVE  \A x : Expiring(k, x)' => Expiring(k, x)
<1> SUFFICES ASSUME NEW x, Expiring(k, x)' PROVE Expiring(k, x)
  OBVIOUS
<1>1. PICK f \in Calls' : f.op = "expiring" /\ Ending(f, k) /\ (x = "accepted" => f.pc = "accepted")
  BY DEF Expiring
<1>2. f \in Calls
  BY <1>1
<1> QED BY <1>1, <1>2 DEF Expiring

LEMMA PublishingStays ==
    ASSUME TypeInv, KeysKept, NEW k,
           \A f \in Calls' : f \notin Calls => ~(f.op = "action" /\ f.pc = "publish" /\ keyOf'[f.req] = k)
    PROVE  Publishing(k)' => Publishing(k)
<1> SUFFICES ASSUME Publishing(k)' PROVE Publishing(k)
  OBVIOUS
<1>1. PICK f \in Calls' : f.op = "action" /\ f.pc = "publish" /\ keyOf'[f.req] = k
  BY DEF Publishing
<1>2. f \in Calls
  BY <1>1
<1>3. keyOf[f.req] = k
  BY <1>1, <1>2, ChangingSame
<1> QED BY <1>1, <1>2, <1>3 DEF Publishing

LEMMA UsersStay ==
    ASSUME TypeInv, RecordInv, KeysKept, NEW k,
           \A i \in Slots : acks'[i].free \/ acks'[i] = acks[i] \/ KeyAt(i)' # k,
           \A f \in Calls : f.op = "answered" /\ f.pc = "rejected" /\ f.slot \in Slots /\ f \notin Calls'
                            => acks'[f.slot].free,
           \A f \in Calls' : f \notin Calls =>
             /\ ~(f.op = "expiring" /\ Ending(f, k))
             /\ ~(f.op = "action" /\ f.pc = "publish" /\ keyOf'[f.req] = k)
    PROVE  (\A x : Users(k, x)' \subseteq Users(k, x)) /\ FewerUsers(k)
<1>1. \A x, i : i \in Waiters(k, x)' => i \in Waiters(k, x)
  BY WaitersStay
<1>2. \A x : Expiring(k, x)' => Expiring(k, x)
  BY ExpiringStays
<1>3. Publishing(k)' => Publishing(k)
  BY PublishingStays
<1>4. \A x : Users(k, x)' \subseteq Users(k, x)
  BY <1>1, <1>2, <1>3, UsersWithin
<1> QED BY <1>4, UsersFewer

\* The entry that a call has in hand is also seen as such by the model.
LEMMA HolderSeen ==
    ASSUME TypeInv, NEW f \in Calls, NEW j \in Entries, Holds(f, j)
    PROVE  /\ \E p \in Holders(j) : stack[p] = f
           /\ FrameKey(f) \in KeysOf(Holders(j))
<1>1. PICK p \in DOMAIN stack : stack[p] = f /\ f.op # "yield"
  BY CallPlace
<1>2. j > 0
  BY DEF Entries
<1>3. p \in Working
  BY <1>1, <1>2 DEF Working, Exchanging, Holds, Answers
<1>4. j \in InHand(f)
  BY <1>2 DEF InHand, Holds
<1> QED BY <1>1, <1>3, <1>4 DEF Holders, KeysOf

\* When a call is made, every other one waits for the MQTT client or for a callback.
LEMMA Undisturbed ==
    ASSUME TypeInv, Nested, MayCall, NEW k, k \notin Crossing(k), NEW f \in Calls
    PROVE  /\ ~Changing(f, k) /\ ~Ending(f, k)
           /\ \A j \in Entries : Holds(f, j) => subs[j].topic \notin {k} \X Answers
<1>1. PICK p \in DOMAIN stack : stack[p] = f /\ f.op # "yield"
  BY CallPlace
<1>2. f.pc # "callback" => Exchanging(f)
  <2> SUFFICES ASSUME f.pc # "callback" PROVE Exchanging(f)
    OBVIOUS
  <2>1. stack # <<>> /\ Top.pc = "callback" /\ p \in Nat /\ p <= Len(stack)
    BY <1>1, FrameTypes DEF MayCall
  <2>2. p # Len(stack)
    BY <1>1, <2>1 DEF Top
  <2> QED BY <1>1, <2>1, <2>2, TopPlace DEF Nested
<1>3. ASSUME Exchanging(f), FrameKey(f) = k PROVE FALSE
  BY <1>1, <1>3 DEF Working, Crossing
<1>4. ~Changing(f, k)
  BY <1>3 DEF Changing, Exchanging, FrameKey, Answers
<1>5. ~Ending(f, k)
  BY <1>2, <1>3 DEF Ending, FrameKey, Answers
<1>6. ASSUME NEW j \in Entries, Holds(f, j), subs[j].topic \in {k} \X Answers PROVE FALSE
  <2>1. PICK q \in Holders(j) : stack[q] = f
    BY <1>6, HolderSeen
  <2> QED BY <1>6, <2>1 DEF Holders, Crossing
<1> QED BY <1>4, <1>5, <1>6

\* The new frame of a start.
LEMMA Started ==
    ASSUME TypeInv, NEW k \in Keys, NEW sticky \in BOOLEAN, NEW pc \in {"accepted", "undo", "publish"},
           NEW a \in 0..NumTopics, NEW b \in 0..NumTopics, StartAction(k, sticky, pc, a, b)
    PROVE  /\ KeysKept /\ MayCall /\ UNCHANGED <<acks, handlers, deaf>>
           /\ \E f : /\ Calls' = Calls \union {f} /\ f \notin Calls
                     /\ f.op = "action" /\ f.pc = pc /\ f.a = a /\ f.b = b /\ f.sticky = sticky
                     /\ keyOf'[f.req] = k
<1>1. PICK s \in Slots :
        stack' = Append(stack, [op |-> "action", req |-> Len(keyOf) + 1, slot |-> s, sticky |-> sticky,
                                a |-> a, b |-> b, pc |-> pc, failed |-> FALSE])
  BY DEF StartAction
<1> DEFINE f == [op |-> "action", req |-> Len(keyOf) + 1, slot |-> s, sticky |-> sticky,
                 a |-> a, b |-> b, pc |-> pc, failed |-> FALSE]
<1>2. keyOf \in Seq(Keys) /\ keyOf' = Append(keyOf, k) /\ Len(keyOf) \in Nat /\ Len(keyOf) < MaxCalls
  BY TypeFacts DEF StartAction
<1>3. KeysKept /\ keyOf'[Len(keyOf) + 1] = k /\ Len(keyOf) + 1 \notin DOMAIN keyOf
  BY <1>2 DEF KeysKept
<1>4. f \in Frames
  <2>1. Len(keyOf) + 1 \in Requests /\ FALSE \in BOOLEAN
    BY <1>2, ShadowAssumption DEF Requests
  <2> QED BY <2>1 DEF Acts, Frames, Answers
<1>5. stack' = Append(stack, f) /\ f.op = "action" /\ f.req = Len(keyOf) + 1 /\ f.pc = pc /\ f.a = a
      /\ f.b = b /\ f.sticky = sticky
  BY <1>1
<1> HIDE DEF f
<1>6. Calls' = Calls \union {f}
  BY <1>4, <1>5, CallsPushed
<1>7. f \notin Calls
  BY <1>3, <1>5, CallTypes
<1> QED BY <1>3, <1>5, <1>6, <1>7 DEF StartAction, mqtt

LEMMA CallsAdded ==
    ASSUME TypeInv, RecordInv, KeysKept, NEW f, Calls' = Calls \union {f}, f.op = "action", NEW k,
           TimeOutAlone(k), UNCHANGED acks
    PROVE  TimeOutAlone(k)'
<1>1. \A g \in Calls' : g.op # "action" => g \in Calls
  OBVIOUS
<1> QED BY <1>1, TimeOutKept
----------------------------------------------------------------------------
(* An action starts.                                                       *)

LEMMA PresentBeside ==
    ASSUME TypeInv, TypeInv', RecordInv, NEW k1 \in Keys, NEW sticky \in BOOLEAN,
           StartPresent(k1, sticky), NEW k \in Keys, k # k1, KeyInv(k)
    PROVE  KeyInv(k)'
<1>1. StartAction(k1, sticky, "publish", 0, 0) /\ 0 \in 0..NumTopics
  BY ZeroEntry, Zenon DEF StartPresent
<1>2. /\ KeysKept /\ UNCHANGED <<acks, handlers, deaf>>
      /\ \E f : /\ Calls' = Calls \union {f} /\ f \notin Calls
                /\ f.op = "action" /\ f.pc = "publish" /\ keyOf'[f.req] = k1
  BY <1>1, Started
<1>3. PICK f : Calls' = Calls \union {f} /\ f.op = "action" /\ f.pc = "publish" /\ keyOf'[f.req] = k1
  BY <1>2
<1>4. \A j \in Entries :
        /\ subs'[j].topic = subs[j].topic /\ subs'[j].free = subs[j].free
        /\ subs[j].topic \notin {k1} \X Answers => subs'[j] = subs[j]
  BY TypeFacts DEF StartPresent, Entry
<1>5. \A j \in Entries : subs[j].topic \in {k} \X Answers => subs'[j] = subs[j]
  BY <1>4
<1>6. ~Changing(f, k)' /\ ~Ending(f, k) /\ \A j : ~Holds(f, j)
  BY <1>3 DEF Changing, Ending, Holds, Answers
<1>7. FewerUsers(k)
  BY <1>2, <1>3, UsersStay
<1>8. TimeOutAlone(k)'
  BY <1>2, <1>3, CallsAdded DEF KeyInv
<1>9. \A x : <<k, x>> \in Heard => <<k, x>> \in Heard'
  BY <1>2 DEF Heard
<1>10. f.pc \notin Answers \union {"undo"}
  BY <1>3 DEF Answers
<1>11. \A g \in Calls : g \in Calls'
  BY <1>3
<1>12. \A g \in Calls' : g \notin Calls => g = f
  BY <1>3
<1> QED BY <1>2, <1>4, <1>5, <1>6, <1>7, <1>8, <1>9, <1>10, <1>11, <1>12, BesideIdle

\* The key is in order: nobody is changing or releasing its subscriptions.
LEMMA SettledCall ==
    ASSUME TypeInv, Nested, MayCall, NEW k, k \notin Crossing(k), KeyInv(k)
    PROVE  /\ \A f \in Calls : /\ ~Changing(f, k) /\ ~Ending(f, k)
                               /\ \A j \in Entries : Holds(f, j) => subs[j].topic \notin {k} \X Answers
           /\ \A x \in Answers, j \in Entries : subs[j].topic = <<k, x>> => ~Stale(j, k)
           /\ Absent(k) \/ \E i, j \in Entries : Both(k, i, j)
<1>1. \A f \in Calls : /\ ~Changing(f, k) /\ ~Ending(f, k)
                       /\ \A j \in Entries : Holds(f, j) => subs[j].topic \notin {k} \X Answers
  BY Undisturbed
<1>2. Settled(k)
  BY <1>1 DEF KeyInv
<1>3. ASSUME NEW x \in Answers, NEW j \in Entries, subs[j].topic = <<k, x>>, Stale(j, k) PROVE FALSE
  <2>1. PICK f \in Calls : Holds(f, j)
    BY <1>3 DEF Stale, Holds, Answers
  <2>2. <<k, x>> \in {k} \X Answers
    BY <1>3
  <2> QED BY <1>1, <1>3, <2>1, <2>2
<1>4. Absent(k) \/ \E i, j \in Entries : Both(k, i, j)
  BY <1>1, <1>2 DEF Settled, Between, Half
<1> QED BY <1>1, <1>3, <1>4

LEMMA PresentOwn ==
    ASSUME TypeInv, TypeInv', RecordInv, Nested, NEW k \in Keys, NEW sticky \in BOOLEAN,
           StartPresent(k, sticky), k \notin Crossing(k), KeyInv(k)
    PROVE  KeyInv(k)'
<1>1. StartAction(k, sticky, "publish", 0, 0) /\ 0 \in 0..NumTopics /\ Present(k)
  BY ZeroEntry, Zenon DEF StartPresent
<1>2. /\ KeysKept /\ MayCall /\ UNCHANGED <<acks, handlers, deaf>>
      /\ \E f : /\ Calls' = Calls \union {f} /\ f \notin Calls
                /\ f.op = "action" /\ f.pc = "publish" /\ keyOf'[f.req] = k
  BY <1>1, Started
<1>3. PICK f : Calls' = Calls \union {f} /\ f.op = "action" /\ f.pc = "publish" /\ keyOf'[f.req] = k
  BY <1>2
<1>4. \A j \in Entries :
        /\ subs'[j].topic = subs[j].topic /\ subs'[j].free = subs[j].free
        /\ ~subs[j].free /\ subs[j].topic \in {k} \X Answers =>
             subs'[j].count = subs[j].count + 1 /\ subs'[j].sticky = sticky
  BY TypeFacts DEF StartPresent, Entry
<1>5. ~Changing(f, k)' /\ ~Ending(f, k) /\ \A j : ~Holds(f, j)
  BY <1>3 DEF Changing, Ending, Holds, Answers
<1>6. /\ \A g \in Calls : /\ ~Changing(g, k) /\ ~Ending(g, k)
                          /\ \A j \in Entries : Holds(g, j) => subs[j].topic \notin {k} \X Answers
      /\ \A x \in Answers, j \in Entries : subs[j].topic = <<k, x>> => ~Stale(j, k)
      /\ Absent(k) \/ \E i, j \in Entries : Both(k, i, j)
  BY <1>2, SettledCall
<1>7. \A g \in Calls' : ~Changing(g, k)' /\ ~Ending(g, k)
  BY <1>2, <1>3, <1>5, <1>6, ChangingSame
<1>8. \A j \in Entries : Stale(j, k)' <=> Stale(j, k)
  <2>1. f.pc \notin {"accepted", "undo"}
    BY <1>3
  <2>2. \A g \in Calls : g.op = "action" => keyOf'[g.req] = keyOf[g.req]
    BY <1>2, ChangingSame
  <2> QED BY <1>3, <2>1, <2>2 DEF Stale
<1>9. \A x \in Answers, j \in Entries : Mine(k, x, j)' <=> Mine(k, x, j)
  BY <1>4, <1>8 DEF Mine
<1>10. ~Absent(k)
  <2>1. PICK x \in Answers : TRUE
    BY DEF Answers
  <2>2. PICK j \in Entries : ~subs[j].free /\ subs[j].topic = <<k, x>>
    BY <1>1 DEF Present
  <2>3. Mine(k, x, j)
    BY <1>6, <2>2 DEF Mine
  <2> QED BY <2>3 DEF Absent
<1>11. PICK i, j \in Entries : Both(k, i, j)
  BY <1>6, <1>10
<1>12. ASSUME NEW x \in Answers, NEW e \in Entries, Good(k, x, e)
       PROVE  Good(k, x, e)' /\ subs'[e].count = subs[e].count + 1 /\ subs'[e].sticky = sticky
  <2>1. Only(k, x, e)'
    BY <1>4, <1>9, <1>12 DEF Good, Only, First
  <2>2. subs'[e].count = subs[e].count + 1 /\ subs'[e].sticky = sticky
    BY <1>4, <1>12 DEF Good, Only, Mine
  <2>3. Users(k, x)' \subseteq Users(k, x) \union {NumAcks + 1}
    <3>1. \A y, u : u \in Waiters(k, y)' => u \in Waiters(k, y)
      BY <1>2, <1>3, WaitersStay
    <3>2. \A y : Expiring(k, y)' => Expiring(k, y)
      BY <1>7, ExpiringStays
    <3> QED BY <3>1, <3>2 DEF Users
  <2>4. Cardinality(Users(k, x)') \in Nat /\ Cardinality(Users(k, x)') <= Cardinality(Users(k, x)) + 1
        /\ Cardinality(Users(k, x)) \in Nat
    BY <2>3, UsersFinite, OneMore
  <2>5. subs[e].count \in Nat
    BY CountTyped
  <2>6. <<k, x>> \in Heard'
    BY <1>2, <1>12 DEF Good, Heard
  <2>7. subs'[e].count > 0 /\ Cardinality(Users(k, x)') <= subs'[e].count
    BY <1>12, <2>2, <2>4, <2>5 DEF Good
  <2> QED BY <2>1, <2>2, <2>6, <2>7 DEF Good
<1>13. Settled(k)'
  <2>1. /\ Good(k, "accepted", i)' /\ Good(k, "rejected", j)' /\ subs'[i].sticky = subs'[j].sticky
        /\ subs'[i].count = subs'[j].count
    BY <1>11, <1>12 DEF Both, Answers
  <2>2. Both(k, i, j)'
    BY <1>7, <2>1 DEF Both
  <2> QED BY <2>2 DEF Settled
<1>14. ASSUME NEW g \in Calls', NEW x \in Answers, NEW e \in Entries, Mine(k, x, e)' PROVE ~Holds(g, e)
  <2>1. subs[e].topic = <<k, x>> /\ <<k, x>> \in {k} \X Answers
    BY <1>9, <1>14 DEF Mine
  <2> QED BY <1>3, <1>5, <1>6, <2>1
<1>15. Reserved(k)'
  BY <1>14 DEF Reserved
<1>16. TopicOwn(k)'
  <2> SUFFICES ASSUME NEW g \in Calls', g.op = "action", g.pc \in Answers \union {"undo"},
                      subs'[g.a].topic \in {k} \X Answers
               PROVE  FALSE
    BY DEF TopicOwn
  <2>1. g \in Calls
    BY <1>3 DEF Answers
  <2>2. g.a \in Entries /\ Holds(g, g.a)
    BY <2>1, CallTypes DEF Holds
  <2> QED BY <1>4, <1>6, <2>1, <2>2
<1>17. TimeOutAlone(k)'
  BY <1>2, <1>3, CallsAdded DEF KeyInv
<1> QED BY <1>7, <1>13, <1>15, <1>16, <1>17 DEF KeyInv

\* The entries that subscribeToShadowActionAcks takes.
LEMMA Taken ==
    ASSUME TypeInv, NEW k1, NEW sticky, StartSubscribing(k1, sticky)
    PROVE  \E a, b \in Entries :
             /\ StartAction(k1, sticky, "accepted", a, b) /\ a # b
             /\ subs[a].free /\ subs[b].free
             /\ \A e \in Entries : e < a => ~subs[e].free
             /\ \A e \in Entries : e < b /\ e # a => ~subs[e].free
             /\ subs'[a].topic = <<k1, "accepted">> /\ ~subs'[a].free
             /\ subs'[b].topic = subs[b].topic /\ ~subs'[b].free
             /\ \A e \in Entries : e # a /\ e # b => subs'[e] = subs[e]
             /\ troubled' = troubled \union Crossing(k1) \union Retaking(k1, a, b)
<1>1. PICK a, b \in FreeEntries :
         /\ Least(FreeEntries, a) /\ Least(FreeEntries \ {a}, b)
         /\ StartAction(k1, sticky, "accepted", a, b)
         /\ subs' = [subs EXCEPT ![a].free = FALSE, ![a].topic = <<k1, "accepted">>, ![b].free = FALSE]
         /\ troubled' = troubled \union Crossing(k1) \union Retaking(k1, a, b)
  BY DEF StartSubscribing
<1>2. a \in Entries /\ b \in Entries /\ subs[a].free /\ subs[b].free /\ a # b
  BY <1>1 DEF FreeEntries, Least
<1>3. \A e \in Entries : e < a => ~subs[e].free
  BY <1>1, <1>2 DEF FreeEntries, Least, Entries
<1>4. \A e \in Entries : e < b /\ e # a => ~subs[e].free
  BY <1>1, <1>2 DEF FreeEntries, Least, Entries
<1>5. subs \in [Entries -> Entry]
  BY TypeFacts
<1>6. /\ subs'[a].topic = <<k1, "accepted">> /\ ~subs'[a].free
      /\ subs'[b].topic = subs[b].topic /\ ~subs'[b].free
      /\ \A e \in Entries : e # a /\ e # b => subs'[e] = subs[e]
  BY <1>1, <1>2, <1>5 DEF Entry
<1> QED BY <1>1, <1>2, <1>3, <1>4, <1>6

LEMMA SubscribingBeside ==
    ASSUME TypeInv, TypeInv', RecordInv, NEW k1 \in Keys, NEW sticky \in BOOLEAN,
           StartSubscribing(k1, sticky), NEW k \in Keys, k # k1, KeyInv(k)
    PROVE  KeyInv(k)'
<1>1. PICK a, b \in Entries :
             /\ StartAction(k1, sticky, "accepted", a, b) /\ a # b
             /\ subs[a].free /\ subs[b].free
             /\ subs'[a].topic = <<k1, "accepted">> /\ ~subs'[a].free
             /\ subs'[b].topic = subs[b].topic /\ ~subs'[b].free
             /\ \A e \in Entries : e # a /\ e # b => subs'[e] = subs[e]
  BY Taken
<1>2. a \in 0..NumTopics /\ b \in 0..NumTopics /\ a # 0 /\ b # 0
  BY ShadowAssumption DEF Entries
<1>3. PICK f : /\ KeysKept /\ UNCHANGED <<acks, handlers, deaf>>
               /\ Calls' = Calls \union {f} /\ f \notin Calls
               /\ f.op = "action" /\ f.pc = "accepted" /\ f.a = a /\ f.b = b /\ keyOf'[f.req] = k1
  BY <1>1, <1>2, Started
<1>4. ~Changing(f, k)' /\ ~Ending(f, k) /\ \A j \in Entries : Holds(f, j) => j \in {a, b}
  BY <1>3 DEF Changing, Ending, Holds, Answers
<1>5. FewerUsers(k)
  <2>1. f.op # "expiring" /\ f.pc # "publish"
    BY <1>3
  <2> QED BY <1>3, <2>1, UsersStay
<1>6. TimeOutAlone(k)'
  BY <1>3, CallsAdded DEF KeyInv
<1>7. \A x : <<k, x>> \in Heard => <<k, x>> \in Heard'
  BY <1>3 DEF Heard
<1>8. Stale(b, k)'
  BY <1>3 DEF Stale
<1> DEFINE J == {a, b}
<1>9. \A j \in Entries : j \in J =>
        /\ \A x \in Answers : /\ ~Mine(k, x, j) /\ ~Mine(k, x, j)'
                              /\ subs'[j].topic = <<k, x>> => subs[j].topic = <<k, x>>
        /\ \A g \in Calls : Changing(g, k) /\ g.pc \in Answers => j # g.a /\ j # g.b
  <2> SUFFICES ASSUME NEW j \in {a, b}
               PROVE  /\ \A x \in Answers : /\ ~Mine(k, x, j) /\ ~Mine(k, x, j)'
                                            /\ subs'[j].topic = <<k, x>> => subs[j].topic = <<k, x>>
                      /\ \A g \in Calls : Changing(g, k) /\ g.pc \in Answers => j # g.a /\ j # g.b
    OBVIOUS
  <2>1. ASSUME NEW x \in Answers PROVE /\ ~Mine(k, x, j) /\ ~Mine(k, x, j)'
                                       /\ subs'[j].topic = <<k, x>> => subs[j].topic = <<k, x>>
    BY <1>1, <1>8 DEF Mine
  <2>2. ASSUME NEW g \in Calls, Changing(g, k), g.pc \in Answers PROVE j # g.a /\ j # g.b
    <3>1. ~subs[g.a].free /\ ~subs[g.b].free
      BY <2>2 DEF KeyInv, Subscribing
    <3> QED BY <1>1, <3>1
  <2> QED BY <2>1, <2>2
<1>10. \A j \in Entries : j \notin J =>
         /\ subs'[j].topic = subs[j].topic /\ subs'[j].free = subs[j].free
         /\ subs[j].topic \in {k} \X Answers => subs'[j] = subs[j]
  BY <1>1
<1>11. subs'[f.a].topic \notin {k} \X Answers
  BY <1>1, <1>3
<1>12. \A g : ~(g \in Calls <=> g \in Calls') /\ g.op = "action" /\ g.pc \in {"accepted", "undo"}
                => g.b \notin Entries \ J
  BY <1>3
<1>13. \A g \in Calls : g \in Calls'
  BY <1>3
<1>14. \A g \in Calls' : g \notin Calls =>
         /\ ~Changing(g, k)' /\ ~Ending(g, k)
         /\ \A j \in Entries : Holds(g, j) => j \in J
         /\ g.op = "action" /\ g.pc \in Answers \union {"undo"} => subs'[g.a].topic \notin {k} \X Answers
  BY <1>3, <1>4, <1>11
<1> HIDE DEF J
<1> QED BY <1>3, <1>5, <1>6, <1>7, <1>9, <1>10, <1>12, <1>13, <1>14, Beside

\* The subscriptions of k are being made.
LEMMA SubscribingOwn ==
    ASSUME TypeInv, TypeInv', RecordInv, Nested, NEW k \in Keys, NEW sticky \in BOOLEAN,
           StartSubscribing(k, sticky), k \notin troubled', KeyInv(k)
    PROVE  KeyInv(k)'
<1>1. PICK a, b \in Entries :
             /\ StartAction(k, sticky, "accepted", a, b) /\ a # b
             /\ subs[a].free /\ subs[b].free
             /\ \A e \in Entries : e < a => ~subs[e].free
             /\ \A e \in Entries : e < b /\ e # a => ~subs[e].free
             /\ subs'[a].topic = <<k, "accepted">> /\ ~subs'[a].free
             /\ subs'[b].topic = subs[b].topic /\ ~subs'[b].free
             /\ \A e \in Entries : e # a /\ e # b => subs'[e] = subs[e]
             /\ troubled' = troubled \union Crossing(k) \union Retaking(k, a, b)
  BY Taken, Zenon
<1>2. a \in 0..NumTopics /\ b \in 0..NumTopics /\ a # 0 /\ b # 0
  BY ShadowAssumption DEF Entries
<1>3. PICK f : /\ KeysKept /\ MayCall /\ UNCHANGED <<acks, handlers, deaf>>
               /\ Calls' = Calls \union {f} /\ f \notin Calls
               /\ f.op = "action" /\ f.pc = "accepted" /\ f.a = a /\ f.b = b /\ keyOf'[f.req] = k
  BY <1>1, <1>2, Started
<1>4. /\ \A g \in Calls : /\ ~Changing(g, k) /\ ~Ending(g, k)
                          /\ \A j \in Entries : Holds(g, j) => subs[j].topic \notin {k} \X Answers
      /\ \A x \in Answers, j \in Entries : subs[j].topic = <<k, x>> => ~Stale(j, k)
      /\ Absent(k) \/ \E i, j \in Entries : Both(k, i, j)
  BY <1>1, <1>3, SettledCall
<1>5. Absent(k)
  <2>1. ASSUME NEW i \in Entries, NEW j \in Entries, Both(k, i, j) PROVE Present(k)
    BY <2>1 DEF Both, Good, Only, Mine, Present, Answers
  <2>2. ~Present(k)
    BY DEF StartSubscribing
  <2> QED BY <1>4, <2>1, <2>2
<1>6. \A g \in Calls : ~Holds(g, a) /\ ~Holds(g, b)
  <2>1. Holders(a) = {} /\ Holders(b) = {}
    BY <1>1 DEF Retaking
  <2> QED BY <1>1, <2>1, HolderSeen
<1>7. \A x \in Answers, e \in Entries : subs[e].topic = <<k, x>> => subs[e].free
  BY <1>4, <1>5 DEF Absent, Mine
<1>8. \A x \in Answers, j \in Entries : Mine(k, x, j)' => j \in {a, b}
  <2> SUFFICES ASSUME NEW x \in Answers, NEW j \in Entries, Mine(k, x, j)', j # a, j # b PROVE FALSE
    OBVIOUS
  <2> QED BY <1>1, <1>7 DEF Mine
<1>9. First(k, "accepted", a)' /\ First(k, "rejected", b)'
  BY <1>1, <1>7 DEF First, Answers, Entries
<1>10. None(k)'
  <2>1. f.op # "expiring" /\ f.pc # "publish"
    BY <1>3
  <2>2. FewerUsers(k)
    BY <1>3, <2>1, UsersStay
  <2> QED BY <1>5, <2>2 DEF Absent, None, FewerUsers
<1>11. \A g \in Calls' : Changing(g, k)' => g = f
  BY <1>3, <1>4, ChangingSame
<1>12. \A g \in Calls' : Holds(g, a) \/ Holds(g, b) => g = f
  BY <1>3, <1>6
<1>13. Subscribing(k, f)'
  BY <1>1, <1>3, <1>8, <1>9, <1>10, <1>11, <1>12 DEF Subscribing
<1>14. Changing(f, k)' /\ FrameKey(f)' = k
  BY <1>3 DEF Changing, FrameKey, Answers
<1>15. Reserved(k)'
  BY <1>8, <1>12, <1>14 DEF Reserved
<1>16. TopicOwn(k)'
  <2> SUFFICES ASSUME NEW g \in Calls', g.op = "action", g.pc \in Answers \union {"undo"},
                      subs'[g.a].topic \in {k} \X Answers, g # f
               PROVE  FALSE
    BY <1>3 DEF TopicOwn
  <2>1. g \in Calls
    BY <1>3
  <2>2. g.a \in Entries /\ Holds(g, g.a)
    BY <2>1, CallTypes DEF Holds
  <2>3. g.a # a /\ g.a # b
    BY <1>6, <2>1, <2>2
  <2> QED BY <1>1, <1>4, <2>1, <2>2, <2>3
<1>17. TimeOutAlone(k)'
  BY <1>3, CallsAdded DEF KeyInv
<1> QED BY <1>3, <1>11, <1>13, <1>14, <1>15, <1>16, <1>17 DEF KeyInv

\* With too few free entries the key itself is in disorder.
LEMMA CrowdedBeside ==
    ASSUME TypeInv, TypeInv', RecordInv, NEW k1 \in Keys, NEW sticky \in BOOLEAN,
           StartCrowded(k1, sticky), NEW k \in Keys, k \notin troubled', KeyInv(k)
    PROVE  KeyInv(k)'
<1>1. k # k1 /\ UNCHANGED subs
  BY DEF StartCrowded
<1>2. PICK pc \in {"publish", "undo"}, a \in Entries \union {0} :
        /\ StartAction(k1, sticky, pc, a, 0)
        /\ pc = "undo" => a \in Entries /\ subs[a].free /\ subs[a].topic[1] # k
  <2>1. CASE StartAction(k1, sticky, "publish", 0, 0)
    BY <2>1
  <2>2. CASE \E j \in FreeEntries : StartAction(k1, sticky, "undo", j, 0) /\ subs[j].topic[1] \in troubled'
    <3>1. PICK j \in FreeEntries : StartAction(k1, sticky, "undo", j, 0) /\ subs[j].topic[1] \in troubled'
      BY <2>2
    <3>2. j \in Entries /\ subs[j].free /\ subs[j].topic[1] # k
      BY <3>1 DEF FreeEntries
    <3> QED BY <3>1, <3>2
  <2> QED BY <2>1, <2>2 DEF StartCrowded
<1>3. a \in 0..NumTopics /\ 0 \in 0..NumTopics /\ pc \in {"accepted", "undo", "publish"}
  BY ShadowAssumption DEF Entries
<1>4. PICK f : /\ KeysKept /\ UNCHANGED <<acks, handlers, deaf>>
               /\ Calls' = Calls \union {f} /\ f \notin Calls
               /\ f.op = "action" /\ f.pc = pc /\ f.a = a /\ f.b = 0 /\ keyOf'[f.req] = k1
  BY <1>2, <1>3, Started
<1> DEFINE J == {j \in Entries : pc = "undo" /\ j = a}
<1>5. ~Changing(f, k)' /\ ~Ending(f, k) /\ \A j \in Entries : Holds(f, j) => j \in J
  <2>1. 0 \notin Entries
    BY DEF Entries
  <2> QED BY <1>1, <1>2, <1>4, <2>1 DEF Changing, Ending, Holds, Answers
<1>6. FewerUsers(k)
  <2>1. f.op # "expiring" /\ keyOf'[f.req] # k
    BY <1>1, <1>4
  <2> QED BY <1>4, <2>1, UsersStay
<1>7. TimeOutAlone(k)'
  BY <1>4, CallsAdded DEF KeyInv
<1>8. \A x : <<k, x>> \in Heard => <<k, x>> \in Heard'
  BY <1>4 DEF Heard
<1>9. \A j \in Entries : j \in J =>
        /\ \A x \in Answers : /\ ~Mine(k, x, j) /\ ~Mine(k, x, j)'
                              /\ subs'[j].topic = <<k, x>> => subs[j].topic = <<k, x>>
        /\ \A g \in Calls : Changing(g, k) /\ g.pc \in Answers => j # g.a /\ j # g.b
  <2> SUFFICES ASSUME NEW j \in Entries, j = a, pc = "undo"
               PROVE  /\ \A x \in Answers : ~Mine(k, x, j) /\ ~Mine(k, x, j)'
                      /\ \A g \in Calls : Changing(g, k) /\ g.pc \in Answers => j # g.a /\ j # g.b
    BY <1>1
  <2>1. subs[j].free /\ subs'[j].free
    BY <1>1, <1>2
  <2>2. ASSUME NEW g \in Calls, Changing(g, k), g.pc \in Answers PROVE j # g.a /\ j # g.b
    <3>1. ~subs[g.a].free /\ ~subs[g.b].free
      BY <2>2 DEF KeyInv, Subscribing
    <3> QED BY <2>1, <3>1
  <2> QED BY <2>1, <2>2 DEF Mine
<1>10. \A j \in Entries : j \notin J =>
         /\ subs'[j].topic = subs[j].topic /\ subs'[j].free = subs[j].free
         /\ subs[j].topic \in {k} \X Answers => subs'[j] = subs[j]
  BY <1>1
<1>11. f.pc \in Answers \union {"undo"} => subs'[f.a].topic \notin {k} \X Answers
  <2> SUFFICES ASSUME pc = "undo", subs[a].topic \in {k} \X Answers PROVE FALSE
    BY <1>1, <1>4 DEF Answers
  <2> QED BY <1>2
<1>12. \A g : ~(g \in Calls <=> g \in Calls') /\ g.op = "action" /\ g.pc \in {"accepted", "undo"}
                => g.b \notin Entries \ J
  <2>1. 0 \notin Entries
    BY DEF Entries
  <2> QED BY <1>4, <2>1
<1>13. \A g \in Calls : g \in Calls'
  BY <1>4
<1>14. \A g \in Calls' : g \notin Calls =>
         /\ ~Changing(g, k)' /\ ~Ending(g, k)
         /\ \A j \in Entries : Holds(g, j) => j \in J
         /\ g.op = "action" /\ g.pc \in Answers \union {"undo"} => subs'[g.a].topic \notin {k} \X Answers
  BY <1>4, <1>5, <1>11
<1> HIDE DEF J
<1> QED BY <1>4, <1>6, <1>7, <1>8, <1>9, <1>10, <1>12, <1>13, <1>14, Beside
----------------------------------------------------------------------------
(* The innermost action goes on.                                           *)

LEMMA ActingCall ==
    ASSUME TypeInv, RecordInv, Acting
    PROVE  /\ Top \in Calls /\ Top.op = "action" /\ Top \in Acts /\ keyOf[Top.req] \in Keys
           /\ Top.pc \in Answers => Top.a \in Entries /\ Top.b \in Entries
           /\ Top.pc = "undo" => Top.a \in Entries
           /\ FrameKey(Top) = keyOf[Top.req]
<1>1. stack # <<>> /\ Top.op = "action"
  BY DEF Acting
<1>2. Top \in Calls
  BY <1>1, TopCall
<1> HIDE DEF Top
<1> QED BY <1>1, <1>2, CallTypes DEF FrameKey

\* What the calls become: the action goes on at pc, or is over.
ActGoesOn(pc, failed) == \E g : /\ Calls' = (Calls \ {Top}) \union {g}
                                /\ g.op = "action" /\ g.req = Top.req /\ g.a = Top.a /\ g.b = Top.b
                                /\ g.sticky = Top.sticky /\ g.pc = pc /\ g.failed = failed
ActEnds == Calls' = Calls \ {Top}

LEMMA ActReplaced ==
    ASSUME TypeInv, RecordInv, Acting, NEW pc \in {"rejected", "publish", "undo"}, NEW failed \in BOOLEAN,
           stack' = Replace([Top EXCEPT !.pc = pc, !.failed = failed])
    PROVE  ActGoesOn(pc, failed)
<1>1. stack # <<>> /\ Top \in Acts /\ Top.op # "yield"
  BY ActingCall DEF Acting
<1> DEFINE g == [Top EXCEPT !.pc = pc, !.failed = failed]
<1>2. g \in Frames
  BY <1>1 DEF Frames, Acts, Answers
<1>3. /\ g.op = "action" /\ g.req = Top.req /\ g.a = Top.a /\ g.b = Top.b
      /\ g.sticky = Top.sticky /\ g.pc = pc /\ g.failed = failed
  BY <1>1 DEF Acts
<1>4. stack' = Replace(g)
  OBVIOUS
<1> HIDE DEF g
<1>5. Calls' = (Calls \ {Top}) \union {g}
  BY <1>1, <1>2, <1>3, <1>4, CallsReplaced
<1> QED BY <1>3, <1>5 DEF ActGoesOn

LEMMA ActAdvanced ==
    ASSUME TypeInv, RecordInv, Acting, NEW pc \in {"rejected", "publish"},
           stack' = Replace([Top EXCEPT !.pc = pc])
    PROVE  ActGoesOn(pc, Top.failed)
<1>1. Top \in Acts
  BY ActingCall
<1>2. [Top EXCEPT !.pc = pc] = [Top EXCEPT !.pc = pc, !.failed = Top.failed] /\ Top.failed \in BOOLEAN
  BY <1>1 DEF Acts
<1> QED BY <1>2, ActReplaced

LEMMA ActPopped == ASSUME TypeInv, RecordInv, Acting, stack' = Below PROVE ActEnds
<1>1. stack # <<>> /\ Top.op # "yield"
  BY DEF Acting
<1> QED BY <1>1, CallsPopped DEF ActEnds

\* An action that goes on, or is given up, does not concern other keys.
LEMMA ActBeside ==
    ASSUME TypeInv, TypeInv', RecordInv, Acting, UNCHANGED <<keyOf, acks>>,
           ActEnds \/ \E pc \in {"rejected", "publish", "undo"} : \E failed : ActGoesOn(pc, failed),
           Top.pc \in Answers \union {"undo"},
           NEW k, keyOf[Top.req] # k, KeyInv(k),
           \A j \in Entries : /\ j # Top.a /\ j # Top.b => subs'[j] = subs[j]
                              /\ subs'[j].topic \in {k} \X Answers => subs'[j].topic = subs[j].topic,
           \A x \in Answers, j \in Entries : j = Top.a \/ j = Top.b => ~Mine(k, x, j)',
           \A x \in Answers : <<k, x>> \in Heard => <<k, x>> \in Heard'
    PROVE  KeyInv(k)'
<1>1. /\ Top \in Calls /\ Top.op = "action" /\ FrameKey(Top) # k
      /\ Top.a \in Entries
  BY ActingCall
<1> DEFINE f == Top
           J == {j \in Entries : j = Top.a \/ j = Top.b}
<1>2. /\ \A g \in Calls : g \notin Calls' => g = f
      /\ \A g \in Calls' : g \notin Calls =>
           g.op = "action" /\ g.req = f.req /\ g.a = f.a /\ g.b = f.b
  BY DEF ActEnds, ActGoesOn
<1>3. KeysKept
  BY DEF KeysKept
<1> HIDE DEF Top, J
<1>4. ~Changing(f, k) /\ ~Ending(f, k)
  BY <1>1 DEF Changing, Ending
<1>5. subs[f.a].topic \notin {k} \X Answers
  BY <1>1 DEF KeyInv, TopicOwn
<1>6. subs'[f.a].topic \notin {k} \X Answers
  BY <1>1, <1>5
<1>7. \A g \in Calls' : g \notin Calls =>
        /\ ~Changing(g, k)' /\ ~Ending(g, k)
        /\ \A j \in Entries : Holds(g, j) => j \in J
        /\ g.op = "action" /\ g.pc \in Answers \union {"undo"} => subs'[g.a].topic \notin {k} \X Answers
  BY <1>2, <1>6 DEF Changing, Ending, Holds, J
<1>8. \A g : ~(g \in Calls <=> g \in Calls') /\ g.op = "action" /\ g.pc \in {"accepted", "undo"}
               => g.b \notin Entries \ J
  BY <1>2 DEF J
<1>9. \A j \in Entries : j \notin J =>
        /\ subs'[j].topic = subs[j].topic /\ subs'[j].free = subs[j].free
        /\ subs[j].topic \in {k} \X Answers => subs'[j] = subs[j]
  BY DEF J
<1>10. \A j \in Entries : j \in J =>
        /\ \A x \in Answers : /\ ~Mine(k, x, j) /\ ~Mine(k, x, j)'
                              /\ subs'[j].topic = <<k, x>> => subs[j].topic = <<k, x>>
        /\ \A g \in Calls : Changing(g, k) /\ g.pc \in Answers => j # g.a /\ j # g.b
  <2> SUFFICES ASSUME NEW j \in Entries, j = f.a \/ j = f.b
               PROVE  /\ \A x \in Answers : /\ ~Mine(k, x, j)
                                            /\ subs'[j].topic = <<k, x>> => subs[j].topic = <<k, x>>
                      /\ \A g \in Calls : Changing(g, k) /\ g.pc \in Answers => j # g.a /\ j # g.b
    BY DEF J
  <2>1. Holds(f, j)
    BY <1>1 DEF Holds
  <2>2. /\ \A x \in Answers : ~Mine(k, x, j)
        /\ \A g \in Calls : Changing(g, k) /\ g.pc \in Answers => j # g.a /\ j # g.b
    BY <1>1, <2>1, Elsewhere
  <2>3. ASSUME NEW x \in Answers, subs'[j].topic = <<k, x>> PROVE subs[j].topic = <<k, x>>
    <3>1. <<k, x>> \in {k} \X Answers
      OBVIOUS
    <3> QED BY <2>3, <3>1
  <2> QED BY <2>2, <2>3
<1>11. FewerUsers(k)
  <2>1. \A g \in Calls' : g \notin Calls => g.op # "expiring" /\ keyOf'[g.req] # k
    BY <1>2
  <2>2. \A g \in Calls : g.op # "action" => g \in Calls'
    BY <1>1, <1>2
  <2> QED BY <1>3, <2>1, <2>2, UsersStay
<1>12. TimeOutAlone(k)'
  <2>1. \A g \in Calls' : g.op # "action" => g \in Calls
    BY <1>2
  <2> QED BY <1>3, <2>1, TimeOutKept DEF KeyInv
<1>13. \A g \in Calls : g \notin Calls' => ~Changing(g, k) /\ ~Ending(g, k)
  BY <1>2, <1>4
<1> QED BY <1>3, <1>7, <1>8, <1>9, <1>10, <1>11, <1>12, <1>13, Beside

\* Which entries are stale only changes for the second one of the action.
LEMMA StaleElse ==
    ASSUME TypeInv, RecordInv, Acting, UNCHANGED keyOf,
           ActEnds \/ \E pc \in {"rejected", "publish", "undo"} : \E failed : ActGoesOn(pc, failed),
           NEW k, NEW j, j # Top.b \/ keyOf[Top.req] = k
    PROVE  Stale(j, k)' <=> Stale(j, k)
<1>1. /\ \A g \in Calls : g \notin Calls' => g = Top
      /\ \A g \in Calls' : g \notin Calls => g.op = "action" /\ g.req = Top.req /\ g.b = Top.b
  BY DEF ActEnds, ActGoesOn
<1> HIDE DEF Top
<1> QED BY <1>1 DEF Stale

LEMMA SubscribeAcceptedBeside ==
    ASSUME TypeInv, TypeInv', RecordInv, SubscribeAccepted, NEW k, keyOf[Top.req] # k, KeyInv(k)
    PROVE  KeyInv(k)'
<1>1. Acting /\ Top.pc = "accepted" /\ UNCHANGED <<keyOf, acks>>
  BY DEF SubscribeAccepted
<1>2. ActGoesOn("rejected", Top.failed)
  BY <1>1, ActAdvanced DEF SubscribeAccepted
<1>3. /\ Top.a \in Entries /\ Top.b \in Entries /\ Top \in Calls
      /\ FrameKey(Top) = keyOf[Top.req] /\ Top.op = "action"
  BY <1>1, ActingCall DEF Answers
<1>4. subs' = [subs EXCEPT ![Top.a].count = 1, ![Top.a].sticky = Top.sticky,
                           ![Top.b].topic = <<keyOf[Top.req], "rejected">>]
  BY DEF SubscribeAccepted
<1>5. subs \in [Entries -> Entry]
  BY TypeFacts
<1>6. \A x \in Answers : <<k, x>> \in Heard => <<k, x>> \in Heard'
  BY DEF SubscribeAccepted, Heard
<1>7. /\ \A j \in Entries : j # Top.a /\ j # Top.b => subs'[j] = subs[j]
      /\ \A j \in Entries : j # Top.b => subs'[j].topic = subs[j].topic /\ subs'[j].free = subs[j].free
      /\ subs'[Top.b].topic = <<keyOf[Top.req], "rejected">>
  BY <1>3, <1>4, <1>5 DEF Entry
<1> HIDE DEF Top
<1>8. ASSUME NEW x \in Answers, NEW j \in Entries, j = Top.a \/ j = Top.b PROVE ~Mine(k, x, j)'
  <2>1. CASE j = Top.b
    BY <1>7, <2>1 DEF Mine
  <2>2. CASE j # Top.b
    <3>1. Stale(j, k)' <=> Stale(j, k)
      BY <1>1, <1>2, <2>2, StaleElse
    <3>2. Holds(Top, j)
      BY <1>1, <1>3, <1>8 DEF Holds, Answers
    <3>3. ~Mine(k, x, j)
      BY <1>3, <3>2, Elsewhere
    <3> QED BY <1>7, <2>2, <3>1, <3>3 DEF Mine
  <2> QED BY <2>1, <2>2
<1>9. \A j \in Entries : subs'[j].topic \in {k} \X Answers => subs'[j].topic = subs[j].topic
  BY <1>7
<1>10. Top.pc \in Answers
  BY <1>1 DEF Answers
<1> QED BY <1>1, <1>2, <1>6, <1>7, <1>8, <1>9, <1>10, ActBeside

LEMMA SubscribeRejectedBeside ==
    ASSUME TypeInv, TypeInv', RecordInv, SubscribeRejected, NEW k, keyOf[Top.req] # k, KeyInv(k)
    PROVE  KeyInv(k)'
<1>1. Acting /\ Top.pc = "rejected" /\ UNCHANGED <<keyOf, acks>>
  BY DEF SubscribeRejected
<1>2. ActGoesOn("publish", Top.failed)
  BY <1>1, ActAdvanced DEF SubscribeRejected
<1>3. /\ Top.a \in Entries /\ Top.b \in Entries /\ Top \in Calls
      /\ FrameKey(Top) = keyOf[Top.req] /\ Top.op = "action" /\ Top.pc \in Answers
  BY <1>1, ActingCall DEF Answers
<1>4. /\ \A j \in Entries : j # Top.b => subs'[j] = subs[j]
      /\ \A j \in Entries : subs'[j].topic = subs[j].topic /\ subs'[j].free = subs[j].free
  BY <1>3, TypeFacts DEF SubscribeRejected, Entry
<1>5. \A x \in Answers : <<k, x>> \in Heard => <<k, x>> \in Heard'
  BY DEF SubscribeRejected, Heard
<1> HIDE DEF Top
<1>6. ASSUME NEW x \in Answers, NEW j \in Entries, j = Top.a \/ j = Top.b PROVE ~Mine(k, x, j)'
  <2>1. Holds(Top, j)
    BY <1>3, <1>6 DEF Holds
  <2>2. ~Mine(k, x, j)
    BY <1>3, <2>1, Elsewhere
  <2>3. Stale(j, k) => Stale(j, k)'
    <3>1. Top.pc \notin {"accepted", "undo"}
      BY <1>1
    <3> QED BY <1>1, <1>2, <3>1 DEF Stale, ActGoesOn
  <2> QED BY <1>4, <2>2, <2>3 DEF Mine
<1> QED BY <1>1, <1>2, <1>3, <1>4, <1>5, <1>6, ActBeside

LEMMA SubscribeFailsBeside ==
    ASSUME TypeInv, TypeInv', RecordInv, SubscribeFails, NEW k, keyOf[Top.req] # k, KeyInv(k)
    PROVE  KeyInv(k)'
<1>1. Acting /\ Top.pc \in Answers /\ UNCHANGED <<keyOf, acks>>
  BY DEF SubscribeFails
<1>2. /\ Top.a \in Entries /\ Top.b \in Entries /\ Top \in Calls
      /\ FrameKey(Top) = keyOf[Top.req] /\ Top.op = "action"
  BY <1>1, ActingCall
<1>3. \/ ActGoesOn("undo", TRUE) /\ subs' = [subs EXCEPT ![Top.a].free = TRUE]
      \/ ActEnds /\ subs' = [subs EXCEPT ![Top.a].free = TRUE, ![Top.b].free = TRUE]
  BY <1>1, ActReplaced, ActPopped DEF SubscribeFails
<1>4. subs \in [Entries -> Entry]
  BY TypeFacts
<1>5. /\ \A j \in Entries : j # Top.a /\ j # Top.b => subs'[j] = subs[j]
      /\ \A j \in Entries : subs'[j].topic = subs[j].topic
      /\ subs'[Top.a].free
      /\ subs'[Top.b].free \/ ActGoesOn("undo", TRUE)
  <2>1. CASE ActGoesOn("undo", TRUE) /\ subs' = [subs EXCEPT ![Top.a].free = TRUE]
    BY <1>2, <1>4, <2>1 DEF Entry
  <2>2. CASE subs' = [subs EXCEPT ![Top.a].free = TRUE, ![Top.b].free = TRUE]
    BY <1>2, <1>4, <2>2 DEF Entry
  <2> QED BY <1>3, <2>1, <2>2
<1>6. \A x \in Answers : <<k, x>> \in Heard => <<k, x>> \in Heard'
  BY DEF SubscribeFails, Heard, mqtt
<1> HIDE DEF Top
<1>7. ASSUME NEW x \in Answers, NEW j \in Entries, j = Top.a \/ j = Top.b PROVE ~Mine(k, x, j)'
  <2>1. CASE ActGoesOn("undo", TRUE)
    <3>1. j = Top.b => Stale(j, k)'
      BY <1>1, <1>2, <2>1 DEF Stale, ActGoesOn
    <3> QED BY <1>5, <1>7, <3>1 DEF Mine
  <2>2. CASE ~ActGoesOn("undo", TRUE)
    BY <1>3, <1>5, <1>7, <2>2 DEF Mine
  <2> QED BY <2>1, <2>2
<1> QED BY <1>1, <1>3, <1>5, <1>6, <1>7, ActBeside

LEMMA UndoEndsBeside ==
    ASSUME TypeInv, TypeInv', RecordInv, UndoEnds, NEW k, keyOf[Top.req] # k, KeyInv(k)
    PROVE  KeyInv(k)'
<1>1. Acting /\ Top.pc = "undo" /\ UNCHANGED <<keyOf, acks>>
  BY DEF UndoEnds
<1>2. /\ Top.a \in Entries /\ Top \in Calls /\ Top.b \in 0..NumTopics /\ Top.failed \in BOOLEAN
      /\ FrameKey(Top) = keyOf[Top.req] /\ Top.op = "action"
  BY <1>1, ActingCall DEF Acts
<1>3. ActEnds \/ ActGoesOn("publish", Top.failed)
  BY <1>1, ActAdvanced, ActPopped DEF UndoEnds
<1>4. subs \in [Entries -> Entry] /\ (Top.b > 0 => Top.b \in Entries)
      /\ subs' = IF Top.b > 0 THEN [subs EXCEPT ![Top.b].free = TRUE] ELSE subs
  BY <1>2, TypeFacts, ShadowAssumption DEF UndoEnds, Entries
<1>5. /\ \A j \in Entries : j # Top.b => subs'[j] = subs[j]
      /\ \A j \in Entries : subs'[j].topic = subs[j].topic
      /\ Top.b \in Entries => subs'[Top.b].free
  <2>1. CASE Top.b > 0
    BY <1>4, <2>1 DEF Entry
  <2>2. CASE ~(Top.b > 0)
    BY <1>2, <1>4, <2>2, ShadowAssumption DEF Entries
  <2> QED BY <2>1, <2>2
<1>6. subs[Top.a].topic \notin {k} \X Answers
  BY <1>1, <1>2 DEF KeyInv, TopicOwn
<1>7. ASSUME NEW x \in Answers, <<k, x>> \in Heard PROVE <<k, x>> \in Heard'
  <2>1. <<k, x>> # subs[Top.a].topic
    BY <1>6
  <2> QED BY <1>7, <2>1 DEF UndoEnds, Unsubscribed, UnsubscribeFailed, Heard
<1> HIDE DEF Top
<1>8. ASSUME NEW x \in Answers, NEW j \in Entries, j = Top.a \/ j = Top.b PROVE ~Mine(k, x, j)'
  <2>1. CASE j = Top.b
    BY <1>5, <2>1 DEF Mine
  <2>2. CASE j # Top.b
    <3>1. Stale(j, k)' <=> Stale(j, k)
      BY <1>1, <1>3, <2>2, StaleElse
    <3>2. Holds(Top, j)
      BY <1>1, <1>2, <1>8 DEF Holds
    <3>3. ~Mine(k, x, j)
      BY <1>2, <3>2, Elsewhere
    <3> QED BY <1>5, <2>2, <3>1, <3>3 DEF Mine
  <2> QED BY <2>1, <2>2
<1> QED BY <1>1, <1>3, <1>5, <1>7, <1>8, ActBeside

\* An action does not end or report anything, and nobody counts while the
\* subscriptions are being made.
LEMMA ActOwn ==
    ASSUME TypeInv, RecordInv, Acting, UNCHANGED <<keyOf, acks>>,
           Top.pc \in Answers \union {"undo"},
           ActEnds \/ \E pc \in {"rejected", "publish", "undo"} : \E failed : ActGoesOn(pc, failed),
           NEW k, keyOf[Top.req] = k, KeyInv(k)
    PROVE  /\ Subscribing(k, Top) /\ Changing(Top, k) /\ KeysKept
           /\ \A g \in Calls' : g \in Calls /\ g # Top => ~Changing(g, k)'
           /\ \A j : Stale(j, k)' <=> Stale(j, k)
           /\ TimeOutAlone(k)'
           /\ \A g \in Calls' : g.op # "action" => g \in Calls
           /\ \A x \in Answers : \A u \in Users(k, x)' : u = NumAcks + 1
           /\ Publishing(k)' => \E g \in Calls' : g \notin Calls /\ g.pc = "publish"
<1>1. Top \in Calls /\ Top.op = "action"
  BY ActingCall
<1>2. Changing(Top, k) /\ Subscribing(k, Top)
  BY <1>1 DEF Changing, KeyInv
<1>3. KeysKept
  BY DEF KeysKept
<1>4. /\ \A g \in Calls : g \notin Calls' => g = Top
      /\ \A g \in Calls' : g \notin Calls => g.op = "action" /\ g.req = Top.req
  BY DEF ActEnds, ActGoesOn
<1>5. \A j : Stale(j, k)' <=> Stale(j, k)
  BY <1>1, StaleElse
<1>6. \A g \in Calls' : g.op # "action" => g \in Calls
  BY <1>4
<1> HIDE DEF Top
<1>7. \A g \in Calls' : g \in Calls /\ g # Top => ~Changing(g, k)'
  BY <1>2, <1>3, ChangingSame DEF Subscribing
<1>8. TimeOutAlone(k)'
  BY <1>3, <1>6, TimeOutKept DEF KeyInv
<1>9. \A x \in Answers : Users(k, x) = {}
  BY <1>2 DEF Subscribing, None
<1>10. ASSUME NEW x \in Answers, NEW u \in Users(k, x)' PROVE u = NumAcks + 1
  <2>1. \A g \in Calls : g.op # "action" => g \in Calls'
    BY <1>1, <1>4
  <2>2. \A y, i : i \in Waiters(k, y)' => i \in Waiters(k, y)
    BY <1>3, <2>1, WaitersStay
  <2>3. \A y : Expiring(k, y)' => Expiring(k, y)
    BY <1>6, ExpiringStays
  <2>4. u \in Waiters(k, x) \/ (u = 0 /\ Expiring(k, x)) \/ u = NumAcks + 1
    BY <1>10, <2>2, <2>3 DEF Users
  <2>5. u \in 0..NumAcks + 1
    BY <1>10 DEF Users
  <2> QED BY <1>9, <2>4, <2>5 DEF Users
<1>11. ASSUME Publishing(k)' PROVE \E g \in Calls' : g \notin Calls /\ g.pc = "publish"
  <2>1. PICK g \in Calls' : g.op = "action" /\ g.pc = "publish" /\ keyOf[g.req] = k
    BY <1>11 DEF Publishing
  <2>2. CASE g \in Calls
    <3>1. Publishing(k)
      BY <2>1, <2>2 DEF Publishing
    <3>2. NumAcks + 1 \in Users(k, "accepted")
      BY <3>1, UserFacts
    <3> QED BY <1>9, <3>2 DEF Answers
  <2> QED BY <1>4, <2>1, <2>2
<1> QED BY <1>2, <1>3, <1>5, <1>6, <1>7, <1>8, <1>10, <1>11

LEMMA NobodyCounts ==
    ASSUME NEW k, \A x \in Answers : \A u \in Users(k, x)' : u = NumAcks + 1, ~Publishing(k)'
    PROVE  None(k)'
<1>1. \A x : NumAcks + 1 \notin Users(k, x)'
  BY UserFactsAfter
<1> QED BY <1>1 DEF None

LEMMA SubscribeAcceptedOwn ==
    ASSUME TypeInv, TypeInv', RecordInv, SubscribeAccepted, NEW k, keyOf[Top.req] = k, KeyInv(k)
    PROVE  KeyInv(k)'
<1>1. Acting /\ Top.pc = "accepted" /\ UNCHANGED <<keyOf, acks>> /\ Top.pc \in Answers
  BY DEF SubscribeAccepted, Answers
<1>2. ActGoesOn("rejected", Top.failed)
  BY <1>1, ActAdvanced DEF SubscribeAccepted
<1>3. /\ Top.a \in Entries /\ Top.b \in Entries /\ Top \in Calls /\ Top.op = "action"
      /\ Top.sticky \in BOOLEAN
  BY <1>1, ActingCall DEF Acts
<1>4. /\ Subscribing(k, Top) /\ KeysKept
      /\ \A g \in Calls' : g \in Calls /\ g # Top => ~Changing(g, k)'
      /\ \A j : Stale(j, k)' <=> Stale(j, k)
      /\ TimeOutAlone(k)'
      /\ \A x \in Answers : \A u \in Users(k, x)' : u = NumAcks + 1
      /\ Publishing(k)' => \E g \in Calls' : g \notin Calls /\ g.pc = "publish"
  BY <1>1, <1>2, ActOwn
<1>5. /\ subs' = [subs EXCEPT ![Top.a].count = 1, ![Top.a].sticky = Top.sticky,
                              ![Top.b].topic = <<k, "rejected">>]
      /\ <<k, "accepted">> \in Heard'
  BY DEF SubscribeAccepted, Heard
<1>6. subs \in [Entries -> Entry]
  BY TypeFacts
<1>7. PICK g : /\ Calls' = (Calls \ {Top}) \union {g}
               /\ g.op = "action" /\ g.req = Top.req /\ g.a = Top.a /\ g.b = Top.b
               /\ g.sticky = Top.sticky /\ g.pc = "rejected"
  BY <1>2 DEF ActGoesOn
<1>21. PICK a, b : a = Top.a /\ b = Top.b
  OBVIOUS
<1>8. /\ \A j \in Entries : j # a /\ j # b => subs'[j] = subs[j]
      /\ \A j \in Entries : j # b => subs'[j].topic = subs[j].topic
      /\ \A j \in Entries : subs'[j].free = subs[j].free
      /\ subs'[b].topic = <<k, "rejected">>
      /\ a # b => subs'[a].count = 1 /\ subs'[a].sticky = Top.sticky
  BY <1>3, <1>5, <1>6, <1>21 DEF Entry
<1>9. /\ a # b /\ ~subs[a].free /\ ~subs[b].free
      /\ \A h \in Calls : Holds(h, a) \/ Holds(h, b) => h = Top
      /\ \A x \in Answers, j \in Entries : Mine(k, x, j) => j \in {a, b}
      /\ subs[a].topic = <<k, "accepted">> /\ First(k, "accepted", a)
      /\ First(k, "rejected", b)
  BY <1>1, <1>4, <1>21 DEF Subscribing
<1>10. a \in Entries /\ b \in Entries /\ g.a = a /\ g.b = b
  BY <1>3, <1>7, <1>21
<1> HIDE DEF Top
<1>11. \A x \in Answers, j \in Entries : Mine(k, x, j)' => j \in {a, b}
  BY <1>4, <1>8, <1>9 DEF Mine
<1>12. First(k, "accepted", a)' /\ First(k, "rejected", b)'
  BY <1>8, <1>9, <1>10 DEF First, Entries
<1>13. Changing(g, k)' /\ FrameKey(g)' = k
  BY <1>1, <1>7 DEF Changing, FrameKey, Answers
<1>14. None(k)'
  <2>1. ~Publishing(k)'
    BY <1>4, <1>7
  <2> QED BY <1>4, <2>1, NobodyCounts
<1>15. \A h \in Calls' : Changing(h, k)' => h = g
  BY <1>4, <1>7
<1>16. \A h \in Calls' : Holds(h, a) \/ Holds(h, b) => h = g
  BY <1>7, <1>9
<1>17. Subscribing(k, g)'
  BY <1>5, <1>7, <1>8, <1>9, <1>10, <1>11, <1>12, <1>14, <1>15, <1>16 DEF Subscribing
<1>18. Reserved(k)'
  BY <1>11, <1>13, <1>16 DEF Reserved
<1>19. TopicOwn(k)'
  <2> SUFFICES ASSUME NEW h \in Calls', h.op = "action", h.pc \in Answers \union {"undo"},
                      subs'[h.a].topic \in {k} \X Answers, h # g
               PROVE  keyOf'[h.req] = k
    BY <1>1, <1>7 DEF TopicOwn
  <2>1. h \in Calls /\ h # Top
    BY <1>7
  <2>2. h.a \in Entries /\ Holds(h, h.a)
    BY <2>1, CallTypes DEF Holds
  <2>3. subs[h.a].topic \in {k} \X Answers
    BY <1>8, <1>9, <2>1, <2>2
  <2> QED BY <1>1, <2>1, <2>3 DEF KeyInv, TopicOwn
<1>20. g \in Calls'
  BY <1>7
<1> QED BY <1>4, <1>13, <1>15, <1>17, <1>18, <1>19, <1>20 DEF KeyInv

LEMMA OneCounts ==
    ASSUME TypeInv, NEW k, NEW x \in Answers, \A u \in Users(k, x)' : u = NumAcks + 1
    PROVE  Cardinality(Users(k, x)') \in Nat /\ Cardinality(Users(k, x)') <= 1
<1>1. Users(k, x)' \subseteq {NumAcks + 1}
  OBVIOUS
<1>2. IsFiniteSet({NumAcks + 1}) /\ Cardinality({NumAcks + 1}) = 1
  BY FS_Singleton
<1> QED BY <1>1, <1>2, SmallerSet

LEMMA SubscribeRejectedOwn ==
    ASSUME TypeInv, TypeInv', RecordInv, Keyed, SubscribeRejected, NEW k, keyOf[Top.req] = k, KeyInv(k)
    PROVE  KeyInv(k)'
<1>1. Acting /\ Top.pc = "rejected" /\ UNCHANGED <<keyOf, acks>> /\ Top.pc \in Answers
  BY DEF SubscribeRejected, Answers
<1>2. ActGoesOn("publish", Top.failed)
  BY <1>1, ActAdvanced DEF SubscribeRejected
<1>3. /\ Top.a \in Entries /\ Top.b \in Entries /\ Top \in Calls /\ Top.op = "action"
      /\ Top.sticky \in BOOLEAN
  BY <1>1, ActingCall DEF Acts
<1>4. /\ Subscribing(k, Top) /\ KeysKept
      /\ \A g \in Calls' : g \in Calls /\ g # Top => ~Changing(g, k)'
      /\ \A j : Stale(j, k)' <=> Stale(j, k)
      /\ TimeOutAlone(k)'
      /\ \A g \in Calls' : g.op # "action" => g \in Calls
      /\ \A x \in Answers : \A u \in Users(k, x)' : u = NumAcks + 1
  BY <1>1, <1>2, ActOwn
<1>5. PICK g : /\ Calls' = (Calls \ {Top}) \union {g}
               /\ g.op = "action" /\ g.req = Top.req /\ g.pc = "publish"
  BY <1>2 DEF ActGoesOn
<1>6. PICK a, b : a = Top.a /\ b = Top.b
  OBVIOUS
<1>7. subs' = [subs EXCEPT ![b].count = 1, ![b].sticky = Top.sticky]
  BY <1>6 DEF SubscribeRejected
<1>8. subs \in [Entries -> Entry] /\ a \in Entries /\ b \in Entries
  BY <1>3, <1>6, TypeFacts
<1>9. /\ \A j \in Entries : j # b => subs'[j] = subs[j]
      /\ \A j \in Entries : subs'[j].topic = subs[j].topic /\ subs'[j].free = subs[j].free
      /\ subs'[b].count = 1 /\ subs'[b].sticky = Top.sticky
  BY <1>7, <1>8 DEF Entry
<1>10. <<k, "rejected">> \in Heard' /\ (<<k, "accepted">> \in Heard => <<k, "accepted">> \in Heard')
  BY DEF SubscribeRejected, Heard
<1>11. /\ a # b /\ ~subs[a].free /\ ~subs[b].free
       /\ \A h \in Calls : Holds(h, a) \/ Holds(h, b) => h = Top
       /\ \A x \in Answers, j \in Entries : Mine(k, x, j) => j \in {a, b}
       /\ subs[a].topic = <<k, "accepted">> /\ First(k, "accepted", a)
       /\ First(k, "rejected", b)
       /\ subs[a].count = 1 /\ subs[a].sticky = Top.sticky /\ <<k, "accepted">> \in Heard
       /\ subs[b].topic = <<k, "rejected">>
  BY <1>1, <1>4, <1>6 DEF Subscribing
<1> HIDE DEF Top
<1>12. ~Stale(a, k)' /\ ~Stale(b, k)'
  <2> SUFFICES ASSUME NEW j \in {a, b}, Stale(j, k) PROVE FALSE
    BY <1>4
  <2>1. PICK h \in Calls : h.op = "action" /\ h.pc \in {"accepted", "undo"} /\ h.b = j /\ keyOf[h.req] # k
    BY DEF Stale
  <2>2. Holds(h, j)
    BY <2>1 DEF Holds, Answers
  <2>3. h = Top
    BY <1>11, <2>2
  <2> QED BY <1>1, <2>1, <2>3
<1>13. Mine(k, "accepted", a)' /\ Mine(k, "rejected", b)'
  BY <1>8, <1>9, <1>11, <1>12 DEF Mine
<1>14. ASSUME NEW x \in Answers, NEW j \in Entries, Mine(k, x, j)'
       PROVE  j = IF x = "accepted" THEN a ELSE b
  <2>1. Mine(k, x, j)
    BY <1>4, <1>9, <1>14 DEF Mine
  <2> QED BY <1>11, <2>1 DEF Mine, Answers
<1>15. First(k, "accepted", a)' /\ First(k, "rejected", b)'
  BY <1>9, <1>11 DEF First
<1>16. Only(k, "accepted", a)' /\ Only(k, "rejected", b)'
  BY <1>13, <1>14, <1>15 DEF Only, Answers
<1>17. /\ subs'[a].count = 1 /\ subs'[a].sticky = Top.sticky
       /\ subs'[b].count = 1 /\ subs'[b].sticky = Top.sticky
  BY <1>8, <1>9, <1>11
<1>18. Good(k, "accepted", a)' /\ Good(k, "rejected", b)'
  <2>1. "accepted" \in Answers /\ "rejected" \in Answers
    BY DEF Answers
  <2>2. /\ Cardinality(Users(k, "accepted")') <= 1
        /\ Cardinality(Users(k, "rejected")') <= 1
    BY <1>4, <2>1, OneCounts
  <2> QED BY <1>10, <1>11, <1>16, <1>17, <2>2 DEF Good
<1>19. \A h \in Calls' : ~Ending(h, k)
  <2> SUFFICES ASSUME NEW h \in Calls', Ending(h, k) PROVE FALSE
    OBVIOUS
  <2>1. h \in Calls
    BY <1>4 DEF Ending
  <2>2. Token(h) \in Users(k, "rejected")
    BY <2>1, EnderCounts
  <2> QED BY <1>4, <2>2 DEF Subscribing, None, Answers
<1>20. Settled(k)'
  <2>1. Both(k, a, b)'
    BY <1>17, <1>18, <1>19 DEF Both
  <2> QED BY <1>8, <2>1 DEF Settled
<1>21. \A h \in Calls' : ~Changing(h, k)'
  <2>1. ~Changing(g, k)'
    BY <1>5 DEF Changing, Answers
  <2> QED BY <1>4, <1>5, <2>1
<1>22. \A h \in Calls' : ~Holds(h, a) /\ ~Holds(h, b)
  <2>1. \A j : ~Holds(g, j)
    BY <1>5 DEF Holds, Answers
  <2> QED BY <1>5, <1>11, <2>1
<1>23. Reserved(k)'
  BY <1>14, <1>22 DEF Reserved
<1>24. TopicOwn(k)'
  <2> SUFFICES ASSUME NEW h \in Calls', h.op = "action", h.pc \in Answers \union {"undo"},
                      subs'[h.a].topic \in {k} \X Answers
               PROVE  keyOf'[h.req] = k
    BY DEF TopicOwn
  <2>1. h \in Calls
    BY <1>5 DEF Answers
  <2>2. h.a \in Entries
    BY <2>1, CallTypes
  <2>3. subs[h.a].topic \in {k} \X Answers
    BY <1>9, <2>2
  <2> QED BY <1>1, <2>1, <2>3 DEF KeyInv, TopicOwn
<1> QED BY <1>4, <1>20, <1>21, <1>23, <1>24 DEF KeyInv

LEMMA SubscribeFailsOwn ==
    ASSUME TypeInv, TypeInv', RecordInv, SubscribeFails, NEW k, keyOf[Top.req] = k, KeyInv(k)
    PROVE  KeyInv(k)'
<1>1. Acting /\ UNCHANGED <<keyOf, acks>> /\ Top.pc \in Answers
  BY DEF SubscribeFails
<1>2. /\ Top.a \in Entries /\ Top.b \in Entries /\ Top \in Calls /\ Top.op = "action"
  BY <1>1, ActingCall
<1>3. \/ ActGoesOn("undo", TRUE) /\ subs' = [subs EXCEPT ![Top.a].free = TRUE]
      \/ ActEnds /\ subs' = [subs EXCEPT ![Top.a].free = TRUE, ![Top.b].free = TRUE]
  BY <1>1, ActReplaced, ActPopped DEF SubscribeFails
<1>4. /\ Subscribing(k, Top) /\ KeysKept
      /\ \A g \in Calls' : g \in Calls /\ g # Top => ~Changing(g, k)'
      /\ \A j : Stale(j, k)' <=> Stale(j, k)
      /\ TimeOutAlone(k)'
      /\ \A x \in Answers : \A u \in Users(k, x)' : u = NumAcks + 1
      /\ Publishing(k)' => \E g \in Calls' : g \notin Calls /\ g.pc = "publish"
  BY <1>1, <1>3, ActOwn
<1>5. PICK a, b : a = Top.a /\ b = Top.b
  OBVIOUS
<1>6. subs \in [Entries -> Entry] /\ a \in Entries /\ b \in Entries
  BY <1>2, <1>5, TypeFacts
<1>7. /\ \A j \in Entries : subs'[j].topic = subs[j].topic /\ (subs[j].free => subs'[j].free)
      /\ subs'[a].free /\ (subs' = [subs EXCEPT ![Top.a].free = TRUE] \/ subs'[b].free)
  <2>1. CASE subs' = [subs EXCEPT ![Top.a].free = TRUE]
    BY <1>5, <1>6, <2>1 DEF Entry
  <2>2. CASE subs' = [subs EXCEPT ![Top.a].free = TRUE, ![Top.b].free = TRUE]
    BY <1>5, <1>6, <2>2 DEF Entry
  <2> QED BY <1>3, <2>1, <2>2
<1>8. /\ \A h \in Calls : Holds(h, a) \/ Holds(h, b) => h = Top
      /\ \A x \in Answers, j \in Entries : Mine(k, x, j) => j \in {a, b}
  BY <1>1, <1>4, <1>5 DEF Subscribing
<1>9. \A x \in Answers, j \in Entries : Mine(k, x, j)' => j = b /\ ~subs'[b].free /\ Mine(k, x, j)
  <2> SUFFICES ASSUME NEW x \in Answers, NEW j \in Entries, Mine(k, x, j)'
               PROVE  j = b /\ ~subs'[b].free /\ Mine(k, x, j)
    OBVIOUS
  <2>1. Mine(k, x, j)
    BY <1>4, <1>7 DEF Mine
  <2>2. ~subs'[j].free
    BY DEF Mine
  <2> QED BY <1>7, <1>8, <2>1, <2>2
<1>10. None(k)'
  <2>1. \A g \in Calls' : g \notin Calls => g.pc = "undo"
    BY <1>3 DEF ActGoesOn, ActEnds
  <2>2. ~Publishing(k)'
    BY <1>4, <2>1
  <2> QED BY <1>4, <2>2, NobodyCounts
<1>11. TopicOwn(k)'
  <2> SUFFICES ASSUME NEW h \in Calls', h.op = "action", h.pc \in Answers \union {"undo"},
                      subs'[h.a].topic \in {k} \X Answers
               PROVE  keyOf'[h.req] = k
    BY DEF TopicOwn
  <2>1. CASE h \in Calls
    <3>1. h.a \in Entries
      BY <2>1, CallTypes
    <3>2. subs[h.a].topic \in {k} \X Answers
      BY <1>7, <3>1
    <3> QED BY <1>1, <2>1, <3>2 DEF KeyInv, TopicOwn
  <2>2. CASE h \notin Calls
    BY <1>1, <1>3, <2>2 DEF ActGoesOn, ActEnds
  <2> QED BY <2>1, <2>2
<1>12. CASE ActGoesOn("undo", TRUE)
  <2>1. PICK g : /\ Calls' = (Calls \ {Top}) \union {g}
                 /\ g.op = "action" /\ g.req = Top.req /\ g.a = a /\ g.b = b
                 /\ g.pc = "undo" /\ g.failed
    BY <1>5, <1>12 DEF ActGoesOn
  <2> HIDE DEF Top
  <2>2. Changing(g, k)' /\ FrameKey(g)' = k
    BY <1>1, <2>1 DEF Changing, FrameKey
  <2>3. \A h \in Calls' : Changing(h, k)' => h = g
    BY <1>4, <2>1
  <2>4. Subscribing(k, g)'
    BY <1>9, <1>10, <2>1, <2>3 DEF Subscribing, Answers
  <2>5. \A h \in Calls' : Holds(h, b) => h = g
    BY <1>8, <2>1
  <2>6. Reserved(k)'
    BY <1>9, <2>2, <2>5 DEF Reserved
  <2>7. g \in Calls'
    BY <2>1
  <2> QED BY <1>4, <1>11, <2>2, <2>3, <2>4, <2>6, <2>7 DEF KeyInv
<1>13. CASE ~ActGoesOn("undo", TRUE)
  <2>1. ActEnds /\ subs'[b].free
    BY <1>3, <1>5, <1>6, <1>13 DEF Entry
  <2>2. Absent(k)'
    BY <1>9, <1>10, <2>1 DEF Absent
  <2>3. \A h \in Calls' : ~Changing(h, k)'
    BY <1>4, <2>1 DEF ActEnds
  <2>4. Reserved(k)'
    BY <1>9, <2>1 DEF Reserved
  <2> QED BY <1>4, <1>11, <2>2, <2>3, <2>4 DEF KeyInv, Settled
<1> QED BY <1>12, <1>13

\* Both subscriptions are gone, whether the unsubscribe succeeded or not.
LEMMA UndoEndsOwn ==
    ASSUME TypeInv, TypeInv', RecordInv, UndoEnds, NEW k, keyOf[Top.req] = k, KeyInv(k)
    PROVE  KeyInv(k)'
<1>1. Acting /\ UNCHANGED <<keyOf, acks>> /\ Top.pc = "undo"
  BY DEF UndoEnds
<1>2. Top \in Calls /\ Top.op = "action" /\ Top.b \in 0..NumTopics /\ Top.failed \in BOOLEAN
  BY <1>1, ActingCall DEF Acts
<1>3. ActEnds \/ ActGoesOn("publish", Top.failed)
  BY <1>1, ActAdvanced, ActPopped DEF UndoEnds
<1>4. /\ Subscribing(k, Top) /\ KeysKept
      /\ \A g \in Calls' : g \in Calls /\ g # Top => ~Changing(g, k)'
      /\ \A j : Stale(j, k)' <=> Stale(j, k)
      /\ TimeOutAlone(k)'
      /\ \A x \in Answers : \A u \in Users(k, x)' : u = NumAcks + 1
      /\ Publishing(k)' => \E g \in Calls' : g \notin Calls /\ g.pc = "publish"
  BY <1>1, <1>3, ActOwn
<1>5. /\ Top.failed /\ \A x \in Answers, j \in Entries : Mine(k, x, j) => j = Top.b
  BY <1>1, <1>4 DEF Subscribing
<1>6. ActEnds
  BY <1>1, <1>5, ActPopped DEF UndoEnds
<1>7. PICK b : b = Top.b
  OBVIOUS
<1>8. subs' = IF b > 0 THEN [subs EXCEPT ![b].free = TRUE] ELSE subs
  BY <1>7 DEF UndoEnds
<1>9. subs \in [Entries -> Entry] /\ b \in 0..NumTopics
  BY <1>2, <1>7, TypeFacts
<1>10. /\ \A j \in Entries : subs'[j].topic = subs[j].topic /\ (subs[j].free => subs'[j].free)
       /\ b \in Entries => subs'[b].free
  <2>1. CASE b > 0
    <3>1. b \in Entries
      BY <1>9, <2>1, ShadowAssumption DEF Entries
    <3> QED BY <1>8, <1>9, <2>1, <3>1 DEF Entry
  <2>2. CASE ~(b > 0)
    BY <1>8, <1>9, <2>2, ShadowAssumption DEF Entries
  <2> QED BY <2>1, <2>2
<1> HIDE DEF Top
<1>11. ASSUME NEW x \in Answers, NEW j \in Entries, Mine(k, x, j)' PROVE FALSE
  <2>1. Mine(k, x, j) /\ ~subs'[j].free
    BY <1>4, <1>10, <1>11 DEF Mine
  <2> QED BY <1>5, <1>7, <1>10, <2>1
<1>12. None(k)'
  <2>1. ~Publishing(k)'
    BY <1>4, <1>6 DEF ActEnds
  <2> QED BY <1>4, <2>1, NobodyCounts
<1>13. Absent(k)'
  BY <1>11, <1>12 DEF Absent
<1>14. \A h \in Calls' : ~Changing(h, k)'
  BY <1>4, <1>6 DEF ActEnds
<1>15. Reserved(k)'
  BY <1>11 DEF Reserved
<1>16. TopicOwn(k)'
  <2> SUFFICES ASSUME NEW h \in Calls', h.op = "action", h.pc \in Answers \union {"undo"},
                      subs'[h.a].topic \in {k} \X Answers
               PROVE  keyOf'[h.req] = k
    BY DEF TopicOwn
  <2>1. h \in Calls
    BY <1>6 DEF ActEnds
  <2>2. h.a \in Entries
    BY <2>1, CallTypes
  <2>3. subs[h.a].topic \in {k} \X Answers
    BY <1>10, <2>2
  <2> QED BY <1>1, <2>1, <2>3 DEF KeyInv, TopicOwn
<1> QED BY <1>4, <1>13, <1>14, <1>15, <1>16 DEF KeyInv, Settled

\* An action that is about to be published is the innermost call.
LEMMA PublisherOnTop ==
    ASSUME TypeInv, Nested, NEW g \in Calls, g.pc = "publish", g.op = "action" PROVE g = Top
<1>1. PICK p \in DOMAIN stack : stack[p] = g
  BY CallPlace
<1>2. ~(p < Len(stack))
  BY <1>1 DEF Nested, Exchanging
<1>3. p \in Nat /\ p <= Len(stack) /\ Len(stack) \in Nat
  BY FrameTypes, TypeFacts
<1>4. p = Len(stack)
  BY <1>2, <1>3
<1> QED BY <1>1, <1>4 DEF Top

LEMMA PublishFewer ==
    ASSUME TypeInv, TypeInv', RecordInv, Nested, Publish, NEW k, Calls' = Calls \ {Top}, KeysKept
    PROVE  FewerUsers(k)
<1>1. Acting /\ Top.pc = "publish" /\ acks' = [acks EXCEPT ![Top.slot] = [req |-> Top.req, free |-> FALSE]]
      /\ keyOf' = keyOf
  BY DEF Publish
<1>2. Top \in Calls /\ Top.op = "action" /\ Top.slot \in Slots
  BY <1>1, ActingCall DEF Acts
<1>3. PICK s, r : s = Top.slot /\ r = Top.req
  OBVIOUS
<1>4. /\ \A i \in Slots : i # s => acks'[i] = acks[i]
      /\ acks'[s].req = r /\ s \in Slots
  BY <1>1, <1>2, <1>3, TypeFacts
<1>5. KeyAt(s)' = keyOf[r]
  BY <1>1, <1>4 DEF KeyAt
<1> HIDE DEF Top
<1>6. CASE keyOf[r] # k
  <2>1. \A i \in Slots : acks'[i].free \/ acks'[i] = acks[i] \/ KeyAt(i)' # k
    BY <1>4, <1>5, <1>6
  <2>2. \A g \in Calls : g.op # "action" => g \in Calls'
    BY <1>2
  <2> QED BY <2>1, <2>2, UsersStay
<1>7. CASE keyOf[r] = k
  <2>1. Publishing(k)
    BY <1>1, <1>2, <1>3, <1>7 DEF Publishing
  <2>2. ~Publishing(k)'
    BY <1>2, PublisherOnTop DEF Publishing
  <2>3. \A g \in Calls : g.op # "action" => g \in Calls'
    BY <1>2
  <2>4. \A x, i : i # s /\ i \in Waiters(k, x)' => i \in Waiters(k, x)
    <3>1. \A x, i : i \in Waiters(k, x)' => i \in Slots
      BY DEF Waiters
    <3>2. ASSUME NEW i \in Slots, i # s PROVE \A x : i \in Waiters(k, x)' => i \in Waiters(k, x)
      BY <1>4, <2>3, <3>2, WaiterStays
    <3> QED BY <3>1, <3>2
  <2>5. \A x : Expiring(k, x)' => Expiring(k, x)
    BY ExpiringStays
  <2>6. ASSUME NEW x \in Answers
        PROVE  \E u \in Users(k, x) : \E v : Users(k, x)' \subseteq (Users(k, x) \ {u}) \union {v}
    <3>1. NumAcks + 1 \in Users(k, x) /\ NumAcks + 1 \notin Users(k, x)'
      BY <2>1, <2>2, UserFacts, UserFactsAfter
    <3>2. ASSUME NEW u \in Users(k, x)', u # s PROVE u \in Users(k, x)
      <4>1. u \in 0..NumAcks + 1
        BY <3>2 DEF Users
      <4>2. u \in Waiters(k, x)' \/ (u = 0 /\ Expiring(k, x)') \/ (u = NumAcks + 1 /\ Publishing(k)')
        BY <3>2 DEF Users
      <4> QED BY <2>2, <2>4, <2>5, <3>2, <4>1, <4>2 DEF Users
    <3> QED BY <3>1, <3>2
  <2> QED BY <2>6, UsersFewer
<1> QED BY <1>6, <1>7

\* The record is that of the action from here on, and it counts instead.
LEMMA PublishKeeps ==
    ASSUME TypeInv, TypeInv', RecordInv, Nested, Publish, NEW k, KeyInv(k)
    PROVE  KeyInv(k)'
<1>1. /\ Acting /\ Top.pc = "publish" /\ acks' = [acks EXCEPT ![Top.slot] = [req |-> Top.req, free |-> FALSE]]
      /\ stack' = Below /\ UNCHANGED <<keyOf, subs, handlers, deaf>>
  BY DEF Publish, mqtt
<1>2. stack # <<>> /\ Top \in Calls /\ Top.op = "action" /\ Top.slot \in Slots
  BY <1>1, ActingCall DEF Acts, Acting
<1>3. Calls' = Calls \ {Top}
  BY <1>1, ActPopped DEF ActEnds
<1>4. KeysKept
  BY <1>1 DEF KeysKept
<1>5. FewerUsers(k)
  BY <1>3, <1>4, PublishFewer
<1>6. PICK s : s = Top.slot
  OBVIOUS
<1>7. /\ \A i \in Slots : i # s => acks'[i] = acks[i]
      /\ ~acks'[s].free
  BY <1>1, <1>2, <1>6, TypeFacts
<1>8. ASSUME NEW g \in Calls, g.op = "answered", g.slot = s PROVE FALSE
  <2>1. PICK q \in DOMAIN stack : stack[q] = g
    BY CallPlace
  <2>2. AnswerOwns(q)
    BY <1>8, <2>1 DEF RecordInv
  <2>3. q # Len(stack)
    BY <1>2, <1>8, <2>1 DEF Top
  <2>4. Len(stack) \in DOMAIN stack /\ Len(stack) > q /\ stack[Len(stack)] = Top
    BY <1>2, <2>3, TopPlace, FrameTypes
  <2> QED BY <1>2, <1>6, <1>8, <2>1, <2>2, <2>4 DEF AnswerOwns
<1> HIDE DEF Top
<1>9. TimeOutAlone(k)'
  <2> SUFFICES ASSUME NEW f \in Calls', f.op = "expiring", f.pc = "callback", KeyAt(f.slot)' = k
               PROVE  ~acks'[f.slot].free /\ \A g \in Calls' : ~(g.op = "answered" /\ g.slot = f.slot)
    BY DEF TimeOutAlone
  <2>1. f \in Calls /\ f.slot \in Slots
    BY <1>3, CallTypes DEF ReportOK
  <2>2. CASE f.slot = s
    BY <1>3, <1>7, <1>8, <2>2
  <2>3. CASE f.slot # s
    <3>1. acks'[f.slot] = acks[f.slot]
      BY <1>7, <2>1, <2>3
    <3>2. KeyAt(f.slot) = k
      BY <1>1, <3>1 DEF KeyAt
    <3> QED BY <1>3, <2>1, <3>1, <3>2 DEF KeyInv, TimeOutAlone
  <2> QED BY <2>2, <2>3
<1>10. ~Changing(Top, k) /\ ~Ending(Top, k) /\ Top.pc \notin {"accepted", "undo"}
  BY <1>1, <1>2 DEF Changing, Ending, Answers
<1>11. \A x : <<k, x>> \in Heard => <<k, x>> \in Heard'
  BY <1>1 DEF Heard
<1> QED BY <1>1, <1>3, <1>4, <1>5, <1>9, <1>10, <1>11, BesideIdle

LEMMA PublishFailsKeeps ==
    ASSUME TypeInv, TypeInv', RecordInv, PublishFails, NEW k, KeyInv(k)
    PROVE  KeyInv(k)'
<1>1. /\ Acting /\ Top.pc = "publish" /\ stack' = Below /\ UNCHANGED <<keyOf, acks, subs, handlers, deaf>>
  BY DEF PublishFails, mqtt
<1>2. Top \in Calls /\ Top.op = "action"
  BY <1>1, ActingCall
<1>3. Calls' = Calls \ {Top}
  BY <1>1, ActPopped DEF ActEnds
<1>4. KeysKept
  BY <1>1 DEF KeysKept
<1> HIDE DEF Top
<1>5. FewerUsers(k)
  <2>1. \A g \in Calls : g.op # "action" => g \in Calls'
    BY <1>2, <1>3
  <2> QED BY <1>1, <1>3, <1>4, <2>1, UsersStay
<1>6. TimeOutAlone(k)'
  BY <1>1, <1>3, <1>4, TimeOutKept DEF KeyInv
<1>7. ~Changing(Top, k) /\ ~Ending(Top, k) /\ Top.pc \notin {"accepted", "undo"}
  BY <1>1, <1>2 DEF Changing, Ending, Answers
<1>8. \A x : <<k, x>> \in Heard => <<k, x>> \in Heard'
  BY <1>1 DEF Heard
<1> QED BY <1>1, <1>3, <1>4, <1>5, <1>6, <1>7, <1>8, BesideIdle

----------------------------------------------------------------------------
(* Answers are read, and the records looked through.                       *)

LEMMA ReportKeeps ==
    ASSUME TypeInv, TypeInv', RecordInv, NEW k, KeyInv(k), UNCHANGED <<keyOf, acks, subs, handlers, deaf>>,
           \A f \in Calls : f \notin Calls' => f.op # "action" /\ f.pc \notin Answers,
           \A f \in Calls' : f \notin Calls => f.op # "action" /\ f.pc \notin Answers,
           TimeOutAlone(k)'
    PROVE  KeyInv(k)'
<1>1. KeysKept
  BY DEF KeysKept
<1>2. FewerUsers(k)
  <2>1. \A f \in Calls : f \notin Calls' => f.pc # "rejected"
    BY DEF Answers
  <2>2. \A f \in Calls' : f \notin Calls => ~Ending(f, k)
    BY DEF Ending
  <2> QED BY <1>1, <2>1, <2>2, UsersStay
<1>3. \A x : <<k, x>> \in Heard => <<k, x>> \in Heard'
  BY DEF Heard
<1>4. \A f \in Calls : f \notin Calls' => ~Changing(f, k) /\ ~Ending(f, k) /\ f.op # "action"
  BY DEF Changing, Ending
<1>5. \A f \in Calls' : f \notin Calls =>
        ~Changing(f, k)' /\ ~Ending(f, k) /\ f.op # "action" /\ \A j \in Entries : ~Holds(f, j)
  BY DEF Changing, Ending, Holds
<1> QED BY <1>1, <1>2, <1>3, <1>4, <1>5, BesideIdle

LEMMA TimerKeeps ==
    ASSUME TypeInv, TypeInv', RecordInv, NEW k, KeyInv(k), UNCHANGED <<keyOf, acks, subs, handlers, deaf>>,
           UNCHANGED stack \/ YieldReturns
    PROVE  KeyInv(k)'
<1>1. CASE UNCHANGED stack
  <2>1. Calls' = Calls
    BY <1>1 DEF Calls
  <2>2. TimeOutAlone(k)'
    BY <1>1, <2>1 DEF KeyInv, TimeOutAlone, KeyAt
  <2> QED BY <2>1, <2>2, ReportKeeps
<1>2. CASE YieldReturns
  <2>1. stack # <<>> /\ Top.op = "yield" /\ stack' = Below
    BY <1>2 DEF YieldReturns
  <2>2. \A f : f \in Calls' <=> f.op # "yield" /\ \E p \in DOMAIN stack' : stack'[p] = f
    BY DEF Calls
  <2>3. /\ Len(stack) \in DOMAIN stack /\ Top = stack[Len(stack)]
        /\ \A i \in DOMAIN stack' : i \in DOMAIN stack /\ stack'[i] = stack[i]
        /\ \A i \in DOMAIN stack : i # Len(stack) => i \in DOMAIN stack'
    BY <2>1, TopPlace, Innermost
  <2> HIDE DEF Top
  <2>4. \A f : f \in Calls' <=> f \in Calls
    BY <2>1, <2>2, <2>3, CallPlace
  <2>5. Calls' = Calls
    BY <2>4
  <2>6. TimeOutAlone(k)'
    BY <2>5 DEF KeyInv, TimeOutAlone, KeyAt
  <2> QED BY <2>5, <2>6, ReportKeeps
<1> QED BY <1>1, <1>2

LEMMA YieldKeeps ==
    ASSUME TypeInv, TypeInv', RecordInv, Yield, NEW k, KeyInv(k)
    PROVE  KeyInv(k)'
<1> DEFINE frame == [op |-> "expiring", slot |-> 1, req |-> 0, key |-> NoTopic, pc |-> "scan", entry |-> 0]
<1>1. /\ stack = <<>> /\ stack' = <<frame>> /\ UNCHANGED <<keyOf, acks, subs, handlers, deaf>>
      /\ frame.op = "expiring" /\ frame.pc = "scan"
  BY DEF Yield, mqtt
<1> HIDE DEF frame
<1>2. Calls = {} /\ Calls' = {frame}
  BY <1>1 DEF Calls
<1>3. frame.pc \notin Answers /\ frame.op # "action"
  BY <1>1 DEF Answers
<1>4. TimeOutAlone(k)'
  BY <1>1, <1>2 DEF TimeOutAlone
<1> QED BY <1>1, <1>2, <1>3, <1>4, ReportKeeps

\* The scan is the only call.
LEMMA ScanOnly ==
    ASSUME TypeInv, RecordInv, Scanning
    PROVE  /\ stack # <<>> /\ Top.op = "expiring" /\ Top.pc = "scan" /\ Top \in Reports
           /\ Calls = {Top}
<1>1. stack # <<>> /\ Top.pc = "scan"
  BY DEF Scanning
<1>2. Top.op = "expiring" /\ Top \in Reports
  BY <1>1, TopFacts, FrameFacts DEF ReportOK
<1>3. DOMAIN stack = {1} /\ Top = stack[1]
  BY <1>1, <1>2, ScanAlone
<1> QED BY <1>1, <1>2, <1>3 DEF Calls

LEMMA ExpireKeeps ==
    ASSUME TypeInv, TypeInv', RecordInv, Expire, NEW k, KeyInv(k)
    PROVE  KeyInv(k)'
<1>1. /\ stack # <<>> /\ Top.op = "expiring" /\ Top.pc = "scan" /\ Top \in Reports
      /\ Calls = {Top} /\ UNCHANGED <<keyOf, acks, subs, handlers, deaf>>
  BY ScanOnly DEF Expire, mqtt
<1>2. PICK i \in Slots : /\ ~acks[i].free
                         /\ stack' = Replace([Top EXCEPT !.slot = i, !.req = acks[i].req, !.pc = "callback"])
  BY DEF Expire, Least, Due
<1> DEFINE frame == [Top EXCEPT !.slot = i, !.req = acks[i].req, !.pc = "callback"]
<1>3. acks[i].req \in 0..MaxCalls /\ i \in 1..NumAcks + 1
  BY TypeFacts, ShadowAssumption DEF Record, Slots
<1>4. frame \in Frames /\ frame.op = "expiring" /\ frame.pc = "callback" /\ frame.slot = i
  BY <1>1, <1>3 DEF Reports, Frames
<1>5. stack' = Replace(frame)
  BY <1>2
<1> HIDE DEF frame
<1>6. Calls' = {frame}
  BY <1>1, <1>4, <1>5, CallsReplaced
<1>7. TimeOutAlone(k)'
  BY <1>1, <1>2, <1>4, <1>6 DEF TimeOutAlone
<1>8. frame.pc \notin Answers /\ Top.pc \notin Answers
  BY <1>1, <1>4 DEF Answers
<1> QED BY <1>1, <1>4, <1>6, <1>7, <1>8, ReportKeeps

LEMMA ScanEndsKeeps ==
    ASSUME TypeInv, TypeInv', RecordInv, ScanEnds, NEW k, KeyInv(k)
    PROVE  KeyInv(k)'
<1>1. /\ stack # <<>> /\ Top.op = "expiring" /\ Top.pc = "scan" /\ Top \in Reports
      /\ Calls = {Top} /\ UNCHANGED <<keyOf, acks, subs, handlers, deaf>>
  BY ScanOnly DEF ScanEnds, mqtt
<1> DEFINE frame == [op |-> "yield", pc |-> "yield"]
<1>2. frame \in Frames /\ frame.op = "yield" /\ stack' = Replace(frame)
  BY DEF Frames, Yields, ScanEnds
<1> HIDE DEF frame
<1>3. Calls' = {}
  BY <1>1, <1>2, CallsPopped
<1>4. Top.pc \notin Answers
  BY <1>1 DEF Answers
<1>5. TimeOutAlone(k)'
  BY <1>3 DEF TimeOutAlone
<1> QED BY <1>1, <1>3, <1>4, <1>5, ReportKeeps

\* The answer comes while no time-out of its record is being reported.
LEMMA ReadAnswerKeeps ==
    ASSUME TypeInv, TypeInv', RecordInv, NEW r \in Requests, NEW status \in Answers,
           ReadAnswer(r, status), NEW k, k \notin troubled', KeyInv(k)
    PROVE  /\ KeyInv(k)'
           /\ \E f : /\ Calls' = Calls \union {f} /\ f.op = "answered" /\ f.key = keyOf'[f.req]
                     /\ f.pc = "callback"
<1>1. PICK i \in Slots :
        /\ ~acks[i].free /\ acks[i].req = r
        /\ stack' = Append(stack, [op |-> "answered", slot |-> i, req |-> r, key |-> keyOf[r],
                                   pc |-> "callback", entry |-> 0])
        /\ troubled' = IF TimingOut(i) THEN troubled \union {keyOf[r]} ELSE troubled
  BY DEF ReadAnswer, Matches, Least
<1> DEFINE frame == [op |-> "answered", slot |-> i, req |-> r, key |-> keyOf[r],
                     pc |-> "callback", entry |-> 0]
<1>2. UNCHANGED <<keyOf, acks, subs, handlers, deaf>>
  BY DEF ReadAnswer, mqtt
<1>3. r \in DOMAIN keyOf /\ keyOf[r] \in Keys
  BY <1>1, RecordFacts, TypeFacts
<1>4. frame \in Frames
  <2>1. r \in 0..MaxCalls /\ i \in 1..NumAcks + 1 /\ 0 \in 0..NumTopics
    BY ShadowAssumption DEF Requests, Slots
  <2> QED BY <1>3, <2>1 DEF Reports, Frames
<1>5. stack' = Append(stack, frame) /\ frame.op = "answered" /\ frame.pc = "callback" /\ frame.slot = i
      /\ frame.key = keyOf[r] /\ frame.req = r
  BY <1>1
<1> HIDE DEF frame
<1>6. Calls' = Calls \union {frame}
  BY <1>4, <1>5, CallsPushed
<1>7. TimeOutAlone(k)'
  <2> SUFFICES ASSUME NEW f \in Calls', f.op = "expiring", f.pc = "callback", KeyAt(f.slot)' = k
               PROVE  ~acks'[f.slot].free /\ \A g \in Calls' : ~(g.op = "answered" /\ g.slot = f.slot)
    BY DEF TimeOutAlone
  <2>1. f \in Calls /\ KeyAt(f.slot) = k
    BY <1>2, <1>5, <1>6 DEF KeyAt
  <2>2. ~acks[f.slot].free /\ \A g \in Calls : ~(g.op = "answered" /\ g.slot = f.slot)
    BY <2>1 DEF KeyInv, TimeOutAlone
  <2>3. f.slot # i
    <3> SUFFICES ASSUME f.slot = i PROVE FALSE
      OBVIOUS
    <3>1. PICK p \in DOMAIN stack : stack[p] = f
      BY <2>1, CallPlace
    <3>2. TimingOut(i)
      BY <3>1 DEF TimingOut
    <3>3. keyOf[r] = k
      BY <1>1, <2>1 DEF KeyAt
    <3> QED BY <1>1, <3>2, <3>3
  <2> QED BY <1>2, <1>5, <1>6, <2>2, <2>3
<1>8. KeyInv(k)'
  <2>1. frame.pc \notin Answers
    BY <1>5 DEF Answers
  <2> QED BY <1>2, <1>5, <1>6, <1>7, <2>1, ReportKeeps
<1> QED BY <1>2, <1>5, <1>6, <1>8

----------------------------------------------------------------------------
(* A callback returns.                                                     *)

LEMMA CallbackGoes ==
    ASSUME TypeInv, RecordInv, CallbackReturns
    PROVE  /\ stack # <<>> /\ Top \in Calls /\ Top.op \in {"answered", "expiring"} /\ Top.pc = "callback"
           /\ Top.slot \in Slots
           /\ UNCHANGED <<keyOf, subs, handlers, deaf>> /\ KeysKept
           /\ \E g : /\ Calls' = (Calls \ {Top}) \union {g}
                     /\ g.op = Top.op /\ g.slot = Top.slot /\ g.req = Top.req /\ g.pc = "accepted"
                     /\ g.key = KeyAt(Top.slot) /\ g.entry = 0
<1>1. stack # <<>> /\ Top.pc = "callback" /\ UNCHANGED <<keyOf, subs, handlers, deaf>>
  BY DEF CallbackReturns, mqtt
<1>2. Top \in Reports /\ ReportOK(Top) /\ Top.op \in {"answered", "expiring"}
  BY <1>1, TopFacts, FrameFacts
<1>3. Top.slot \in Slots /\ Top.entry = 0
  <2>1. Top.entry \in 0..NumTopics /\ ~(Top.entry > 0)
    BY <1>1, <1>2 DEF ReportOK, Reports, Answers
  <2> QED BY <1>1, <1>2, <2>1, ShadowAssumption DEF ReportOK
<1>4. Top \in Calls
  BY <1>1, <1>2, TopCall
<1> DEFINE g == [Top EXCEPT !.pc = "accepted", !.key = KeyAt(Top.slot)]
<1>5. KeyAt(Top.slot) \in Keys
  BY <1>1, CallbackKey
<1>6. /\ g \in Frames /\ g.op = Top.op /\ g.slot = Top.slot /\ g.req = Top.req /\ g.pc = "accepted"
      /\ g.key = KeyAt(Top.slot) /\ g.entry = 0
  BY <1>2, <1>3, <1>5 DEF Reports, Frames, Answers
<1>7. stack' = Replace(g)
  BY DEF CallbackReturns
<1> HIDE DEF g
<1>8. Calls' = (Calls \ {Top}) \union {g}
  BY <1>1, <1>2, <1>6, <1>7, CallsReplaced
<1>9. KeysKept
  BY <1>1 DEF KeysKept
<1> QED BY <1>1, <1>2, <1>3, <1>4, <1>6, <1>8, <1>9

\* A time-out is reported outside of every other call; its record is freed.
LEMMA TimeOutOnly ==
    ASSUME TypeInv, RecordInv, CallbackReturns, Top.op = "expiring"
    PROVE  /\ Calls = {Top}
           /\ \A i \in Slots : i # Top.slot => acks'[i] = acks[i]
           /\ acks'[Top.slot].free
<1>1. /\ stack # <<>> /\ Top.slot \in Slots
      /\ acks' = [acks EXCEPT ![Top.slot] = NoRecord]
  BY CallbackGoes DEF CallbackReturns
<1>2. DOMAIN stack = {1} /\ Top = stack[1]
  BY <1>1, ScanAlone
<1>3. Calls = {Top}
  BY <1>2 DEF Calls
<1> QED BY <1>1, <1>3, TypeFacts DEF NoRecord

\* What is left of the time-outs being reported.
LEMMA CallbackTimeOut ==
    ASSUME TypeInv, RecordInv, CallbackReturns, NEW k, KeyInv(k)
    PROVE  TimeOutAlone(k)'
<1>1. PICK g : /\ Calls' = (Calls \ {Top}) \union {g}
               /\ g.op = Top.op /\ g.slot = Top.slot /\ g.req = Top.req /\ g.pc = "accepted"
               /\ g.key = KeyAt(Top.slot) /\ g.entry = 0
  BY CallbackGoes
<1>2. Top \in Calls /\ Top.op \in {"answered", "expiring"} /\ KeysKept
  BY CallbackGoes
<1>3. CASE Top.op = "expiring"
  BY <1>1, <1>3, TimeOutOnly DEF TimeOutAlone
<1>4. CASE Top.op = "answered"
  <2>1. UNCHANGED acks
    BY <1>4 DEF CallbackReturns
  <2> QED BY <1>1, <1>2, <1>4, <2>1, TimeOutKept DEF KeyInv
<1> QED BY <1>2, <1>3, <1>4

LEMMA CallbackBeside ==
    ASSUME TypeInv, TypeInv', RecordInv, CallbackReturns, NEW k, KeyAt(Top.slot) # k, KeyInv(k)
    PROVE  KeyInv(k)'
<1>1. PICK g : /\ Calls' = (Calls \ {Top}) \union {g}
               /\ g.op = Top.op /\ g.slot = Top.slot /\ g.req = Top.req /\ g.pc = "accepted"
               /\ g.key = KeyAt(Top.slot) /\ g.entry = 0
  BY CallbackGoes
<1>2. /\ Top.op \in {"answered", "expiring"} /\ Top.pc = "callback" /\ Top.slot \in Slots
      /\ UNCHANGED <<keyOf, subs, handlers, deaf>> /\ KeysKept
  BY CallbackGoes
<1>3. TimeOutAlone(k)'
  BY CallbackTimeOut
<1>4. \A i \in Slots : acks'[i].free \/ acks'[i] = acks[i]
  <2>1. CASE Top.op = "expiring"
    BY <2>1, TimeOutOnly
  <2>2. CASE Top.op = "answered"
    BY <2>2 DEF CallbackReturns
  <2> QED BY <1>2, <2>1, <2>2
<1> HIDE DEF Top
<1>5. ~Ending(g, k) /\ ~Changing(g, k)' /\ g.op # "action" /\ \A j \in Entries : ~Holds(g, j)
  BY <1>1, <1>2 DEF Ending, Changing, Holds, Entries
<1>6. ~Ending(Top, k) /\ ~Changing(Top, k) /\ Top.op # "action"
  BY <1>2 DEF Ending, Changing, Answers
<1>7. FewerUsers(k)
  BY <1>1, <1>2, <1>4, <1>5, UsersStay
<1>8. \A x : <<k, x>> \in Heard => <<k, x>> \in Heard'
  BY <1>2 DEF Heard
<1> QED BY <1>1, <1>2, <1>3, <1>5, <1>6, <1>7, <1>8, BesideIdle

\* A call that releases the subscriptions, or reports, is the innermost one, or it waits.
LEMMA Waiting ==
    ASSUME TypeInv, Nested, NEW f \in Calls, NEW k, Ending(f, k), f.entry = 0
    PROVE  f = Top /\ stack # <<>>
<1>1. PICK p \in DOMAIN stack : stack[p] = f
  BY CallPlace
<1>2. f.pc # "callback" /\ ~Exchanging(f)
  BY DEF Ending, Exchanging, Answers
<1>3. ~(p < Len(stack))
  BY <1>1, <1>2 DEF Nested
<1>4. p \in Nat /\ p <= Len(stack) /\ Len(stack) \in Nat /\ stack # <<>>
  BY FrameTypes, TypeFacts
<1>5. p = Len(stack)
  BY <1>3, <1>4
<1> QED BY <1>1, <1>4, <1>5 DEF Top

\* The record of the callback counts, and so does the call that goes on.
LEMMA CallbackCounts ==
    ASSUME TypeInv, RecordInv, Keyed, CallbackReturns, NEW k, KeyAt(Top.slot) = k, KeyInv(k)
    PROVE  \A x \in Answers : Top.slot \in Users(k, x)
<1>1. /\ Top \in Calls /\ Top.op \in {"answered", "expiring"} /\ Top.pc = "callback" /\ Top.slot \in Slots
  BY CallbackGoes
<1>2. ~acks[Top.slot].free
  <2>1. CASE Top.op = "answered"
    BY <1>1, <2>1, AnswerRecord
  <2>2. CASE Top.op = "expiring"
    BY <1>1, <2>2 DEF KeyInv, TimeOutAlone
  <2> QED BY <1>1, <2>1, <2>2
<1>3. ASSUME Passed(Top.slot) PROVE FALSE
  <2>1. PICK f \in Calls : f.op = "answered" /\ f.slot = Top.slot /\ f.pc = "rejected"
    BY <1>3 DEF Passed
  <2>2. CASE Top.op = "answered"
    BY <1>1, <2>1, <2>2, CallsApart DEF Token
  <2>3. CASE Top.op = "expiring"
    BY <1>1, <2>1, <2>3 DEF KeyInv, TimeOutAlone
  <2> QED BY <1>1, <2>2, <2>3
<1>4. \A x \in Answers : Top.slot \in Waiters(k, x)
  BY <1>1, <1>2, <1>3 DEF Waiters
<1> QED BY <1>1, <1>4, UserFacts

LEMMA CallbackFewer ==
    ASSUME TypeInv, TypeInv', RecordInv, Keyed, CallbackReturns, NEW k, KeyAt(Top.slot) = k, KeyInv(k)
    PROVE  FewerUsers(k)
<1>1. PICK g : /\ Calls' = (Calls \ {Top}) \union {g}
               /\ g.op = Top.op /\ g.slot = Top.slot /\ g.req = Top.req /\ g.pc = "accepted"
               /\ g.key = KeyAt(Top.slot) /\ g.entry = 0
  BY CallbackGoes
<1>2. /\ Top.op \in {"answered", "expiring"} /\ Top.pc = "callback" /\ Top.slot \in Slots
      /\ KeysKept
  BY CallbackGoes
<1>3. CASE Top.op = "answered"
  <2>1. UNCHANGED acks
    BY <1>3 DEF CallbackReturns
  <2>2. g.op = "answered"
    BY <1>1, <1>3
  <2> HIDE DEF Top
  <2> QED BY <1>1, <1>2, <2>1, <2>2, UsersStay
<1>4. CASE Top.op = "expiring"
  <2>1. PICK s : s = Top.slot
    OBVIOUS
  <2>2. /\ \A i \in Slots : i # s => acks'[i] = acks[i]
        /\ acks'[s].free
    BY <1>4, <2>1, TimeOutOnly
  <2>3. \A x \in Answers : s \in Users(k, x)
    BY <2>1, CallbackCounts
  <2>4. g.op = "expiring" /\ Top.pc # "rejected" /\ g.op # "action"
    BY <1>1, <1>2, <1>4
  <2> HIDE DEF Top
  <2>5. \A x, i : i \in Waiters(k, x)' => i \in Waiters(k, x) /\ i # s
    <3>1. \A x, i : i \in Waiters(k, x)' => i \in Waiters(k, x)
      <4>1. \A i \in Slots : acks'[i].free \/ acks'[i] = acks[i] \/ KeyAt(i)' # k
        BY <2>2
      <4>2. \A f \in Calls : f.op = "answered" /\ f.pc = "rejected" /\ f.slot \in Slots /\ f \notin Calls'
                              => acks'[f.slot].free
        BY <1>1, <2>4
      <4> QED BY <1>2, <4>1, <4>2, WaitersStay
    <3> QED BY <2>2, <3>1 DEF Waiters
  <2>6. Publishing(k)' => Publishing(k)
    BY <1>1, <1>2, <2>4, PublishingStays
  <2>7. ASSUME NEW x \in Answers PROVE Users(k, x)' \subseteq (Users(k, x) \ {s}) \union {0}
    <3> SUFFICES ASSUME NEW u \in Users(k, x)', u # 0 PROVE u \in Users(k, x) /\ u # s
      OBVIOUS
    <3>1. u \in 0..NumAcks + 1
      BY DEF Users
    <3>2. u \in Waiters(k, x)' \/ (u = NumAcks + 1 /\ Publishing(k)')
      BY DEF Users
    <3>3. NumAcks + 1 # s
      BY <1>2, <2>1, UserFacts
    <3> QED BY <2>5, <2>6, <3>1, <3>2, <3>3 DEF Users
  <2> QED BY <2>3, <2>7, UsersFewer
<1> QED BY <1>2, <1>3, <1>4

LEMMA CallbackOwn ==
    ASSUME TypeInv, TypeInv', RecordInv, Nested, Keyed, CallbackReturns,
           NEW k, KeyAt(Top.slot) = k, KeyInv(k)
    PROVE  KeyInv(k)'
<1>1. PICK g : /\ Calls' = (Calls \ {Top}) \union {g}
               /\ g.op = Top.op /\ g.slot = Top.slot /\ g.req = Top.req /\ g.pc = "accepted"
               /\ g.key = KeyAt(Top.slot) /\ g.entry = 0
  BY CallbackGoes
<1>2. /\ Top \in Calls /\ Top.op \in {"answered", "expiring"} /\ Top.pc = "callback" /\ Top.slot \in Slots
      /\ UNCHANGED <<keyOf, subs, handlers, deaf>> /\ KeysKept
  BY CallbackGoes
<1>3. FewerUsers(k) /\ TimeOutAlone(k)'
  BY CallbackFewer, CallbackTimeOut
<1>4. \A x \in Answers : Top.slot \in Users(k, x)
  BY CallbackCounts
<1>5. "accepted" \in Answers /\ "rejected" \in Answers
  BY DEF Answers
<1>6. (\A f \in Calls : ~Changing(f, k)) /\ Settled(k) /\ ~Absent(k)
  BY <1>4, <1>5, UsersSettle
<1>7. \A j \in Entries : ~Half(k, j)
  BY <1>4, <1>5 DEF Half
<1>8. \A i, j \in Entries : ~Between(k, i, j)
  <2> SUFFICES ASSUME NEW f \in Calls, Ending(f, k), f.entry = 0 PROVE FALSE
    BY DEF Between
  <2>1. f = Top
    BY Waiting
  <2> QED BY <1>2, <2>1 DEF Ending, Answers
<1>9. PICK i, j \in Entries : Both(k, i, j)
  BY <1>6, <1>7, <1>8 DEF Settled
<1> HIDE DEF Top
<1>10. /\ \A f \in Calls' : f.op = "action" => f \in Calls
       /\ \A f \in Calls : f.op = "action" => f \in Calls'
  BY <1>1, <1>2
<1>11. \A e : Stale(e, k)' <=> Stale(e, k)
  BY <1>2, <1>10 DEF Stale
<1>12. \A x, e : Mine(k, x, e)' <=> Mine(k, x, e)
  BY <1>2, <1>11 DEF Mine
<1>13. ListKept(k)
  BY <1>2, <1>12 DEF ListKept, Heard
<1>14. Good(k, "accepted", i)' /\ Good(k, "rejected", j)'
  BY <1>3, <1>5, <1>9, <1>13, GoodKept DEF Both
<1>15. \A f \in Calls' : f # g => f \in Calls
  BY <1>1
<1>16. Both(k, i, j)'
  <2>1. ASSUME NEW f \in Calls', Ending(f, k)
        PROVE  f.pc = "accepted" /\ (f.entry > 0 => f.entry = i /\ subs[i].count = 1 /\ ~subs[i].sticky)
    BY <1>1, <1>9, <1>15, <2>1 DEF Both
  <2> QED BY <1>2, <1>9, <1>14, <2>1 DEF Both
<1>17. \A f \in Calls' : ~Changing(f, k)'
  BY <1>2, <1>6, <1>10 DEF Changing
<1>18. Reserved(k)'
  <2>1. ASSUME NEW f \in Calls', NEW e \in Entries, Holds(f, e) PROVE f \in Calls
    BY <1>1, <1>2, <1>15, <2>1 DEF Holds, Entries
  <2>2. \A f : FrameKey(f)' = FrameKey(f)
    BY <1>2 DEF FrameKey
  <2> QED BY <1>12, <2>1, <2>2 DEF KeyInv, Reserved
<1>19. TopicOwn(k)'
  BY <1>2, <1>10 DEF KeyInv, TopicOwn
<1> QED BY <1>3, <1>16, <1>17, <1>18, <1>19 DEF KeyInv, Settled

----------------------------------------------------------------------------
(* The subscriptions are released: the last one that counts unsubscribes.  *)

LEMMA ReleasingCall ==
    ASSUME TypeInv, RecordInv, Releasing
    PROVE  /\ stack # <<>> /\ Top \in Calls /\ Top.op \in {"answered", "expiring"} /\ Top.pc \in Answers
           /\ Top \in Reports /\ Top.slot \in Slots /\ Top.key \in Keys /\ Top.entry \in 0..NumTopics
           /\ Top.entry > 0 => Top.entry \in Entries
           /\ Ending(Top, Top.key) /\ FrameKey(Top) = Top.key
<1>1. stack # <<>> /\ Top.op \in {"answered", "expiring"} /\ Top.pc \in Answers
  BY DEF Releasing
<1>2. Top \in Reports /\ ReportOK(Top)
  BY <1>1, TopFacts
<1>3. Top.slot \in Slots /\ Top.key \in Keys /\ Top.entry \in 0..NumTopics
  BY <1>1, <1>2 DEF ReportOK, Reports, Answers
<1>4. Top \in Calls
  BY <1>1, TopCall
<1>5. Top.entry > 0 => Top.entry \in Entries
  BY <1>3, ShadowAssumption DEF Entries
<1>6. Ending(Top, Top.key) /\ FrameKey(Top) = Top.key
  BY <1>1 DEF Ending, FrameKey
<1> QED BY <1>1, <1>2, <1>3, <1>4, <1>5, <1>6

\* The entry found is the only one that is in use for the key.
LEMMA FoundOnly ==
    ASSUME TypeInv, NEW k, NEW x \in Answers, NEW i \in Entries, Only(k, x, i)
    PROVE  \A j \in Entries : Found(<<k, x>>, j) <=> j = i
<1>1. ~subs[i].free /\ subs[i].topic = <<k, x>> /\ \A e \in Entries : e < i => subs[e].topic # <<k, x>>
  BY DEF Only, Mine, First
<1>2. ASSUME NEW j \in Entries, Found(<<k, x>>, j) PROVE j = i
  <2>1. j \in {e \in Entries : ~subs[e].free /\ subs[e].topic = <<k, x>>} /\ j <= i
    BY <1>1, <1>2 DEF Found, Least
  <2> QED BY <1>1, <2>1 DEF Entries
<1>3. Found(<<k, x>>, i)
  BY <1>1 DEF Found, Least, Entries
<1> QED BY <1>2, <1>3

\* Whoever is being released counts, so that the subscriptions are there: both of
\* them for the first answer, for the second one both or only the second.
LEMMA ReleaseStage ==
    ASSUME TypeInv, RecordInv, Nested, Keyed, Releasing, NEW k, Top.key = k, KeyInv(k)
    PROVE  /\ \A f \in Calls : ~Changing(f, k)
           /\ Token(Top) \in Users(k, Top.pc) /\ Token(Top) \in Users(k, "rejected")
           /\ Top.pc = "accepted" => \E i, j \in Entries : Both(k, i, j)
           /\ Top.pc = "rejected" => \/ \E i, j \in Entries : Between(k, i, j)
                                     \/ \E j \in Entries : Half(k, j)
<1>1. Top \in Calls /\ Ending(Top, k) /\ Top.pc \in Answers
  BY ReleasingCall
<1>2. Token(Top) \in Users(k, "rejected") /\ Token(Top) \in Users(k, Top.pc)
  BY <1>1, EnderCounts DEF Answers
<1>3. (\A f \in Calls : ~Changing(f, k)) /\ Settled(k) /\ ~Absent(k)
  BY <1>2, UsersSettle DEF Answers
<1>4. ASSUME Top.pc = "accepted" PROVE \E i, j \in Entries : Both(k, i, j)
  <2>1. \A j \in Entries : ~Half(k, j)
    BY <1>2, <1>4 DEF Half
  <2>2. \A i, j \in Entries : ~Between(k, i, j)
    <3> SUFFICES ASSUME NEW f \in Calls, Ending(f, k), f.entry = 0, f.pc = "rejected" PROVE FALSE
      BY DEF Between
    <3>1. f = Top
      BY Waiting
    <3> QED BY <1>4, <3>1
  <2> QED BY <1>3, <2>1, <2>2 DEF Settled
<1>5. ASSUME Top.pc = "rejected"
      PROVE  (\E i, j \in Entries : Between(k, i, j)) \/ \E j \in Entries : Half(k, j)
  <2>1. \A i, j \in Entries : ~Both(k, i, j)
    BY <1>1, <1>5 DEF Both
  <2> QED BY <1>3, <2>1 DEF Settled
<1> QED BY <1>2, <1>3, <1>4, <1>5

LEMMA UnsubscribeGoes ==
    ASSUME TypeInv, RecordInv, Unsubscribe
    PROVE  /\ Releasing /\ Top.entry = 0 /\ KeysKept /\ UNCHANGED <<keyOf, acks, subs, handlers, deaf>>
           /\ \E j \in Entries :
                /\ Found(<<Top.key, Top.pc>>, j) /\ ~subs[j].sticky /\ subs[j].count = 1
                /\ troubled' = troubled \union KeysOf(Holders(j))
                /\ \E g : /\ Calls' = (Calls \ {Top}) \union {g} /\ g # Top
                          /\ g.op = Top.op /\ g.slot = Top.slot /\ g.req = Top.req /\ g.pc = Top.pc
                          /\ g.key = Top.key /\ g.entry = j
<1>1. Releasing /\ Top.entry = 0 /\ UNCHANGED <<keyOf, acks, subs, handlers, deaf>>
  BY DEF Unsubscribe, mqtt
<1>2. KeysKept
  BY <1>1 DEF KeysKept
<1>3. PICK j \in Entries :
         /\ Found(<<Top.key, Top.pc>>, j) /\ ~subs[j].sticky /\ subs[j].count = 1
         /\ stack' = Replace([Top EXCEPT !.entry = j])
         /\ troubled' = troubled \union KeysOf(Holders(j))
  BY DEF Unsubscribe
<1> DEFINE g == [Top EXCEPT !.entry = j]
<1>4. stack # <<>> /\ Top \in Reports /\ Top.op \in {"answered", "expiring"}
  BY <1>1, ReleasingCall
<1>5. j \in 0..NumTopics /\ j # 0
  BY ShadowAssumption DEF Entries
<1>6. /\ g \in Frames /\ g.op = Top.op /\ g.slot = Top.slot /\ g.req = Top.req /\ g.pc = Top.pc
      /\ g.key = Top.key /\ g.entry = j
  BY <1>4, <1>5 DEF Reports, Frames
<1>7. stack' = Replace(g)
  BY <1>3
<1> HIDE DEF g
<1>8. Calls' = (Calls \ {Top}) \union {g}
  BY <1>4, <1>6, <1>7, CallsReplaced
<1>9. g # Top
  BY <1>1, <1>5, <1>6
<1> QED BY <1>1, <1>2, <1>3, <1>6, <1>8, <1>9

\* The call goes on, and counts as before.
LEMMA SameUsers ==
    ASSUME UNCHANGED <<keyOf, acks>>, NEW g, Calls' = (Calls \ {Top}) \union {g}, Top \in Calls,
           Top.op \in {"answered", "expiring"},
           g.op = Top.op, g.slot = Top.slot, g.pc = Top.pc, g.key = Top.key
    PROVE  \A k, x : Users(k, x)' = Users(k, x)
<1> PICK t : t = Top
  OBVIOUS
<1> HIDE DEF Top
<1>1. \A i : Passed(i)' <=> Passed(i)
  BY DEF Passed
<1>2. \A k, x : Waiters(k, x)' = Waiters(k, x)
  BY <1>1 DEF Waiters, KeyAt
<1>3. \A k, x : Expiring(k, x)' <=> Expiring(k, x)
  BY DEF Expiring, Ending
<1>4. \A k : Publishing(k)' <=> Publishing(k)
  <2>1. Top.op # "action" /\ g.op # "action"
    OBVIOUS
  <2> QED BY <2>1 DEF Publishing
<1> QED BY <1>2, <1>3, <1>4 DEF Users

LEMMA UnsubscribeBeside ==
    ASSUME TypeInv, TypeInv', RecordInv, Unsubscribe, NEW k, k \notin troubled', Top.key # k, KeyInv(k)
    PROVE  KeyInv(k)'
<1>1. Releasing /\ KeysKept /\ UNCHANGED <<keyOf, acks, subs, handlers, deaf>>
  BY UnsubscribeGoes
<1>2. PICK j \in Entries :
         /\ Found(<<Top.key, Top.pc>>, j)
         /\ troubled' = troubled \union KeysOf(Holders(j))
         /\ \E g : /\ Calls' = (Calls \ {Top}) \union {g} /\ g # Top
                   /\ g.op = Top.op /\ g.slot = Top.slot /\ g.req = Top.req /\ g.pc = Top.pc
                   /\ g.key = Top.key /\ g.entry = j
  BY UnsubscribeGoes
<1>3. PICK g : /\ Calls' = (Calls \ {Top}) \union {g} /\ g # Top
               /\ g.op = Top.op /\ g.slot = Top.slot /\ g.req = Top.req /\ g.pc = Top.pc
               /\ g.key = Top.key /\ g.entry = j
  BY <1>2
<1>4. Top \in Calls /\ Top.op \in {"answered", "expiring"} /\ Top.pc \in Answers
  BY <1>1, ReleasingCall
<1>5. FewerUsers(k)
  <2>1. \A x : Users(k, x)' = Users(k, x)
    BY <1>1, <1>3, <1>4, SameUsers
  <2> QED BY <2>1, UsersFewer
<1>6. TimeOutAlone(k)'
  <2>1. \A f \in Calls' : f.op = "expiring" /\ f.pc = "callback" => f \in Calls
    BY <1>3, <1>4 DEF Answers
  <2>2. \A f \in Calls' : f.op = "answered" => \E h \in Calls : h.op = "answered" /\ h.slot = f.slot
    BY <1>3, <1>4
  <2> QED BY <1>1, <2>1, <2>2, TimeOutKept DEF KeyInv
<1>7. subs[j].topic = <<Top.key, Top.pc>>
  BY <1>2 DEF Found, Least
<1> DEFINE J == {j}
<1>8. \A x : <<k, x>> \in Heard => <<k, x>> \in Heard'
  BY <1>1 DEF Heard
<1> HIDE DEF Top
<1>9. \A e \in Entries : e \in J =>
        /\ \A x \in Answers : /\ ~Mine(k, x, e) /\ ~Mine(k, x, e)'
                              /\ subs'[e].topic = <<k, x>> => subs[e].topic = <<k, x>>
        /\ \A h \in Calls : Changing(h, k) /\ h.pc \in Answers => e # h.a /\ e # h.b
  <2>1. ASSUME NEW h \in Calls, Changing(h, k), j = h.a \/ j = h.b PROVE FALSE
    <3>1. Holds(h, j) /\ FrameKey(h) = k
      BY <2>1 DEF Changing, Holds, FrameKey
    <3>2. k \in KeysOf(Holders(j))
      BY <3>1, HolderSeen
    <3> QED BY <1>2, <3>2
  <2>2. \A x : ~Mine(k, x, j) /\ ~Mine(k, x, j)'
    BY <1>1, <1>7 DEF Mine
  <2> QED BY <1>1, <2>1, <2>2
<1>10. ~Changing(Top, k) /\ ~Ending(Top, k) /\ Top.op # "action"
  BY <1>4 DEF Changing, Ending
<1>11. ~Changing(g, k)' /\ ~Ending(g, k) /\ g.op # "action" /\ \A e \in Entries : Holds(g, e) => e \in J
  BY <1>3, <1>4 DEF Changing, Ending, Holds
<1> HIDE DEF J
<1>12. \A f \in Calls : f \notin Calls' => ~Changing(f, k) /\ ~Ending(f, k)
  BY <1>3, <1>10
<1>13. \A f \in Calls' : f \notin Calls =>
         /\ ~Changing(f, k)' /\ ~Ending(f, k)
         /\ \A e \in Entries : Holds(f, e) => e \in J
         /\ f.op = "action" /\ f.pc \in Answers \union {"undo"} => subs'[f.a].topic \notin {k} \X Answers
  BY <1>3, <1>11
<1>14. \A f : ~(f \in Calls <=> f \in Calls') /\ f.op = "action" /\ f.pc \in {"accepted", "undo"} => f.b \notin Entries \ J
  BY <1>3, <1>10, <1>11
<1>15. \A e \in Entries : e \notin J =>
         /\ subs'[e].topic = subs[e].topic /\ subs'[e].free = subs[e].free
         /\ subs[e].topic \in {k} \X Answers => subs'[e] = subs[e]
  BY <1>1
<1> QED BY <1>1, <1>5, <1>6, <1>8, <1>9, <1>12, <1>13, <1>14, <1>15, Beside

LEMMA UnsubscribeOwn ==
    ASSUME TypeInv, TypeInv', RecordInv, Nested, Keyed, Unsubscribe, NEW k, Top.key = k, KeyInv(k)
    PROVE  KeyInv(k)'
<1>1. Releasing /\ KeysKept /\ UNCHANGED <<keyOf, acks, subs, handlers, deaf>>
  BY UnsubscribeGoes
<1>2. PICK e \in Entries :
         /\ Found(<<Top.key, Top.pc>>, e) /\ ~subs[e].sticky /\ subs[e].count = 1
         /\ \E g : /\ Calls' = (Calls \ {Top}) \union {g} /\ g # Top
                   /\ g.op = Top.op /\ g.slot = Top.slot /\ g.req = Top.req /\ g.pc = Top.pc
                   /\ g.key = Top.key /\ g.entry = e
  BY UnsubscribeGoes
<1>3. PICK g : /\ Calls' = (Calls \ {Top}) \union {g} /\ g # Top
               /\ g.op = Top.op /\ g.slot = Top.slot /\ g.req = Top.req /\ g.pc = Top.pc
               /\ g.key = Top.key /\ g.entry = e
  BY <1>2
<1>4. Top \in Calls /\ Top.op \in {"answered", "expiring"} /\ Top.pc \in Answers /\ Ending(Top, k)
  BY <1>1, ReleasingCall
<1>5. /\ \A f \in Calls : ~Changing(f, k)
      /\ Top.pc = "accepted" => \E i, j \in Entries : Both(k, i, j)
      /\ Top.pc = "rejected" => \/ \E i, j \in Entries : Between(k, i, j)
                                \/ \E j \in Entries : Half(k, j)
  BY <1>1, ReleaseStage
<1>6. \A x : Users(k, x)' = Users(k, x)
  BY <1>1, <1>3, <1>4, SameUsers
<1>7. FewerUsers(k)
  BY <1>6, UsersFewer
<1>8. TimeOutAlone(k)'
  <2>1. \A f \in Calls' : f.op = "expiring" /\ f.pc = "callback" => f \in Calls
    BY <1>3, <1>4 DEF Answers
  <2>2. \A f \in Calls' : f.op = "answered" => \E h \in Calls : h.op = "answered" /\ h.slot = f.slot
    BY <1>3, <1>4
  <2> QED BY <1>1, <2>1, <2>2, TimeOutKept DEF KeyInv
<1>9. \A f : f.op = "action" => (f \in Calls' <=> f \in Calls)
  BY <1>3, <1>4
<1>10. \A j : Stale(j, k)' <=> Stale(j, k)
  BY <1>1, <1>9 DEF Stale
<1>11. \A x, j : Mine(k, x, j)' <=> Mine(k, x, j)
  BY <1>1, <1>10 DEF Mine
<1>12. ListKept(k)
  BY <1>1, <1>11 DEF ListKept, Heard
<1> PICK t : t = Top
  OBVIOUS
<1> HIDE DEF Top
<1>13. Ending(g, k)
  BY <1>3, <1>4 DEF Ending
<1>14. "accepted" \in Answers /\ "rejected" \in Answers
  BY DEF Answers
<1>15. ASSUME t.pc = "accepted" PROVE Settled(k)'
  <2>1. PICK i, j \in Entries : Both(k, i, j)
    BY <1>5, <1>15
  <2>2. Good(k, "accepted", i)' /\ Good(k, "rejected", j)'
    BY <1>7, <1>12, <1>14, <2>1, GoodKept DEF Both
  <2>3. e = i
    BY <1>2, <1>14, <1>15, <2>1, FoundOnly DEF Both, Good
  <2>4. ASSUME NEW f \in Calls', Ending(f, k)
        PROVE  f.pc = "accepted" /\ (f.entry > 0 => f.entry = i /\ subs[i].count = 1 /\ ~subs[i].sticky)
    <3>1. CASE f = g
      BY <1>2, <1>3, <1>15, <2>3, <3>1
    <3>2. CASE f # g
      BY <1>3, <2>1, <2>4, <3>2 DEF Both
    <3> QED BY <3>1, <3>2
  <2>5. Both(k, i, j)'
    BY <1>1, <2>1, <2>2, <2>4 DEF Both
  <2> QED BY <2>5 DEF Settled
<1>16. ASSUME t.pc = "rejected" PROVE Settled(k)'
  <2>1. ASSUME NEW i \in Entries, NEW j \in Entries, Between(k, i, j) PROVE FALSE
    <3>1. e = j
      BY <1>2, <1>14, <1>16, <2>1, FoundOnly DEF Between, Good
    <3>2. subs[i].count \in Nat /\ subs[i].count > 0
      BY <2>1, CountTyped DEF Between, Good
    <3> QED BY <1>2, <2>1, <3>1, <3>2 DEF Between
  <2>2. PICK j \in Entries : Half(k, j)
    BY <1>5, <1>16, <2>1
  <2>3. Good(k, "rejected", j)'
    BY <1>7, <1>12, <1>14, <2>2, GoodKept DEF Half
  <2>4. e = j
    BY <1>2, <1>14, <1>16, <2>2, FoundOnly DEF Half, Good
  <2>5. EndsAlone(k, Top)
    BY <1>4, <2>2 DEF Half, EndsAlone
  <2>6. EndsAlone(k, g)'
    BY <1>3, <2>5 DEF EndsAlone
  <2>7. (\A i \in Entries : ~Mine(k, "accepted", i)') /\ Users(k, "accepted")' = {}
    BY <1>6, <1>11, <2>2 DEF Half
  <2>8. g \in Calls' /\ Ending(g, k) /\ g.pc = "rejected" /\ g.entry \in {0, j}
    BY <1>3, <1>13, <1>16, <2>4
  <2>9. Half(k, j)'
    BY <1>1, <2>2, <2>3, <2>6, <2>7, <2>8 DEF Half
  <2> QED BY <2>9 DEF Settled
<1>17. Settled(k)'
  BY <1>4, <1>15, <1>16 DEF Answers
<1>18. \A f \in Calls' : ~Changing(f, k)'
  BY <1>1, <1>5, <1>9 DEF Changing
<1>19. Reserved(k)'
  <2>1. FrameKey(g)' = k
    BY <1>3, <1>4 DEF FrameKey
  <2>2. \A f : FrameKey(f)' = FrameKey(f)
    BY <1>1 DEF FrameKey
  <2>3. \A f \in Calls' : f # g => f \in Calls
    BY <1>3
  <2> QED BY <1>11, <2>1, <2>2, <2>3 DEF KeyInv, Reserved
<1>20. TopicOwn(k)'
  BY <1>1, <1>9 DEF KeyInv, TopicOwn
<1> QED BY <1>8, <1>17, <1>18, <1>19, <1>20 DEF KeyInv

----------------------------------------------------------------------------
(* A release goes on to the second answer, or is over.                     *)

LEMMA AdvanceGoes ==
    ASSUME TypeInv, RecordInv, Releasing, Advance
    PROVE  \/ /\ UNCHANGED acks
              /\ \E g : /\ Calls' = (Calls \ {Top}) \union {g} /\ g # Top
                        /\ g.op = Top.op /\ g.slot = Top.slot /\ g.key = Top.key /\ g.req = Top.req
                        /\ g.entry = 0 /\ Top.pc = "accepted" /\ g.pc = "rejected"
           \/ /\ UNCHANGED acks
              /\ Top.pc = "rejected" /\ Top.op = "expiring"
              /\ \E g : /\ Calls' = (Calls \ {Top}) \union {g} /\ g # Top
                        /\ g.op = "expiring" /\ g.pc = "scan"
           \/ /\ Calls' = Calls \ {Top} /\ Top.pc = "rejected" /\ Top.op = "answered"
              /\ acks' = [acks EXCEPT ![Top.slot] = Freed(Top.slot)]
<1>1. /\ stack # <<>> /\ Top.op \in {"answered", "expiring"} /\ Top.pc \in Answers
      /\ Top \in Reports /\ Top.slot \in Slots /\ Top.key \in Keys /\ Top.op # "yield"
  BY ReleasingCall
<1>2. CASE Top.pc = "accepted"
  <2> DEFINE g == [Top EXCEPT !.pc = "rejected", !.entry = 0]
  <2>1. /\ g \in Frames /\ g.op = Top.op /\ g.slot = Top.slot /\ g.key = Top.key /\ g.req = Top.req
        /\ g.entry = 0 /\ g.pc = "rejected"
    BY <1>1, ZeroEntry DEF Reports, Frames, Answers
  <2>2. stack' = Replace(g) /\ UNCHANGED acks
    BY <1>2 DEF Advance
  <2>3. g # Top
    BY <1>2, <2>1
  <2> HIDE DEF g
  <2>4. Calls' = (Calls \ {Top}) \union {g}
    BY <1>1, <2>1, <2>2, CallsReplaced
  <2> QED BY <1>2, <2>1, <2>2, <2>3, <2>4
<1>3. CASE Top.pc = "rejected" /\ Top.op = "expiring"
  <2> DEFINE g == [Top EXCEPT !.pc = "scan", !.slot = @ + 1, !.entry = 0]
  <2>1. Top.slot + 1 \in 1..NumAcks + 1
    BY <1>1, ShadowAssumption DEF Slots
  <2>2. g \in Frames /\ g.op = "expiring" /\ g.pc = "scan"
    BY <1>1, <1>3, <2>1, ZeroEntry DEF Reports, Frames, Answers
  <2>3. stack' = Replace(g) /\ UNCHANGED acks
    BY <1>3 DEF Advance
  <2>4. g # Top
    BY <1>3, <2>2
  <2> HIDE DEF g
  <2>5. Calls' = (Calls \ {Top}) \union {g}
    BY <1>1, <2>2, <2>3, CallsReplaced
  <2> QED BY <1>3, <2>2, <2>3, <2>4, <2>5
<1>4. CASE Top.pc = "rejected" /\ Top.op = "answered"
  <2>1. stack' = Below /\ acks' = [acks EXCEPT ![Top.slot] = Freed(Top.slot)]
    BY <1>4 DEF Advance
  <2>2. Calls' = Calls \ {Top}
    BY <1>1, <2>1, CallsPopped
  <2> QED BY <1>4, <2>1, <2>2
<1> QED BY <1>1, <1>2, <1>3, <1>4 DEF Answers

\* What the step means to any key.
LEMMA AdvanceFacts ==
    ASSUME TypeInv, RecordInv, Releasing, Advance, UNCHANGED keyOf
    PROVE  /\ KeysKept
           /\ \A f \in Calls : f \notin Calls' => f = Top
           /\ Top \notin Calls'
           /\ \A f \in Calls' : f \notin Calls =>
                /\ f.op \in {"answered", "expiring"} /\ f.pc \in {"rejected", "scan"}
                /\ f.op = "answered" => Top.op = "answered" /\ f.slot = Top.slot /\ f.key = Top.key
                                        /\ f.req = Top.req
                /\ f.pc = "rejected" => /\ f.key = Top.key /\ f.op = Top.op /\ Top.pc = "accepted"
                                        /\ f.entry = 0
           /\ \A i \in Slots : /\ acks'[i].free \/ acks'[i] = acks[i]
                               /\ i # Top.slot => acks'[i] = acks[i]
           /\ Top.pc = "rejected" /\ Top.op = "answered" => acks'[Top.slot].free
           /\ Top.pc = "accepted" \/ Top.op = "expiring" => UNCHANGED acks
           /\ Top.pc = "accepted" =>
                \E g \in Calls' : /\ g \notin Calls /\ g.op = Top.op /\ g.slot = Top.slot /\ g.key = Top.key
                                  /\ g.entry = 0 /\ g.pc = "rejected"
           /\ \A f, g \in Calls' : f \notin Calls /\ g \notin Calls => f = g
<1>1. /\ Top \in Calls /\ Top.op \in {"answered", "expiring"} /\ Top.pc \in Answers /\ Top.slot \in Slots
  BY ReleasingCall
<1>2. KeysKept
  BY DEF KeysKept
<1>3. acks \in [Slots -> Record] /\ Freed(Top.slot).free
  BY <1>1, FreedTyped, TypeFacts
<1> PICK t, s : t = Top /\ s = Freed(Top.slot)
  OBVIOUS
<1>4. \/ /\ UNCHANGED acks
         /\ \E g : /\ Calls' = (Calls \ {Top}) \union {g} /\ g # Top
                   /\ g.op = Top.op /\ g.slot = Top.slot /\ g.key = Top.key /\ g.req = Top.req
                   /\ g.entry = 0 /\ Top.pc = "accepted" /\ g.pc = "rejected"
      \/ /\ UNCHANGED acks
         /\ Top.pc = "rejected" /\ Top.op = "expiring"
         /\ \E g : /\ Calls' = (Calls \ {Top}) \union {g} /\ g # Top
                   /\ g.op = "expiring" /\ g.pc = "scan"
      \/ /\ Calls' = Calls \ {Top} /\ Top.pc = "rejected" /\ Top.op = "answered"
         /\ acks' = [acks EXCEPT ![Top.slot] = s]
  BY AdvanceGoes
<1>5. s.free
  BY <1>3
<1> HIDE DEF Top
<1>6. CASE /\ UNCHANGED acks
           /\ \E g : /\ Calls' = (Calls \ {Top}) \union {g} /\ g # Top
                     /\ g.op = Top.op /\ g.slot = Top.slot /\ g.key = Top.key /\ g.req = Top.req
                     /\ g.entry = 0 /\ Top.pc = "accepted" /\ g.pc = "rejected"
  <2>1. PICK g : /\ Calls' = (Calls \ {Top}) \union {g} /\ g # Top
                 /\ g.op = Top.op /\ g.slot = Top.slot /\ g.key = Top.key /\ g.req = Top.req
                 /\ g.entry = 0 /\ Top.pc = "accepted" /\ g.pc = "rejected"
    BY <1>6
  <2>2. g \notin Calls
    <3> SUFFICES ASSUME g \in Calls PROVE FALSE
      OBVIOUS
    <3>1. Token(g) = Token(Top)
      BY <2>1 DEF Token
    <3> QED BY <1>1, <2>1, <3>1, CallsApart
  <2> QED BY <1>1, <1>2, <1>6, <2>1, <2>2
<1>7. CASE /\ UNCHANGED acks
           /\ Top.pc = "rejected" /\ Top.op = "expiring"
           /\ \E g : /\ Calls' = (Calls \ {Top}) \union {g} /\ g # Top
                     /\ g.op = "expiring" /\ g.pc = "scan"
  <2>1. PICK g : /\ Calls' = (Calls \ {Top}) \union {g} /\ g # Top
                 /\ g.op = "expiring" /\ g.pc = "scan"
    BY <1>7
  <2> QED BY <1>1, <1>2, <1>7, <2>1
<1>8. CASE /\ Calls' = Calls \ {Top} /\ Top.pc = "rejected" /\ Top.op = "answered"
           /\ acks' = [acks EXCEPT ![Top.slot] = s]
  <2>1. \A i \in Slots : acks'[i] = IF i = Top.slot THEN s ELSE acks[i]
    BY <1>3, <1>8
  <2>2. Top.slot \in Slots
    BY <1>1
  <2>3. \A i \in Slots : /\ acks'[i].free \/ acks'[i] = acks[i]
                         /\ i # Top.slot => acks'[i] = acks[i]
    BY <1>5, <2>1
  <2>4. acks'[Top.slot].free
    BY <1>5, <2>1, <2>2
  <2> QED BY <1>1, <1>2, <1>8, <2>3, <2>4
<1> QED BY <1>4, <1>6, <1>7, <1>8

\* A record that is freed while its time-out is being reported keeps its key.
LEMMA AdvanceTimeOut ==
    ASSUME TypeInv, RecordInv, Releasing, Advance, UNCHANGED keyOf, NEW k, KeyInv(k)
    PROVE  TimeOutAlone(k)'
<1>1. /\ Top \in Calls /\ Top.op \in {"answered", "expiring"} /\ Top.pc \in Answers /\ Top.slot \in Slots
      /\ stack # <<>>
  BY ReleasingCall
<1>2. /\ KeysKept
      /\ \A f \in Calls : f \notin Calls' => f = Top
      /\ Top \notin Calls'
      /\ \A f \in Calls' : f \notin Calls =>
                /\ f.op \in {"answered", "expiring"} /\ f.pc \in {"rejected", "scan"}
                /\ f.op = "answered" => Top.op = "answered" /\ f.slot = Top.slot
      /\ \A i \in Slots : i # Top.slot => acks'[i] = acks[i]
      /\ Top.pc = "accepted" \/ Top.op = "expiring" => UNCHANGED acks
  BY AdvanceFacts
<1>3. CASE Top.pc = "accepted" \/ Top.op = "expiring"
  <2>1. UNCHANGED acks
    BY <1>2, <1>3
  <2> HIDE DEF Top
  <2>2. \A f \in Calls' : f.op = "expiring" /\ f.pc = "callback" => f \in Calls
    BY <1>2
  <2>3. \A f \in Calls' : f.op = "answered" => \E g \in Calls : g.op = "answered" /\ g.slot = f.slot
    BY <1>1, <1>2
  <2> QED BY <1>2, <2>1, <2>2, <2>3, TimeOutKept DEF KeyInv
<1>4. CASE Top.pc = "rejected" /\ Top.op = "answered"
  <2>1. PICK t : t = Top
    OBVIOUS
  <2>2. acks' = [acks EXCEPT ![Top.slot] = Freed(Top.slot)]
    BY <1>4 DEF Advance
  <2> SUFFICES ASSUME NEW f \in Calls', f.op = "expiring", f.pc = "callback", KeyAt(f.slot)' = k
               PROVE  ~acks'[f.slot].free /\ \A g \in Calls' : ~(g.op = "answered" /\ g.slot = f.slot)
    BY DEF TimeOutAlone
  <2>3. f \in Calls /\ f # Top
    BY <1>2
  <2>4. f.slot \in Slots
    BY <2>3, CallTypes DEF ReportOK
  <2>5. KeyAt(f.slot) = k
    <3>1. CASE f.slot # Top.slot
      BY <1>2, <2>4, <3>1 DEF KeyAt
    <3>2. CASE f.slot = Top.slot
      <4>1. PICK p \in DOMAIN stack : stack[p] = f
        BY <2>3, CallPlace
      <4>2. p # Len(stack) /\ p \in 1..Len(stack)
        BY <2>3, <4>1, TopPlace, FrameTypes DEF Top
      <4>3. p \in 1..Len(stack) - 1
        BY <1>1, <4>2, TopPlace
      <4>4. Freed(Top.slot) = [acks[Top.slot] EXCEPT !.free = TRUE]
        BY <3>2, <4>1, <4>3 DEF Freed
      <4>5. acks'[Top.slot].req = acks[Top.slot].req
        BY <1>1, <2>2, <4>4, TypeFacts DEF Record
      <4> QED BY <3>2, <4>5 DEF KeyAt
    <3> QED BY <3>1, <3>2
  <2>6. ~acks[f.slot].free /\ \A g \in Calls : ~(g.op = "answered" /\ g.slot = f.slot)
    BY <2>3, <2>5 DEF KeyInv, TimeOutAlone
  <2>7. f.slot # Top.slot
    BY <1>1, <1>4, <2>6
  <2>8. acks'[f.slot] = acks[f.slot]
    BY <1>2, <2>4, <2>7
  <2>9. \A g \in Calls' : ~(g.op = "answered" /\ g.slot = f.slot)
    BY <1>2, <2>6, <2>7
  <2> QED BY <2>6, <2>8, <2>9
<1> QED BY <1>1, <1>3, <1>4 DEF Answers

\* Whoever counts after the step counted before it.
LEMMA AdvanceUsers ==
    ASSUME TypeInv, RecordInv, Releasing, Advance, UNCHANGED keyOf, NEW k
    PROVE  (\A x \in Answers : Users(k, x)' \subseteq Users(k, x)) /\ FewerUsers(k)
<1>1. /\ Top \in Calls /\ Top.op \in {"answered", "expiring"} /\ Top.pc \in Answers
  BY ReleasingCall
<1>2. /\ KeysKept
      /\ \A f \in Calls : f \notin Calls' => f = Top
      /\ \A f \in Calls' : f \notin Calls =>
                /\ f.op \in {"answered", "expiring"} /\ f.pc \in {"rejected", "scan"}
                /\ f.pc = "rejected" => f.key = Top.key /\ f.op = Top.op /\ Top.pc = "accepted"
      /\ \A i \in Slots : acks'[i].free \/ acks'[i] = acks[i]
      /\ Top.pc = "rejected" /\ Top.op = "answered" => acks'[Top.slot].free
  BY AdvanceFacts
<1>3. \A f \in Calls : f.op = "answered" /\ f.pc = "rejected" /\ f.slot \in Slots /\ f \notin Calls' => acks'[f.slot].free
  <2> SUFFICES ASSUME NEW f \in Calls, f.op = "answered", f.pc = "rejected", f \notin Calls'
               PROVE  acks'[f.slot].free
    OBVIOUS
  <2>1. f = Top
    BY <1>2
  <2> QED BY <1>2, <2>1
<1> HIDE DEF Top
<1>4. \A x, i : i \in Waiters(k, x)' => i \in Waiters(k, x)
  BY <1>2, <1>3, WaitersStay
<1>5. Publishing(k)' => Publishing(k)
  BY <1>2, PublishingStays
<1>6. ASSUME NEW x \in Answers, Expiring(k, x)' PROVE Expiring(k, x)
  <2>1. PICK f \in Calls' : f.op = "expiring" /\ Ending(f, k) /\ (x = "accepted" => f.pc = "accepted")
    BY <1>6 DEF Expiring
  <2>2. CASE f \in Calls
    BY <2>1, <2>2 DEF Expiring
  <2>3. CASE f \notin Calls
    <3>1. f.pc = "rejected" /\ f.key = k
      BY <1>2, <2>1, <2>3 DEF Ending, Answers
    <3>2. Top.key = k /\ Top.op = "expiring" /\ Top.pc = "accepted"
      BY <1>2, <2>1, <2>3, <3>1
    <3> QED BY <1>1, <3>2 DEF Expiring, Ending
  <2> QED BY <2>2, <2>3
<1>7. ASSUME NEW x \in Answers PROVE Users(k, x)' \subseteq Users(k, x)
  BY <1>4, <1>5, <1>6, UsersWithin
<1> QED BY <1>7, UsersFewer

\* The call itself does not count any more for what it has released.
LEMMA AdvanceCounts ==
    ASSUME TypeInv, RecordInv, Releasing, Advance, UNCHANGED keyOf, NEW k, Top.key = k,
           NEW x, x = Top.pc
    PROVE  Token(Top) \notin Users(k, x)'
<1>1. /\ Top \in Calls /\ Top.op \in {"answered", "expiring"} /\ Top.pc \in Answers /\ Top.slot \in Slots
  BY ReleasingCall
<1>2. /\ Top \notin Calls'
      /\ \A f \in Calls' : f \notin Calls =>
                /\ f.op \in {"answered", "expiring"} /\ f.pc \in {"rejected", "scan"}
                /\ f.pc = "rejected" => f.key = Top.key /\ f.op = Top.op /\ Top.pc = "accepted"
      /\ Top.pc = "rejected" /\ Top.op = "answered" => acks'[Top.slot].free
      /\ Top.pc = "accepted" =>
                \E g \in Calls' : /\ g \notin Calls /\ g.op = Top.op /\ g.slot = Top.slot /\ g.key = Top.key
                                  /\ g.entry = 0 /\ g.pc = "rejected"
  BY AdvanceFacts
<1> PICK s : s = Top.slot
  OBVIOUS
<1> HIDE DEF Top
<1>3. CASE Top.op = "answered"
  <2>1. s \notin Waiters(k, x)'
    <3>1. CASE Top.pc = "rejected"
      BY <1>2, <1>3, <3>1 DEF Waiters
    <3>2. CASE Top.pc = "accepted"
      <4>1. Passed(s)'
        BY <1>2, <1>3, <3>2 DEF Passed
      <4> QED BY <3>2, <4>1 DEF Waiters
    <3> QED BY <1>1, <3>1, <3>2 DEF Answers
  <2>2. s \notin Users(k, x)'
    BY <1>1, <2>1, UserFactsAfter
  <2> QED BY <1>3, <2>2 DEF Token
<1>4. CASE Top.op = "expiring"
  <2>1. ~Expiring(k, x)'
    <3> SUFFICES ASSUME NEW f \in Calls', f.op = "expiring", Ending(f, k), x = "accepted" => f.pc = "accepted"
                 PROVE  FALSE
      BY DEF Expiring
    <3>1. CASE f \in Calls
      <4>1. f = Top
        BY <1>1, <1>4, <3>1, CallsApart DEF Token
      <4> QED BY <1>2, <4>1
    <3>2. CASE f \notin Calls
      <4>1. f.pc = "rejected" /\ Top.pc = "accepted"
        BY <1>2, <3>2 DEF Ending, Answers
      <4> QED BY <4>1
    <3> QED BY <3>1, <3>2
  <2>2. 0 \notin Users(k, x)'
    BY <2>1, UserFactsAfter
  <2> QED BY <1>4, <2>2 DEF Token
<1> QED BY <1>1, <1>3, <1>4

----------------------------------------------------------------------------
(* Others count, or the subscription is sticky: its count is taken down.   *)

LEMMA ReleaseBeside ==
    ASSUME TypeInv, TypeInv', RecordInv, Release, NEW k, Top.key # k, KeyInv(k)
    PROVE  KeyInv(k)'
<1>1. Releasing /\ Advance /\ UNCHANGED <<keyOf, handlers, deaf>> /\ Top.entry = 0
  BY DEF Release, mqtt
<1>2. Top \in Calls /\ Top.op \in {"answered", "expiring"} /\ Top.pc \in Answers
  BY <1>1, ReleasingCall
<1>3. /\ KeysKept
      /\ \A f \in Calls : f \notin Calls' => f = Top
      /\ \A f \in Calls' : f \notin Calls =>
           /\ f.op \in {"answered", "expiring"} /\ f.pc \in {"rejected", "scan"}
           /\ f.pc = "rejected" => f.key = Top.key /\ f.entry = 0
  BY <1>1, AdvanceFacts
<1>4. FewerUsers(k) /\ TimeOutAlone(k)'
  BY <1>1, AdvanceUsers, AdvanceTimeOut
<1>5. PICK kk, x : kk = Top.key /\ x = Top.pc
  OBVIOUS
<1>6. UNCHANGED subs \/ \E j \in Entries : /\ subs[j].topic = <<kk, x>>
                                           /\ subs' = [subs EXCEPT ![j].count = @ - 1]
  BY <1>5 DEF Release, Found, Least
<1> HIDE DEF Top
<1>7. \A e \in Entries :
        /\ subs'[e].topic = subs[e].topic /\ subs'[e].free = subs[e].free
        /\ subs[e].topic \in {k} \X Answers => subs'[e] = subs[e]
  <2>1. CASE UNCHANGED subs
    BY <2>1
  <2>2. ASSUME NEW j \in Entries, subs[j].topic = <<kk, x>>, subs' = [subs EXCEPT ![j].count = @ - 1]
        PROVE  \A e \in Entries :
                 /\ subs'[e].topic = subs[e].topic /\ subs'[e].free = subs[e].free
                 /\ subs[e].topic \in {k} \X Answers => subs'[e] = subs[e]
    <3>1. subs \in [Entries -> Entry]
      BY TypeFacts
    <3> QED BY <1>5, <2>2, <3>1 DEF Entry
  <2> QED BY <1>6, <2>1, <2>2
<1>8. ~Changing(Top, k) /\ ~Ending(Top, k) /\ Top.op # "action"
  BY <1>2 DEF Changing, Ending
<1>9. \A f \in Calls' : f \notin Calls =>
        /\ ~Changing(f, k)' /\ ~Ending(f, k)
        /\ \A j \in Entries : ~Holds(f, j)
        /\ f.op # "action"
  BY <1>3 DEF Changing, Ending, Holds, Answers, Entries
<1>10. \A y : <<k, y>> \in Heard => <<k, y>> \in Heard'
  BY <1>1 DEF Heard
<1>11. \A f \in Calls : f \notin Calls' => ~Changing(f, k) /\ ~Ending(f, k) /\ f.op # "action"
  BY <1>3, <1>8
<1> QED BY <1>3, <1>4, <1>7, <1>9, <1>10, <1>11, BesideIdle

\* What the key that is released is left with, but for its subscriptions.
LEMMA ReleaseLeaves ==
    ASSUME TypeInv, RecordInv, Nested, Keyed, Releasing, Advance, UNCHANGED keyOf,
           NEW k, Top.key = k, KeyInv(k),
           \A e \in Entries : subs'[e].topic = subs[e].topic /\ (subs[e].free => subs'[e].free)
    PROVE  /\ \A f \in Calls' : ~Changing(f, k)'
           /\ Reserved(k)' /\ TopicOwn(k)' /\ TimeOutAlone(k)'
           /\ \A x, e : e \in Entries /\ Mine(k, x, e)' => Mine(k, x, e)
           /\ \A x \in Answers, e \in Entries : Mine(k, x, e) /\ subs'[e].free = subs[e].free => Mine(k, x, e)'
           /\ Top.pc = "accepted" =>
                \E g \in Calls' : g \notin Calls /\ Ending(g, k) /\ g.pc = "rejected" /\ g.entry = 0
           /\ \A g \in Calls' : g \notin Calls /\ Ending(g, k) => Top.pc = "accepted"
           /\ \A f \in Calls' : f \in Calls => f # Top
           /\ \A f, g \in Calls' : f \notin Calls /\ g \notin Calls => f = g
<1>1. /\ Top \in Calls /\ Top.op \in {"answered", "expiring"} /\ Top.pc \in Answers
  BY ReleasingCall
<1>2. /\ KeysKept
      /\ \A f \in Calls : f \notin Calls' => f = Top
      /\ Top \notin Calls'
      /\ \A f \in Calls' : f \notin Calls =>
           /\ f.op \in {"answered", "expiring"} /\ f.pc \in {"rejected", "scan"}
           /\ f.pc = "rejected" => f.key = Top.key /\ f.op = Top.op /\ Top.pc = "accepted" /\ f.entry = 0
      /\ Top.pc = "accepted" =>
           \E g \in Calls' : /\ g \notin Calls /\ g.op = Top.op /\ g.slot = Top.slot /\ g.key = Top.key
                             /\ g.entry = 0 /\ g.pc = "rejected"
      /\ \A f, g \in Calls' : f \notin Calls /\ g \notin Calls => f = g
  BY AdvanceFacts
<1>3. TimeOutAlone(k)'
  BY AdvanceTimeOut
<1>4. \A f \in Calls : ~Changing(f, k)
  BY ReleaseStage
<1> HIDE DEF Top
<1>5. \A f : f.op = "action" => (f \in Calls' <=> f \in Calls)
  BY <1>1, <1>2
<1>6. \A f \in Calls' : ~Changing(f, k)'
  BY <1>4, <1>5 DEF Changing
<1>7. \A e : Stale(e, k)' <=> Stale(e, k)
  BY <1>5 DEF Stale
<1>8. \A x, e : e \in Entries /\ Mine(k, x, e)' => Mine(k, x, e)
  BY <1>7 DEF Mine
<1>9. \A x \in Answers, e \in Entries : Mine(k, x, e) /\ subs'[e].free = subs[e].free => Mine(k, x, e)'
  BY <1>7 DEF Mine
<1>10. \A f \in Calls', e \in Entries : Holds(f, e) => f \in Calls
  BY <1>2 DEF Holds, Answers, Entries
<1>11. \A f : FrameKey(f)' = FrameKey(f)
  BY DEF FrameKey
<1>12. Reserved(k)'
  BY <1>8, <1>10, <1>11 DEF KeyInv, Reserved
<1>13. TopicOwn(k)'
  <2> SUFFICES ASSUME NEW f \in Calls', f.op = "action", f.pc \in Answers \union {"undo"},
                      subs'[f.a].topic \in {k} \X Answers
               PROVE  keyOf'[f.req] = k
    BY DEF TopicOwn
  <2>1. f \in Calls
    BY <1>5
  <2>2. f.a \in Entries
    BY <2>1, CallTypes
  <2>3. subs[f.a].topic \in {k} \X Answers
    BY <2>2
  <2> QED BY <2>1, <2>3 DEF KeyInv, TopicOwn
<1>14. Top.pc = "accepted" =>
         \E g \in Calls' : g \notin Calls /\ Ending(g, k) /\ g.pc = "rejected" /\ g.entry = 0
  BY <1>1, <1>2 DEF Ending, Answers
<1>15. \A g \in Calls' : g \notin Calls /\ Ending(g, k) => Top.pc = "accepted"
  BY <1>2 DEF Ending, Answers
<1> QED BY <1>2, <1>3, <1>6, <1>8, <1>9, <1>12, <1>13, <1>14, <1>15

\* A subscription that somebody still counts in, or that is sticky.
LEMMA GoodLeft ==
    ASSUME TypeInv, NEW k, NEW x \in Answers, NEW j \in Entries, Good(k, x, j),
           \A e \in Entries : subs'[e].topic = subs[e].topic /\ subs'[e].free = subs[e].free,
           \A y, e : e \in Entries /\ Mine(k, y, e)' => Mine(k, y, e),
           Mine(k, x, j)', <<k, x>> \in Heard', subs'[j].count > 0,
           Cardinality(Users(k, x)') <= subs'[j].count
    PROVE  Good(k, x, j)'
BY DEF Good, Only, First

LEMMA ReleaseOwn ==
    ASSUME TypeInv, TypeInv', RecordInv, Nested, Keyed, Release, NEW k, Top.key = k, KeyInv(k)
    PROVE  KeyInv(k)'
<1>1. Releasing /\ Advance /\ UNCHANGED <<keyOf, handlers, deaf>> /\ Top.entry = 0
  BY DEF Release, mqtt
<1>2. Top \in Calls /\ Top.op \in {"answered", "expiring"} /\ Top.pc \in Answers /\ Ending(Top, k)
  BY <1>1, ReleasingCall
<1>3. PICK t, x : t = Token(Top) /\ x = Top.pc
  OBVIOUS
<1>4. /\ t \in Users(k, x) /\ t \notin Users(k, x)' /\ x \in Answers
      /\ \A y \in Answers : Users(k, y)' \subseteq Users(k, y)
  <2>1. t \in Users(k, x)
    BY <1>1, <1>3, ReleaseStage
  <2>2. t \notin Users(k, x)'
    BY <1>1, <1>3, AdvanceCounts
  <2> QED BY <1>1, <1>2, <1>3, <2>1, <2>2, AdvanceUsers
<1>5. \A y \in Answers : /\ Cardinality(Users(k, y)) \in Nat /\ Cardinality(Users(k, y)') \in Nat
                         /\ Cardinality(Users(k, y)') <= Cardinality(Users(k, y))
                         /\ y = x => Cardinality(Users(k, y)') <= Cardinality(Users(k, y)) - 1
  <2> SUFFICES ASSUME NEW y \in Answers
               PROVE  /\ Cardinality(Users(k, y)) \in Nat /\ Cardinality(Users(k, y)') \in Nat
                      /\ Cardinality(Users(k, y)') <= Cardinality(Users(k, y))
                      /\ y = x => Cardinality(Users(k, y)') <= Cardinality(Users(k, y)) - 1
    OBVIOUS
  <2>1. IsFiniteSet(Users(k, y))
    BY UsersFinite
  <2>2. Cardinality(Users(k, y)) \in Nat /\ Cardinality(Users(k, y)') \in Nat
        /\ Cardinality(Users(k, y)') <= Cardinality(Users(k, y))
    BY <1>4, <2>1, SmallerSet
  <2>3. ASSUME y = x PROVE Cardinality(Users(k, y)') <= Cardinality(Users(k, y)) - 1
    <3>1. Users(k, y)' \subseteq Users(k, y) \ {t} /\ t \in Users(k, y)
      BY <1>4, <2>3
    <3> QED BY <2>1, <3>1, OneLess
  <2> QED BY <2>2, <2>3
\* The entry found, and what is made of it.
<1>6. ASSUME NEW e \in Entries, Only(k, x, e), <<k, x>> \in Heard
      PROVE  /\ subs[e].sticky \/ subs[e].count # 1
             /\ subs' = IF subs[e].count > 1 THEN [subs EXCEPT ![e].count = @ - 1] ELSE subs
  <2>1. \A j \in Entries : Found(<<k, x>>, j) <=> j = e
    BY <1>4, <1>6, FoundOnly
  <2>2. PICK j \in Entries :
          /\ Found(<<Top.key, Top.pc>>, j)
          /\ subs[j].sticky \/ subs[j].count # 1 \/ <<Top.key, Top.pc>> \notin handlers
          /\ subs' = IF subs[j].count > 1 THEN [subs EXCEPT ![j].count = @ - 1] ELSE subs
    BY <1>3, <2>1 DEF Release
  <2>3. j = e
    BY <1>3, <2>1, <2>2
  <2>4. <<Top.key, Top.pc>> \in handlers
    BY <1>3, <1>6 DEF Heard
  <2> QED BY <2>2, <2>3, <2>4
<1>7. subs \in [Entries -> Entry] /\ \A e \in Entries : subs[e].count \in Nat
  BY TypeFacts, CountTyped
<1>8. \A e \in Entries : subs'[e].topic = subs[e].topic /\ subs'[e].free = subs[e].free
  <2>1. UNCHANGED subs \/ \E j \in Entries : subs' = [subs EXCEPT ![j].count = @ - 1]
    BY DEF Release
  <2> QED BY <1>7, <2>1 DEF Entry
<1>9. \A e \in Entries : subs'[e].topic = subs[e].topic /\ (subs[e].free => subs'[e].free)
  BY <1>8
<1>10. /\ \A f \in Calls' : ~Changing(f, k)'
       /\ Reserved(k)' /\ TopicOwn(k)' /\ TimeOutAlone(k)'
       /\ \A y, e : e \in Entries /\ Mine(k, y, e)' => Mine(k, y, e)
       /\ \A y \in Answers, e \in Entries : Mine(k, y, e) /\ subs'[e].free = subs[e].free => Mine(k, y, e)'
       /\ Top.pc = "accepted" =>
            \E g \in Calls' : g \notin Calls /\ Ending(g, k) /\ g.pc = "rejected" /\ g.entry = 0
       /\ \A g \in Calls' : g \notin Calls /\ Ending(g, k) => Top.pc = "accepted"
       /\ \A f \in Calls' : f \in Calls => f # Top
       /\ \A f, g \in Calls' : f \notin Calls /\ g \notin Calls => f = g
  BY <1>1, <1>9, ReleaseLeaves
<1>11. /\ Top.pc = "accepted" => \E i, j \in Entries : Both(k, i, j)
       /\ Top.pc = "rejected" => \/ \E i, j \in Entries : Between(k, i, j)
                                 \/ \E j \in Entries : Half(k, j)
  BY <1>1, ReleaseStage
<1>12. \A y : <<k, y>> \in Heard => <<k, y>> \in Heard'
  BY <1>1 DEF Heard
<1>13. "accepted" \in Answers /\ "rejected" \in Answers
  BY DEF Answers
<1>14. ASSUME x = "accepted" PROVE Settled(k)'
  <2>1. PICK i, j \in Entries : Both(k, i, j)
    BY <1>3, <1>11, <1>14
  <2>2. Good(k, "accepted", i) /\ Good(k, "rejected", j) /\ subs[i].sticky = subs[j].sticky
        /\ subs[i].count = subs[j].count
    BY <2>1 DEF Both
  <2>3. /\ subs[i].sticky \/ subs[i].count # 1
        /\ subs' = IF subs[i].count > 1 THEN [subs EXCEPT ![i].count = @ - 1] ELSE subs
    BY <1>6, <1>14, <2>2 DEF Good
  <2>4. i # j
    BY <2>2 DEF Good, Only, Mine
  <2>5. subs[i].count > 0
    BY <2>2 DEF Good
  <2>6. /\ subs'[j] = subs[j] /\ subs'[i].sticky = subs[i].sticky
        /\ \/ subs[i].count > 1 /\ subs'[i].count = subs[i].count - 1
           \/ subs[i].count = 1 /\ subs[i].sticky /\ subs'[i].count = 1
    <3>1. CASE subs[i].count > 1
      BY <1>7, <2>3, <2>4, <3>1 DEF Entry
    <3>2. CASE ~(subs[i].count > 1)
      BY <1>7, <2>3, <2>4, <2>5, <3>2 DEF Entry
    <3> QED BY <3>1, <3>2
  <2>7. Good(k, "accepted", i)'
    <3>1. Mine(k, "accepted", i) /\ <<k, "accepted">> \in Heard' /\ Cardinality(Users(k, "accepted")) <= subs[i].count
      BY <1>12, <2>2 DEF Good, Only
    <3>2. Mine(k, "accepted", i)'
      BY <1>8, <1>10, <1>13, <3>1
    <3>3. subs'[i].count > 0 /\ Cardinality(Users(k, "accepted")') <= subs'[i].count
      BY <1>5, <1>7, <1>13, <1>14, <2>6, <3>1
    <3> QED BY <1>8, <1>10, <1>13, <2>2, <3>1, <3>2, <3>3, GoodLeft
  <2>8. Good(k, "rejected", j)'
    <3>1. Mine(k, "rejected", j) /\ <<k, "rejected">> \in Heard' /\ Cardinality(Users(k, "rejected")) <= subs[j].count
          /\ subs[j].count > 0
      BY <1>12, <2>2 DEF Good, Only
    <3>2. Mine(k, "rejected", j)'
      BY <1>8, <1>10, <1>13, <3>1
    <3>3. Cardinality(Users(k, "rejected")') <= subs'[j].count
      BY <1>5, <1>7, <1>13, <2>6, <3>1
    <3> QED BY <1>8, <1>10, <1>13, <2>2, <2>6, <3>1, <3>2, <3>3, GoodLeft
  <2>9. PICK g \in Calls' : g \notin Calls /\ Ending(g, k) /\ g.pc = "rejected" /\ g.entry = 0
    BY <1>3, <1>10, <1>14
  <2>10. ASSUME NEW f \in Calls, Ending(f, k), f # Top PROVE FALSE
    <3>1. f.entry > 0 => subs[i].count = 1 /\ ~subs[i].sticky
      BY <2>1, <2>10 DEF Both
    <3>2. ~(f.entry > 0)
      BY <2>3, <3>1
    <3>3. f.entry \in 0..NumTopics
      BY <2>10, CallTypes DEF Ending, Reports
    <3>4. f.entry = 0
      BY <3>2, <3>3, ShadowAssumption
    <3> QED BY <2>10, <3>4, Waiting
  <2>11. EndsAlone(k, g)'
    <3> SUFFICES ASSUME NEW f \in Calls', Ending(f, k) PROVE f = g
      BY DEF EndsAlone
    <3>1. f \notin Calls
      BY <1>10, <2>10
    <3> QED BY <1>10, <2>9, <3>1
  <2>12. \/ subs'[j].count = subs'[i].count + 1
         \/ subs'[i].sticky /\ subs'[i].count = 1 /\ subs'[j].count = 1
    BY <1>7, <2>2, <2>6
  <2>13. Between(k, i, j)'
    BY <2>2, <2>6, <2>7, <2>8, <2>9, <2>11, <2>12 DEF Between
  <2> QED BY <2>13 DEF Settled
<1>15. ASSUME x = "rejected" PROVE Settled(k)'
  <2>1. ASSUME NEW j \in Entries, Half(k, j) PROVE FALSE
    BY <1>6, <1>15, <2>1 DEF Half, Good
  <2>2. PICK i, j \in Entries : Between(k, i, j)
    BY <1>3, <1>11, <1>15, <2>1
  <2>3. /\ Good(k, "accepted", i) /\ Good(k, "rejected", j) /\ subs[i].sticky = subs[j].sticky
        /\ \/ subs[j].count = subs[i].count + 1
           \/ subs[i].sticky /\ subs[i].count = 1 /\ subs[j].count = 1
    BY <2>2 DEF Between
  <2>4. /\ subs[j].sticky \/ subs[j].count # 1
        /\ subs' = IF subs[j].count > 1 THEN [subs EXCEPT ![j].count = @ - 1] ELSE subs
    BY <1>6, <1>15, <2>3 DEF Good
  <2>5. i # j
    BY <2>3 DEF Good, Only, Mine
  <2>6. subs[i].count > 0 /\ subs[j].count > 0
    BY <2>3 DEF Good
  <2>7. /\ subs'[i] = subs[i] /\ subs'[j].sticky = subs[j].sticky
        /\ subs'[j].count = subs[i].count
        /\ subs[j].count > 1 => subs'[j].count = subs[j].count - 1
    <3>1. CASE subs[j].count > 1
      BY <1>7, <2>3, <2>4, <2>5, <3>1 DEF Entry
    <3>2. CASE ~(subs[j].count > 1)
      BY <1>7, <2>3, <2>4, <2>5, <2>6, <3>2 DEF Entry
    <3> QED BY <3>1, <3>2
  <2>8. Good(k, "accepted", i)'
    <3>1. Mine(k, "accepted", i) /\ <<k, "accepted">> \in Heard' /\ Cardinality(Users(k, "accepted")) <= subs[i].count
      BY <1>12, <2>3 DEF Good, Only
    <3>2. Mine(k, "accepted", i)'
      BY <1>8, <1>10, <1>13, <3>1
    <3>3. subs'[i].count > 0 /\ Cardinality(Users(k, "accepted")') <= subs'[i].count
      BY <1>5, <1>7, <1>13, <2>6, <2>7, <3>1
    <3> QED BY <1>8, <1>10, <1>13, <2>3, <3>1, <3>2, <3>3, GoodLeft
  <2>9. Good(k, "rejected", j)'
    <3>1. Mine(k, "rejected", j) /\ <<k, "rejected">> \in Heard' /\ Cardinality(Users(k, "rejected")) <= subs[j].count
      BY <1>12, <2>3 DEF Good, Only
    <3>2. Mine(k, "rejected", j)'
      BY <1>8, <1>10, <1>13, <3>1
    <3>3. Cardinality(Users(k, "rejected")') <= subs[j].count - 1
      BY <1>5, <1>7, <1>13, <1>15, <3>1
    <3>4. subs'[j].count > 0 /\ Cardinality(Users(k, "rejected")') <= subs'[j].count
      BY <1>5, <1>7, <1>13, <2>6, <2>7, <3>3
    <3> QED BY <1>8, <1>10, <1>13, <2>3, <3>1, <3>2, <3>4, GoodLeft
  <2>10. EndsAlone(k, Top)
    BY <1>2, <2>2 DEF Between, EndsAlone
  <2>11. \A f \in Calls' : ~Ending(f, k)
    <3> SUFFICES ASSUME NEW f \in Calls', Ending(f, k) PROVE FALSE
      OBVIOUS
    <3>1. f \in Calls
      BY <1>3, <1>10, <1>15
    <3> QED BY <1>10, <2>10, <3>1 DEF EndsAlone
  <2>12. Both(k, i, j)'
    BY <2>3, <2>7, <2>8, <2>9, <2>11 DEF Both
  <2> QED BY <2>12 DEF Settled
<1>16. Settled(k)'
  BY <1>4, <1>14, <1>15 DEF Answers
<1> QED BY <1>10, <1>16 DEF KeyInv

----------------------------------------------------------------------------
(* The unsubscribe is over: the entry is freed if it succeeded.            *)

LEMMA EndsGoes ==
    ASSUME TypeInv, RecordInv, UnsubscribeEnds, NEW kk, kk = Top.key, NEW x, x = Top.pc, NEW e, e = Top.entry
    PROVE  /\ Releasing /\ Advance /\ UNCHANGED keyOf /\ e \in Entries
           /\ Top \in Calls /\ Top.op \in {"answered", "expiring"} /\ x \in Answers /\ FrameKey(Top) = kk
           /\ \/ /\ handlers' = handlers \ {<<kk, x>>} /\ deaf' = deaf \ {<<kk, x>>}
                 /\ subs' = [subs EXCEPT ![e].free = TRUE]
              \/ /\ deaf' \subseteq deaf \union {<<kk, x>>} /\ UNCHANGED <<handlers, subs>>
                 /\ kk \in troubled'
<1>1. Releasing /\ Advance /\ UNCHANGED keyOf /\ Top.entry > 0
  BY DEF UnsubscribeEnds
<1>2. /\ Top \in Calls /\ Top.op \in {"answered", "expiring"} /\ Top.pc \in Answers
      /\ FrameKey(Top) = Top.key /\ Top.entry \in Entries
  BY <1>1, ReleasingCall
<1>3. \/ /\ handlers' = handlers \ {<<kk, x>>} /\ deaf' = deaf \ {<<kk, x>>}
         /\ subs' = [subs EXCEPT ![e].free = TRUE]
      \/ /\ deaf' \subseteq deaf \union {<<kk, x>>} /\ UNCHANGED <<handlers, subs>>
         /\ kk \in troubled'
  BY DEF UnsubscribeEnds, Unsubscribed, UnsubscribeFailed
<1> QED BY <1>1, <1>2, <1>3

LEMMA EndsBeside ==
    ASSUME TypeInv, TypeInv', RecordInv, UnsubscribeEnds, NEW k, Top.key # k, KeyInv(k)
    PROVE  KeyInv(k)'
<1> PICK kk, x, e : kk = Top.key /\ x = Top.pc /\ e = Top.entry
  OBVIOUS
<1>1. /\ Releasing /\ Advance /\ UNCHANGED keyOf /\ e \in Entries
      /\ Top \in Calls /\ Top.op \in {"answered", "expiring"} /\ x \in Answers /\ FrameKey(Top) = kk
      /\ \/ /\ handlers' = handlers \ {<<kk, x>>} /\ deaf' = deaf \ {<<kk, x>>}
            /\ subs' = [subs EXCEPT ![e].free = TRUE]
         \/ deaf' \subseteq deaf \union {<<kk, x>>} /\ UNCHANGED <<handlers, subs>>
  BY EndsGoes
<1>2. /\ KeysKept
      /\ \A f \in Calls : f \notin Calls' => f = Top
      /\ \A f \in Calls' : f \notin Calls =>
           /\ f.op \in {"answered", "expiring"} /\ f.pc \in {"rejected", "scan"}
           /\ f.pc = "rejected" => f.key = Top.key /\ f.entry = 0
  BY <1>1, AdvanceFacts
<1>3. FewerUsers(k) /\ TimeOutAlone(k)'
  BY <1>1, AdvanceUsers, AdvanceTimeOut
<1>4. subs \in [Entries -> Entry]
  BY TypeFacts
<1> DEFINE J == {e}
<1> HIDE DEF Top
<1>5. ASSUME NEW y \in Answers, <<k, y>> \in Heard PROVE <<k, y>> \in Heard'
  BY <1>1, <1>5 DEF Heard
<1>6. Holds(Top, e)
  BY <1>1 DEF Holds
<1>7. /\ \A y \in Answers : ~Mine(k, y, e)
      /\ \A g \in Calls : Changing(g, k) /\ g.pc \in Answers => e # g.a /\ e # g.b
  BY <1>1, <1>6, Elsewhere
<1>8. \A f : f.op = "action" => (f \in Calls' <=> f \in Calls)
  BY <1>1, <1>2
<1>9. \A j : Stale(j, k)' <=> Stale(j, k)
  BY <1>1, <1>8 DEF Stale
<1>10. /\ \A j \in Entries : subs'[j].topic = subs[j].topic /\ (j # e => subs'[j] = subs[j])
       /\ subs[e].free => subs'[e].free
  BY <1>1, <1>4 DEF Entry
<1>11. \A y \in Answers : ~Mine(k, y, e)'
  BY <1>1, <1>7, <1>9, <1>10 DEF Mine
<1>12. \A j \in Entries : j \in J =>
        /\ \A y \in Answers : /\ ~Mine(k, y, j) /\ ~Mine(k, y, j)'
                              /\ subs'[j].topic = <<k, y>> => subs[j].topic = <<k, y>>
        /\ \A g \in Calls : Changing(g, k) /\ g.pc \in Answers => j # g.a /\ j # g.b
  BY <1>7, <1>10, <1>11
<1>13. \A j \in Entries : j \notin J =>
        /\ subs'[j].topic = subs[j].topic /\ subs'[j].free = subs[j].free
        /\ subs[j].topic \in {k} \X Answers => subs'[j] = subs[j]
  BY <1>10
<1> HIDE DEF J
<1>14. ~Changing(Top, k) /\ ~Ending(Top, k)
  BY <1>1 DEF Changing, Ending
<1>15. \A f \in Calls : f \notin Calls' => ~Changing(f, k) /\ ~Ending(f, k)
  BY <1>2, <1>14
<1>16. \A f \in Calls' : f \notin Calls =>
         /\ ~Changing(f, k)' /\ ~Ending(f, k)
         /\ \A j \in Entries : ~Holds(f, j)
         /\ f.op # "action"
  BY <1>2 DEF Changing, Ending, Holds, Answers, Entries
<1>17. \A f \in Calls' : f \notin Calls =>
         /\ ~Changing(f, k)' /\ ~Ending(f, k)
         /\ \A j \in Entries : Holds(f, j) => j \in J
         /\ f.op = "action" /\ f.pc \in Answers \union {"undo"} => subs'[f.a].topic \notin {k} \X Answers
  BY <1>16
<1>18. \A f : ~(f \in Calls <=> f \in Calls') /\ f.op = "action" /\ f.pc \in {"accepted", "undo"} => f.b \notin Entries \ J
  BY <1>8
<1> QED BY <1>2, <1>3, <1>5, <1>12, <1>13, <1>15, <1>17, <1>18, Beside

LEMMA EndsOwn ==
    ASSUME TypeInv, TypeInv', RecordInv, Nested, Keyed, UnsubscribeEnds, NEW k, Top.key = k, k \notin troubled', KeyInv(k)
    PROVE  KeyInv(k)'
<1> PICK x, e, t : x = Top.pc /\ e = Top.entry /\ t = Token(Top)
  OBVIOUS
<1>1. /\ Releasing /\ Advance /\ UNCHANGED keyOf /\ e \in Entries
      /\ Top \in Calls /\ Top.op \in {"answered", "expiring"} /\ x \in Answers
      /\ handlers' = handlers \ {<<k, x>>} /\ deaf' = deaf \ {<<k, x>>}
      /\ subs' = [subs EXCEPT ![e].free = TRUE]
  BY EndsGoes
<1>2. /\ t \in Users(k, x) /\ t \notin Users(k, x)'
      /\ \A y \in Answers : Users(k, y)' \subseteq Users(k, y)
      /\ FewerUsers(k) /\ Ending(Top, k)
  <2>1. t \in Users(k, x)
    BY <1>1, ReleaseStage
  <2>2. t \notin Users(k, x)'
    BY <1>1, AdvanceCounts
  <2> QED BY <1>1, <2>1, <2>2, AdvanceUsers, ReleasingCall
<1>3. subs \in [Entries -> Entry]
  BY TypeFacts
<1>4. /\ \A j \in Entries : subs'[j].topic = subs[j].topic /\ (subs[j].free => subs'[j].free)
                            /\ (j # e => subs'[j] = subs[j])
      /\ subs'[e].free
  BY <1>1, <1>3 DEF Entry
<1>5. /\ \A f \in Calls' : ~Changing(f, k)'
      /\ Reserved(k)' /\ TopicOwn(k)' /\ TimeOutAlone(k)'
      /\ \A y, j : j \in Entries /\ Mine(k, y, j)' => Mine(k, y, j)
      /\ \A y \in Answers, j \in Entries : Mine(k, y, j) /\ subs'[j].free = subs[j].free => Mine(k, y, j)'
      /\ Top.pc = "accepted" =>
           \E g \in Calls' : g \notin Calls /\ Ending(g, k) /\ g.pc = "rejected" /\ g.entry = 0
      /\ \A g \in Calls' : g \notin Calls /\ Ending(g, k) => Top.pc = "accepted"
      /\ \A f \in Calls' : f \in Calls => f # Top
      /\ \A f, g \in Calls' : f \notin Calls /\ g \notin Calls => f = g
  <2>1. \A j \in Entries : subs'[j].topic = subs[j].topic /\ (subs[j].free => subs'[j].free)
    BY <1>4
  <2> QED BY <1>1, <2>1, ReleaseLeaves
<1>6. /\ Top.pc = "accepted" => \E i, j \in Entries : Both(k, i, j)
      /\ Top.pc = "rejected" => \/ \E i, j \in Entries : Between(k, i, j)
                                \/ \E j \in Entries : Half(k, j)
  BY <1>1, ReleaseStage
<1>7. "accepted" \in Answers /\ "rejected" \in Answers
  BY DEF Answers
<1>8. e > 0
  BY <1>1 DEF Entries
\* Nobody else counts, so that nobody does any more.
<1>9. ASSUME Cardinality(Users(k, x)) <= 1 PROVE Users(k, x)' = {}
  <2> SUFFICES ASSUME NEW u \in Users(k, x)' PROVE FALSE
    OBVIOUS
  <2>1. u \in Users(k, x)
    BY <1>1, <1>2
  <2>2. u = t
    BY <1>2, <1>9, <2>1, OneUser, UsersFinite
  <2> QED BY <1>2, <2>2
<1>10. ASSUME x = "accepted" PROVE Settled(k)'
  <2>1. PICK i, j \in Entries : Both(k, i, j)
    BY <1>6, <1>10
  <2>2. e = i /\ subs[i].count = 1 /\ ~subs[i].sticky
    BY <1>1, <1>2, <1>8, <2>1 DEF Both
  <2>3. Good(k, "accepted", i) /\ Good(k, "rejected", j) /\ ~subs[j].sticky /\ subs[j].count = 1
    BY <2>1, <2>2 DEF Both
  <2>4. i # j
    BY <2>3 DEF Good, Only, Mine
  <2>5. Users(k, "accepted")' = {}
    BY <1>9, <1>10, <2>2, <2>3 DEF Good
  <2>6. \A d \in Entries : ~Mine(k, "accepted", d)'
    BY <1>4, <1>5, <2>2, <2>3 DEF Good, Only, Mine
  <2>7. Good(k, "rejected", j)'
    <3>1. Mine(k, "rejected", j)'
      BY <1>4, <1>5, <1>7, <2>2, <2>3, <2>4 DEF Good, Only
    <3>2. <<k, "rejected">> \in Heard'
      BY <1>1, <1>10, <2>3 DEF Good, Heard
    <3>3. Cardinality(Users(k, "rejected")') \in Nat /\ Cardinality(Users(k, "rejected")) \in Nat
          /\ Cardinality(Users(k, "rejected")') <= Cardinality(Users(k, "rejected"))
      BY <1>2, <1>7, UsersFinite DEF FewerUsers
    <3>4. subs'[j] = subs[j] /\ Cardinality(Users(k, "rejected")) <= 1
      BY <1>4, <2>2, <2>3, <2>4 DEF Good
    <3>5. First(k, "rejected", j)' /\ \A d \in Entries : Mine(k, "rejected", d)' => d = j
      BY <1>4, <1>5, <2>3 DEF Good, Only, First
    <3> QED BY <2>3, <3>1, <3>2, <3>3, <3>4, <3>5 DEF Good, Only
  <2>8. PICK g \in Calls' : g \notin Calls /\ Ending(g, k) /\ g.pc = "rejected" /\ g.entry = 0
    BY <1>5, <1>10
  <2>9. ASSUME NEW f \in Calls, Ending(f, k) PROVE f = Top
    <3>1. f.pc = "accepted"
      BY <2>1, <2>9 DEF Both
    <3>2. Token(f) \in Users(k, "accepted") /\ f.op \in {"answered", "expiring"}
      BY <2>9, <3>1, EnderCounts
    <3>3. Token(f) = t
      BY <1>2, <1>10, <2>2, <2>3, <3>2, OneUser, UsersFinite DEF Good
    <3> QED BY <1>1, <3>2, <3>3, CallsApart
  <2>10. EndsAlone(k, g)'
    <3> SUFFICES ASSUME NEW f \in Calls', Ending(f, k) PROVE f = g
      BY DEF EndsAlone
    <3>1. f \notin Calls
      BY <1>5, <2>9
    <3> QED BY <1>5, <2>8, <3>1
  <2>11. subs'[j] = subs[j]
    BY <1>4, <2>2, <2>4
  <2>12. Half(k, j)'
    BY <2>3, <2>5, <2>6, <2>7, <2>8, <2>10, <2>11 DEF Half
  <2> QED BY <2>12 DEF Settled
<1>11. ASSUME x = "rejected" PROVE Settled(k)'
  <2>1. ASSUME NEW i \in Entries, NEW j \in Entries, Between(k, i, j) PROVE FALSE
    BY <1>1, <1>2, <1>8, <2>1 DEF Between, EndsAlone
  <2>2. PICK j \in Entries : Half(k, j)
    BY <1>6, <1>11, <2>1
  <2>3. /\ \A i \in Entries : ~Mine(k, "accepted", i)
        /\ Users(k, "accepted") = {} /\ Good(k, "rejected", j) /\ subs[j].count = 1
    BY <2>2 DEF Half
  <2>4. e = j
    BY <1>1, <1>2, <1>8, <2>2 DEF Half, EndsAlone
  <2>5. Users(k, "rejected")' = {}
    BY <1>9, <1>11, <2>3 DEF Good
  <2>6. Users(k, "accepted")' = {}
    BY <1>2, <1>7, <2>3
  <2>7. \A y \in Answers, d \in Entries : ~Mine(k, y, d)'
    <3> SUFFICES ASSUME NEW y \in Answers, NEW d \in Entries, Mine(k, y, d)' PROVE FALSE
      OBVIOUS
    <3>1. Mine(k, y, d)
      BY <1>5
    <3>2. y = "rejected"
      BY <2>3, <3>1 DEF Answers
    <3>3. d = e
      BY <2>3, <2>4, <3>1, <3>2 DEF Good, Only
    <3> QED BY <1>4, <3>3 DEF Mine
  <2>8. Absent(k)'
    BY <2>5, <2>6, <2>7 DEF Absent, None, Answers
  <2> QED BY <2>8 DEF Settled
<1>12. Settled(k)'
  BY <1>1, <1>10, <1>11 DEF Answers
<1> QED BY <1>5, <1>12 DEF KeyInv

----------------------------------------------------------------------------
(* What lies under the innermost call, and the keys of the answers.        *)

LEMMA NestedPushed ==
    ASSUME TypeInv, Nested, NEW frame \in Frames, stack' = Append(stack, frame),
           stack = <<>> \/ Top.pc = "callback" \/ Exchanging(Top)
    PROVE  Nested'
<1> SUFFICES ASSUME NEW p \in DOMAIN stack', p < Len(stack')
             PROVE  stack'[p].pc = "callback" \/ Exchanging(stack'[p])
  BY DEF Nested, Exchanging
<1>1. stack \in Seq(Frames)
  BY TypeFacts
<1>2. /\ Len(stack') = Len(stack) + 1 /\ Len(stack) \in Nat
      /\ \A i \in DOMAIN stack : stack'[i] = stack[i] /\ i <= Len(stack)
      /\ \A i \in DOMAIN stack' : i \notin DOMAIN stack => i = Len(stack) + 1
  BY <1>1, Added
<1>3. p \in DOMAIN stack /\ p <= Len(stack) /\ stack'[p] = stack[p] /\ stack # <<>>
  BY <1>1, <1>2
<1>4. CASE p = Len(stack)
  BY <1>3, <1>4 DEF Top
<1>5. CASE p # Len(stack)
  <2>1. p < Len(stack)
    BY <1>1, <1>2, <1>3, <1>5
  <2> QED BY <1>3, <2>1 DEF Nested
<1> QED BY <1>4, <1>5

LEMMA NestedKept ==
    ASSUME TypeInv, TypeInv', Nested, stack # <<>>,
           stack' = Below \/ \E frame : stack' = Replace(frame)
    PROVE  Nested'
<1> SUFFICES ASSUME NEW p \in DOMAIN stack', p < Len(stack')
             PROVE  stack'[p].pc = "callback" \/ Exchanging(stack'[p])
  BY DEF Nested, Exchanging
<1>1. stack \in Seq(Frames) /\ stack' \in Seq(Frames)
  BY TypeFacts DEF TypeInv, StackOK
<1>2. /\ Len(stack) \in Nat \ {0} /\ Below \in Seq(Frames) /\ Len(Below) = Len(stack) - 1
      /\ \A i \in DOMAIN Below : i \in DOMAIN stack /\ i < Len(stack) /\ Below[i] = stack[i]
  BY <1>1, Innermost
<1>3. p \in DOMAIN stack /\ p < Len(stack) /\ stack'[p] = stack[p]
  <2>1. CASE stack' = Below
    BY <1>2, <2>1
  <2>2. ASSUME NEW frame, stack' = Replace(frame)
        PROVE  p \in DOMAIN stack /\ p < Len(stack) /\ stack'[p] = stack[p]
    <3>1. stack' = Append(Below, frame)
      BY <2>2 DEF Replace
    <3>2. Len(stack') = Len(Below) + 1 /\ p \in 1..Len(Below) /\ DOMAIN Below = 1..Len(Below)
      BY <1>1, <1>2, <3>1
    <3>3. stack'[p] = Below[p]
      BY <1>2, <3>1, <3>2
    <3> QED BY <1>2, <3>2, <3>3
  <2> QED BY <2>1, <2>2
<1> QED BY <1>3 DEF Nested

LEMMA KeyedKept ==
    ASSUME TypeInv, RecordInv, Keyed, KeysKept,
           \A f \in Calls' : f \notin Calls /\ f.op = "answered" => f.key = keyOf'[f.req]
    PROVE  Keyed'
<1> SUFFICES ASSUME NEW f \in Calls', f.op = "answered" PROVE f.key = keyOf'[f.req]
  BY DEF Keyed
<1>1. CASE f \in Calls
  <2>1. f.slot \in Slots /\ acks[f.slot] = [req |-> f.req, free |-> FALSE] /\ f.key = keyOf[f.req]
    BY <1>1, AnswerRecord, CallTypes DEF ReportOK, Keyed
  <2>2. f.req \in DOMAIN keyOf
    BY <2>1, RecordFacts
  <2> QED BY <2>1, <2>2 DEF KeysKept
<1> QED BY <1>1

\* The innermost call goes on, or returns.
LEMMA KeyedOn ==
    ASSUME TypeInv, TypeInv', RecordInv, Keyed, stack # <<>>, UNCHANGED keyOf,
           \/ stack' = Below
           \/ \E frame : /\ stack' = Replace(frame)
                         /\ frame.op = "answered" => frame.key = keyOf[frame.req]
    PROVE  Keyed'
<1>1. stack \in Seq(Frames) /\ stack' \in Seq(Frames)
  BY TypeFacts DEF TypeInv, StackOK
<1>2. /\ Len(stack) \in Nat \ {0} /\ Below \in Seq(Frames) /\ Len(Below) = Len(stack) - 1
      /\ \A i \in DOMAIN Below : i \in DOMAIN stack /\ Below[i] = stack[i]
  BY <1>1, Innermost
<1>3. \A p \in DOMAIN stack' :
        \/ p \in DOMAIN stack /\ stack'[p] = stack[p]
        \/ stack'[p].op = "answered" => stack'[p].key = keyOf[stack'[p].req]
  <2>1. CASE stack' = Below
    BY <1>2, <2>1
  <2>2. ASSUME NEW frame, stack' = Replace(frame), frame.op = "answered" => frame.key = keyOf[frame.req],
               NEW p \in DOMAIN stack'
        PROVE  \/ p \in DOMAIN stack /\ stack'[p] = stack[p]
               \/ stack'[p].op = "answered" => stack'[p].key = keyOf[stack'[p].req]
    <3>1. stack' = Append(Below, frame)
      BY <2>2 DEF Replace
    <3>2. (p \in DOMAIN Below /\ stack'[p] = Below[p]) \/ stack'[p] = frame
      BY <1>1, <1>2, <2>2, <3>1
    <3> QED BY <1>2, <2>2, <3>2
  <2> QED BY <2>1, <2>2
<1>4. \A f \in Calls' : f \notin Calls /\ f.op = "answered" => f.key = keyOf'[f.req]
  BY <1>3 DEF Calls
<1>5. KeysKept
  BY DEF KeysKept
<1> QED BY <1>4, <1>5, KeyedKept

----------------------------------------------------------------------------
(* Every step keeps the invariant.                                         *)

\* As it is at the start and after a connect.
Blank == /\ stack = <<>>
         /\ \A i \in Slots : acks[i].free
         /\ \A j \in Entries : subs[j].free

LEMMA BlankHears == Blank => HearInv
<1> SUFFICES ASSUME Blank PROVE HearInv
  OBVIOUS
<1>1. stack = <<>> /\ Calls = {}
  BY DEF Blank, Calls
<1>2. Nested /\ Keyed
  BY <1>1 DEF Nested, Keyed
<1>3. ASSUME NEW k PROVE KeyInv(k)
  <2>1. \A x \in Answers, j \in Entries : ~Mine(k, x, j)
    BY DEF Blank, Mine
  <2>2. \A x \in Answers : Users(k, x) = {}
    BY <1>1 DEF Blank, Users, Waiters, Expiring, Publishing
  <2>3. Settled(k)
    BY <2>1, <2>2 DEF Settled, Absent, None
  <2> QED BY <1>1, <2>3 DEF KeyInv, Reserved, TopicOwn, TimeOutAlone
<1> QED BY <1>2, <1>3 DEF HearInv

LEMMA StartHears ==
    ASSUME TypeInv, TypeInv', RecordInv, HearInv, Start
    PROVE  HearInv'
<1>1. PICK k1 \in Keys, sticky \in BOOLEAN :
        StartPresent(k1, sticky) \/ StartSubscribing(k1, sticky) \/ StartCrowded(k1, sticky)
  BY UsesTyped DEF Start
<1>2. /\ \E pc \in {"accepted", "undo", "publish"}, a \in 0..NumTopics, b \in 0..NumTopics :
           StartAction(k1, sticky, pc, a, b)
      /\ troubled \subseteq troubled'
  <2>1. CASE StartPresent(k1, sticky)
    BY <2>1, ZeroEntry DEF StartPresent
  <2>2. CASE StartSubscribing(k1, sticky)
    <3>1. Entries \subseteq 0..NumTopics
      BY DEF Entries
    <3> QED BY <2>2, <3>1 DEF StartSubscribing, FreeEntries
  <2>3. CASE StartCrowded(k1, sticky)
    <3>1. Entries \subseteq 0..NumTopics
      BY DEF Entries
    <3> QED BY <2>3, <3>1, ZeroEntry DEF StartCrowded, FreeEntries
  <2> QED BY <1>1, <2>1, <2>2, <2>3
<1>3. PICK pc \in {"accepted", "undo", "publish"}, a \in 0..NumTopics, b \in 0..NumTopics :
        StartAction(k1, sticky, pc, a, b)
  BY <1>2
<1>4. Nested'
  <2>1. PICK frame : stack' = Append(stack, frame)
    BY <1>3 DEF StartAction
  <2>2. frame \in Frames
    <3>1. stack' \in Seq(Frames) /\ stack \in Seq(Frames)
      BY TypeFacts DEF TypeInv, StackOK
    <3>2. stack'[Len(stack) + 1] = frame /\ Len(stack) + 1 \in DOMAIN stack'
      BY <2>1, <3>1
    <3> QED BY <3>1, <3>2, ElementOfSeq
  <2>3. stack = <<>> \/ Top.pc = "callback"
    BY <1>3 DEF StartAction, MayCall
  <2> QED BY <2>1, <2>2, <2>3, NestedPushed DEF HearInv
<1>5. Keyed'
  <2>1. KeysKept /\ \E f : Calls' = Calls \union {f} /\ f.op = "action"
    BY <1>3, Started
  <2> QED BY <2>1, KeyedKept DEF HearInv
<1>6. ASSUME NEW k \in Keys, k \notin troubled' PROVE KeyInv(k)'
  <2>1. KeyInv(k) /\ Nested
    BY <1>2, <1>6 DEF HearInv
  <2>2. CASE StartPresent(k1, sticky)
    <3>1. CASE k = k1
      <4>1. k \notin Crossing(k)
        BY <1>6, <2>2, <3>1 DEF StartPresent
      <4> QED BY <2>1, <2>2, <3>1, <4>1, PresentOwn
    <3> QED BY <2>1, <2>2, <3>1, PresentBeside
  <2>3. CASE StartSubscribing(k1, sticky)
    BY <1>6, <2>1, <2>3, SubscribingBeside, SubscribingOwn
  <2>4. CASE StartCrowded(k1, sticky)
    BY <1>6, <2>1, <2>4, CrowdedBeside
  <2> QED BY <1>1, <2>2, <2>3, <2>4
<1> QED BY <1>4, <1>5, <1>6 DEF HearInv

\* The rest of an action.
LEMMA ActHears ==
    ASSUME TypeInv, TypeInv', RecordInv, HearInv,
           \/ SubscribeAccepted \/ SubscribeRejected \/ SubscribeFails \/ UndoEnds \/ Publish \/ PublishFails
    PROVE  HearInv'
<1>1. /\ Acting /\ UNCHANGED keyOf /\ troubled \subseteq troubled'
      /\ stack' = Below \/ \E frame : stack' = Replace(frame)
      /\ \/ stack' = Below
         \/ \E pc \in {"rejected", "publish"} : stack' = Replace([Top EXCEPT !.pc = pc])
         \/ stack' = Replace([Top EXCEPT !.pc = "undo", !.failed = TRUE])
  BY DEF SubscribeAccepted, SubscribeRejected, SubscribeFails, UndoEnds, Publish, PublishFails,
         Unsubscribed, UnsubscribeFailed
<1>2. Nested'
  BY <1>1, NestedKept DEF HearInv, Acting
<1>3. Keyed'
  <2>1. ActEnds \/ \E pc \in {"rejected", "publish", "undo"} : \E failed : ActGoesOn(pc, failed)
    BY <1>1, ActPopped, ActAdvanced, ActReplaced
  <2>2. \A f \in Calls' : f \notin Calls => f.op = "action"
    BY <2>1 DEF ActEnds, ActGoesOn
  <2> QED BY <1>1, <2>2, KeyedKept DEF HearInv, KeysKept
<1>4. ASSUME NEW k \in Keys, k \notin troubled' PROVE KeyInv(k)'
  <2>1. KeyInv(k) /\ Nested /\ Keyed
    BY <1>1, <1>4 DEF HearInv
  <2>2. CASE SubscribeAccepted
    BY <2>1, <2>2, SubscribeAcceptedBeside, SubscribeAcceptedOwn
  <2>3. CASE SubscribeRejected
    BY <2>1, <2>3, SubscribeRejectedBeside, SubscribeRejectedOwn
  <2>4. CASE SubscribeFails
    BY <2>1, <2>4, SubscribeFailsBeside, SubscribeFailsOwn
  <2>5. CASE UndoEnds
    BY <2>1, <2>5, UndoEndsBeside, UndoEndsOwn
  <2>6. CASE Publish \/ PublishFails
    BY <2>1, <2>6, PublishKeeps, PublishFailsKeeps
  <2> QED BY <2>2, <2>3, <2>4, <2>5, <2>6
<1> QED BY <1>2, <1>3, <1>4 DEF HearInv

\* Answers and time-outs.
LEMMA ReportHears ==
    ASSUME TypeInv, TypeInv', RecordInv, HearInv,
           \/ Expire \/ ScanEnds \/ CallbackReturns \/ Unsubscribe \/ Release \/ UnsubscribeEnds
    PROVE  HearInv'
<1>1. stack # <<>> /\ UNCHANGED keyOf /\ troubled \subseteq troubled'
  BY DEF Expire, ScanEnds, CallbackReturns, Unsubscribe, Release, UnsubscribeEnds, Scanning, Releasing,
         Unsubscribed, UnsubscribeFailed
<1>2. Top.op \in {"answered", "expiring"} /\ Top \in Reports
  <2>1. Top.pc \in Answers \union {"callback", "scan"} /\ (Top.pc \in Answers => Releasing)
    BY DEF Expire, ScanEnds, CallbackReturns, Unsubscribe, Release, UnsubscribeEnds, Scanning, Releasing, Answers
  <2> QED BY <1>1, <2>1, TopFacts, FrameFacts DEF Releasing
<1>3. Top.op = "answered" => Top.key = keyOf[Top.req] /\ KeyAt(Top.slot) = Top.key
  <2>1. Top \in Calls
    BY <1>1, <1>2, TopCall
  <2> QED BY <1>2, <2>1, AnswerRecord DEF HearInv, Keyed
<1>4. \/ stack' = Below
      \/ \E frame : /\ stack' = Replace(frame)
                    /\ frame.op = "answered" => frame.key = keyOf[frame.req]
  <2> DEFINE Goes == \E frame : /\ stack' = Replace(frame)
                                /\ frame.op = "answered" => frame.key = keyOf[frame.req]
  <2>1. ASSUME Expire PROVE Goes
    <3>1. PICK i \in Slots : stack' = Replace([Top EXCEPT !.slot = i, !.req = acks[i].req, !.pc = "callback"])
      BY <2>1 DEF Expire
    <3>2. Top.op = "expiring"
      BY <1>1, <1>2, <2>1, TopFacts DEF Expire, Scanning, ReportOK
    <3>3. [Top EXCEPT !.slot = i, !.req = acks[i].req, !.pc = "callback"].op = "expiring"
      BY <1>2, <3>2 DEF Reports
    <3> QED BY <3>1, <3>3
  <2>2. ASSUME ScanEnds PROVE Goes
    BY <2>2 DEF ScanEnds
  <2>3. ASSUME CallbackReturns PROVE Goes
    <3> DEFINE g == [Top EXCEPT !.pc = "accepted", !.key = KeyAt(Top.slot)]
    <3>1. g.op = Top.op /\ g.req = Top.req /\ g.key = KeyAt(Top.slot)
      BY <1>2 DEF Reports
    <3> QED BY <1>3, <2>3, <3>1 DEF CallbackReturns
  <2>4. ASSUME Unsubscribe PROVE Goes
    <3>1. PICK j : stack' = Replace([Top EXCEPT !.entry = j])
      BY <2>4 DEF Unsubscribe
    <3> DEFINE g == [Top EXCEPT !.entry = j]
    <3>2. g.op = Top.op /\ g.req = Top.req /\ g.key = Top.key
      BY <1>2 DEF Reports
    <3> QED BY <1>3, <3>1, <3>2
  <2>5. ASSUME Advance PROVE stack' = Below \/ Goes
    <3> DEFINE g == [Top EXCEPT !.pc = "rejected", !.entry = 0]
               h == [Top EXCEPT !.pc = "scan", !.slot = @ + 1, !.entry = 0]
    <3>1. g.op = Top.op /\ g.req = Top.req /\ g.key = Top.key
      BY <1>2 DEF Reports
    <3>2. h.op = Top.op
      BY <1>2 DEF Reports
    <3>3. CASE stack' = Replace(g)
      BY <1>3, <3>1, <3>3
    <3>4. CASE Top.op = "expiring" /\ stack' = Replace(h)
      BY <3>2, <3>4
    <3>5. stack' = Replace(g) \/ (Top.op = "expiring" /\ stack' = Replace(h)) \/ stack' = Below
      BY <2>5 DEF Advance
    <3> QED BY <3>3, <3>4, <3>5
  <2> HIDE DEF Goes
  <2>6. stack' = Below \/ Goes
    BY <2>1, <2>2, <2>3, <2>4, <2>5 DEF Release, UnsubscribeEnds
  <2> QED BY <2>6 DEF Goes
<1>5. Nested' /\ Keyed'
  BY <1>1, <1>4, NestedKept, KeyedOn DEF HearInv
<1>6. ASSUME NEW k \in Keys, k \notin troubled' PROVE KeyInv(k)'
  <2>1. KeyInv(k) /\ Nested /\ Keyed
    BY <1>1, <1>6 DEF HearInv
  <2>2. CASE Expire \/ ScanEnds
    BY <2>1, <2>2, ExpireKeeps, ScanEndsKeeps
  <2>3. CASE CallbackReturns
    BY <2>1, <2>3, CallbackBeside, CallbackOwn
  <2>4. CASE Unsubscribe
    BY <1>6, <2>1, <2>4, UnsubscribeBeside, UnsubscribeOwn
  <2>5. CASE Release
    BY <2>1, <2>5, ReleaseBeside, ReleaseOwn
  <2>6. CASE UnsubscribeEnds
    BY <1>6, <2>1, <2>6, EndsBeside, EndsOwn
  <2> QED BY <2>2, <2>3, <2>4, <2>5, <2>6
<1> QED BY <1>5, <1>6 DEF HearInv

LEMMA ReadHears ==
    ASSUME TypeInv, TypeInv', RecordInv, HearInv, NEW r \in Requests, NEW status \in Answers,
           ReadAnswer(r, status)
    PROVE  HearInv'
<1>1. PICK i \in Slots : stack' = Append(stack, [op |-> "answered", slot |-> i, req |-> r, key |-> keyOf[r],
                                                 pc |-> "callback", entry |-> 0])
  BY DEF ReadAnswer
<1>2. stack # <<>> /\ Exchanging(Top) /\ UNCHANGED <<keyOf, acks>> /\ troubled \subseteq troubled'
  BY DEF ReadAnswer
<1> DEFINE frame == [op |-> "answered", slot |-> i, req |-> r, key |-> keyOf[r], pc |-> "callback", entry |-> 0]
<1>3. frame \in Frames
  <2>1. stack' \in Seq(Frames) /\ stack \in Seq(Frames)
    BY TypeFacts DEF TypeInv, StackOK
  <2>2. stack'[Len(stack) + 1] = frame /\ Len(stack) + 1 \in DOMAIN stack'
    BY <1>1, <2>1
  <2> QED BY <2>1, <2>2, ElementOfSeq
<1>4. frame.op = "answered" /\ frame.key = keyOf'[frame.req] /\ frame.op # "yield"
  BY <1>2
<1>5. stack' = Append(stack, frame)
  BY <1>1
<1> HIDE DEF frame
<1>6. Nested'
  BY <1>2, <1>3, <1>5, NestedPushed DEF HearInv
<1>7. Keyed'
  <2>1. Calls' = Calls \union {frame}
    BY <1>3, <1>4, <1>5, CallsPushed
  <2>2. KeysKept
    BY <1>2 DEF KeysKept
  <2> QED BY <1>4, <2>1, <2>2, KeyedKept DEF HearInv
<1>8. ASSUME NEW k \in Keys, k \notin troubled' PROVE KeyInv(k)'
  <2>1. KeyInv(k)
    BY <1>2, <1>8 DEF HearInv
  <2> QED BY <1>8, <2>1, ReadAnswerKeeps
<1> QED BY <1>6, <1>7, <1>8 DEF HearInv

\* Nothing but a timer, the task itself or nothing at all.
LEMMA IdleHears ==
    ASSUME TypeInv, TypeInv', RecordInv, HearInv,
           Yield \/ YieldReturns \/ (\E i \in Slots : TimerExpires(i)) \/ UNCHANGED vars
    PROVE  HearInv'
<1>1. UNCHANGED <<keyOf, acks, subs, handlers, deaf, troubled>>
  BY DEF Yield, YieldReturns, TimerExpires, vars, mqtt
<1>2. CASE Yield
  <2>1. stack = <<>> /\ DOMAIN stack' = {1} /\ stack'[1].op = "expiring"
    BY <1>2 DEF Yield
  <2>2. Len(stack') = 1
    BY <1>2 DEF Yield
  <2>3. Nested'
    BY <2>1, <2>2 DEF Nested
  <2>4. Keyed'
    BY <2>1 DEF Keyed, Calls
  <2> QED BY <1>1, <1>2, <2>3, <2>4, YieldKeeps DEF HearInv
<1>3. CASE UNCHANGED stack \/ YieldReturns
  <2>1. Nested' /\ Keyed'
    <3>1. CASE UNCHANGED stack
      BY <1>1, <3>1 DEF HearInv, Nested, Keyed, Calls
    <3>2. CASE YieldReturns
      <4>1. stack # <<>> /\ stack' = Below
        BY <3>2 DEF YieldReturns
      <4> QED BY <1>1, <4>1, NestedKept, KeyedOn DEF HearInv
    <3> QED BY <1>3, <3>1, <3>2
  <2> QED BY <1>1, <1>3, <2>1, TimerKeeps DEF HearInv
<1> QED BY <1>2, <1>3 DEF TimerExpires, vars

LEMMA NextHearInv == TypeInv /\ RecordInv /\ HearInv /\ [Next]_vars => HearInv'
<1> SUFFICES ASSUME TypeInv, RecordInv, HearInv, [Next]_vars PROVE HearInv'
  OBVIOUS
<1>1. TypeInv'
  BY NextTypeInv
<1>2. CASE Connect
  <2>1. Blank'
    BY <1>2 DEF Connect, Blank, NoRecord, NoEntry
  <2> QED BY <2>1, BlankHears, PTL
<1>3. CASE Start
  BY <1>1, <1>3, StartHears
<1>4. CASE Proceed
  BY <1>1, <1>4, ActHears, ReportHears, IdleHears DEF Proceed
<1>5. ASSUME NEW r \in Requests, NEW status \in Answers, ReadAnswer(r, status) PROVE HearInv'
  BY <1>1, <1>5, ReadHears
<1>6. CASE Yield \/ (\E i \in Slots : TimerExpires(i)) \/ UNCHANGED vars
  BY <1>1, <1>6, IdleHears
<1> QED BY <1>2, <1>3, <1>4, <1>5, <1>6 DEF Next

\* Whoever waits is heard.
LEMMA HeardNow == TypeInv /\ RecordInv /\ HearInv => WaitingIsHeard
<1> SUFFICES ASSUME TypeInv, RecordInv, HearInv, NEW i \in Slots, ~acks[i].free, KeyAt(i) \notin troubled,
                    ~\E f \in DOMAIN stack : /\ stack[f].op \in {"answered", "expiring"} /\ stack[f].slot = i
                                             /\ stack[f].pc # "scan"
             PROVE  {KeyAt(i)} \X Answers \subseteq Heard
  BY DEF WaitingIsHeard
<1> DEFINE k == KeyAt(i)
<1>1. k \in Keys
  BY RecordFacts, TypeFacts DEF KeyAt
<1>2. KeyInv(k)
  BY <1>1 DEF HearInv
<1>3. ~Passed(i)
  BY CallPlace DEF Passed
<1>4. \A x : i \in Users(k, x)
  <2> TAKE x
  <2>1. i \in Waiters(k, x)
    BY <1>3 DEF Waiters
  <2> QED BY <2>1, UserFacts
<1> HIDE DEF k
<1>5. Settled(k) /\ ~Absent(k)
  BY <1>2, <1>4, UsersSettle DEF Answers
<1>6. <<k, "accepted">> \in Heard /\ <<k, "rejected">> \in Heard
  BY <1>4, <1>5 DEF Settled, Both, Between, Half, Good
<1>7. {k} \X Answers \subseteq Heard
  BY <1>6 DEF Answers
<1> QED BY <1>7 DEF k

\* While an action waits, both of its answers are subscribed to and have their
\* handler, however many actions share the two subscriptions, whatever is
\* nested in what, and in whatever order the actions end; but for the keys in
\* disorder (incrementSubscriptionCnt, subscribeToShadowActionAcks,
\* unsubscribeFromAcceptedAndRejected).
THEOREM ShadowHeard == Spec => []WaitingIsHeard
<1>1. Init => TypeInv /\ RecordInv /\ HearInv
  <2>1. Init => Blank
    BY DEF Init, Blank, NoRecord, NoEntry
  <2> QED BY <2>1, InitTypeInv, InitRecordInv, BlankHears
<1>2. TypeInv /\ RecordInv /\ HearInv /\ [Next]_vars => TypeInv' /\ RecordInv' /\ HearInv'
  BY NextTypeInv, NextRecordInv, NextHearInv
<1>3. TypeInv /\ RecordInv /\ HearInv => WaitingIsHeard
  BY HeardNow
<1> QED BY <1>1, <1>2, <1>3, PTL DEF Spec
=============================================================================
