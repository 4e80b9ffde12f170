----------------------------- MODULE Data_proofs -----------------------------
(***************************************************************************)
(* What holds of the deltas for every number of keys, versions and nested  *)
(* callbacks: ranges, the version number, and the order of the callbacks.  *)
(* And what holds of the timers, for every counter, tick and time-out.     *)
(***************************************************************************)
EXTENDS ShadowDeltas, Timers, SequenceTheorems, TLAPS

LoopSet == [message : Messages, at : 1..MaxTokens + 1, calling : BOOLEAN, clean : BOOLEAN]

\* A clean loop is the innermost one, reads its own message, and has still to
\* hand it to the registrations ahead, which know older versions only.
Ahead(loop) == {s \in Slots : IF loop.calling THEN s > loop.at ELSE s >= loop.at}
InOrder(i) ==
    LET loop == loops[i]
    IN /\ i = Len(loops)
       /\ shadowRxBuf = loop.message
       /\ loop.message.version <= shadowJsonVersionNum
       /\ \A s \in Ahead(loop) : handed[s] < loop.message.version

OrderInv ==
    ~relaxed =>
      /\ shadowDiscardOldDeltaFlag
      /\ \A s \in Slots : handed[s] <= shadowJsonVersionNum
      /\ \A i \in DOMAIN loops : loops[i].clean => InOrder(i)

VersionInv == (\A m \in deltas : m.version <= cloud) /\ VersionIsKnown

----------------------------------------------------------------------------
(* Loops that go on with the buffer overwritten, and the innermost loop.   *)

LEMMA DisturbedLoops ==
    ASSUME loops \in Seq(LoopSet)
    PROVE  /\ Disturbed \in Seq(LoopSet)
           /\ Len(Disturbed) = Len(loops)
           /\ \A i \in DOMAIN Disturbed : ~Disturbed[i].clean
<1>1. \A i \in DOMAIN loops : loops[i] \in LoopSet
  BY ElementOfSeq
<1>2. \A i \in DOMAIN loops : [loops[i] EXCEPT !.clean = FALSE] \in LoopSet
  BY <1>1 DEF LoopSet
<1>3. DOMAIN loops = 1..Len(loops) /\ Len(loops) \in Nat
  OBVIOUS
<1>4. Disturbed \in [1..Len(loops) -> LoopSet]
  BY <1>2, <1>3 DEF Disturbed
<1>5. Disturbed \in Seq(LoopSet) /\ Len(Disturbed) = Len(loops)
  BY <1>3, <1>4, SeqDef
<1>6. \A i \in DOMAIN Disturbed : ~Disturbed[i].clean
  BY <1>1 DEF Disturbed, LoopSet
<1> QED BY <1>5, <1>6

LEMMA Innermost ==
    ASSUME loops \in Seq(LoopSet), loops # <<>>
    PROVE  /\ Loop \in LoopSet
           /\ Len(loops) \in Nat \ {0}
           /\ Outer \in Seq(LoopSet) /\ Len(Outer) = Len(loops) - 1
           /\ \A i \in 1..Len(loops) - 1 : Outer[i] = loops[i]
<1>1. Len(loops) \in Nat \ {0}
  BY EmptySeq
<1>2. Loop \in LoopSet
  BY <1>1 DEF Loop
<1>3. Outer \in Seq(LoopSet) /\ Len(Outer) = Len(loops) - 1 /\ \A i \in 1..Len(loops) - 1 : Outer[i] = loops[i]
  <2> DEFINE n == Len(loops) - 1
  <2>1. n \in Int /\ \A i \in 1..n : loops[i] \in LoopSet
    BY <1>1, ElementOfSeq
  <2> HIDE DEF n
  <2>2. /\ SubSeq(loops, 1, n) \in Seq(LoopSet)
        /\ Len(SubSeq(loops, 1, n)) = IF 1 <= n THEN n - 1 + 1 ELSE 0
        /\ \A i \in 1..n - 1 + 1 : SubSeq(loops, 1, n)[i] = loops[1 + i - 1]
    BY <2>1, SubSeqProperties
  <2>3. n \in Nat /\ n - 1 + 1 = n /\ n = Len(loops) - 1 /\ \A i \in 1..n : 1 + i - 1 = i
    BY <1>1 DEF n
  <2>4. Len(SubSeq(loops, 1, n)) = n /\ \A i \in 1..n : SubSeq(loops, 1, n)[i] = loops[i]
    BY <2>2, <2>3
  <2> QED BY <2>2, <2>3, <2>4 DEF Outer
<1> QED BY <1>1, <1>2, <1>3

\* The innermost loop is replaced by another.
LEMMA Replaced ==
    ASSUME loops \in Seq(LoopSet), loops # <<>>, NEW loop \in LoopSet
    PROVE  /\ Append(Outer, loop) \in Seq(LoopSet)
           /\ Len(Append(Outer, loop)) = Len(loops)
           /\ \A i \in 1..Len(loops) : Append(Outer, loop)[i] = IF i = Len(loops) THEN loop ELSE loops[i]
BY Innermost

----------------------------------------------------------------------------
(* Type correctness.                                                       *)

LEMMA VersionZero == 0 \in Versions /\ Versions \subseteq Nat
BY ShadowDeltasAssumption DEF Versions

LEMMA MessageIsOne == \A v \in Versions, keys \in SUBSET Keys : Message(v, keys) \in Messages
BY DEF Message, Messages

LEMMA InitTypeOK == DeltaInit => DeltaTypeOK
<1> SUFFICES ASSUME DeltaInit PROVE DeltaTypeOK
  OBVIOUS
<1>1. subscribed \in BOOLEAN /\ deltaTopicSubscribedFlag \in BOOLEAN /\ shadowDiscardOldDeltaFlag \in BOOLEAN
      /\ relaxed \in BOOLEAN
  BY Zenon DEF DeltaInit
<1>2. tokenTable \in Seq(Keys) /\ Len(tokenTable) <= MaxTokens /\ loops \in Seq(LoopSet)
  BY EmptySeq, ShadowDeltasAssumption DEF DeltaInit
<1>3. cloud \in Versions /\ deltas \subseteq Messages /\ shadowJsonVersionNum \in Versions /\ foreign \in Versions
      /\ handed \in [Slots -> Versions]
  BY VersionZero DEF DeltaInit
<1>4. shadowRxBuf \in Messages
  BY VersionZero, MessageIsOne DEF DeltaInit
<1> QED
  BY <1>1, <1>2, <1>3, <1>4 DEF DeltaTypeOK, LoopSet

LEMMA NextTypeOK == DeltaTypeOK /\ [DeltaNext]_deltaVars => DeltaTypeOK'
<1> SUFFICES ASSUME DeltaTypeOK, [DeltaNext]_deltaVars PROVE DeltaTypeOK'
  OBVIOUS
<1>a. loops \in Seq(LoopSet)
  BY DEF DeltaTypeOK, LoopSet
<1>1. ASSUME NEW key \in Keys, NEW works \in BOOLEAN, RegisterDelta(key, works) PROVE DeltaTypeOK'
  <2>1. subscribed' \in BOOLEAN /\ deltaTopicSubscribedFlag' \in BOOLEAN
    BY <1>1, Zenon DEF RegisterDelta, DeltaTypeOK
  <2>2. tokenTable' \in Seq(Keys) /\ Len(tokenTable') <= MaxTokens
    <3>1. CASE Len(tokenTable) >= MaxTokens
      BY <1>1, <3>1 DEF RegisterDelta, DeltaTypeOK
    <3>2. CASE ~(Len(tokenTable) >= MaxTokens)
      BY <1>1, <3>2, ShadowDeltasAssumption DEF RegisterDelta, DeltaTypeOK
    <3> QED BY <3>1, <3>2
  <2> QED
    BY <1>1, <2>1, <2>2 DEF RegisterDelta, DeltaTypeOK
<1>2. CASE NewSession
  BY <1>2 DEF NewSession, DeltaTypeOK
<1>3. CASE ShadowInit
  <2>1. subscribed' \in BOOLEAN /\ deltaTopicSubscribedFlag' \in BOOLEAN
    BY <1>3, Zenon DEF ShadowInit
  <2>2. tokenTable' \in Seq(Keys) /\ Len(tokenTable') <= MaxTokens
    BY <1>3, EmptySeq, ShadowDeltasAssumption DEF ShadowInit
  <2>3. shadowJsonVersionNum' \in Versions /\ handed' \in [Slots -> Versions]
    BY <1>3, VersionZero DEF ShadowInit
  <2> QED
    BY <1>3, <2>1, <2>2, <2>3 DEF ShadowInit, DeltaTypeOK
<1>4. ASSUME NEW keys \in SUBSET Keys, CloudUpdates(keys) PROVE DeltaTypeOK'
  <2>1. cloud' \in Versions
    BY <1>4, ShadowDeltasAssumption DEF CloudUpdates, DeltaTypeOK, Versions
  <2>2. deltas' \subseteq Messages
    BY <1>4, <2>1, MessageIsOne DEF CloudUpdates, DeltaTypeOK
  <2> QED
    BY <1>4, <2>1, <2>2 DEF CloudUpdates, DeltaTypeOK
<1>5. ASSUME NEW on \in BOOLEAN, SetDiscard(on) PROVE DeltaTypeOK'
  <2>1. shadowDiscardOldDeltaFlag' \in BOOLEAN /\ relaxed' \in BOOLEAN
    BY <1>5, Zenon DEF SetDiscard, DeltaTypeOK
  <2> QED
    BY <1>5, <2>1 DEF SetDiscard, DeltaTypeOK
<1>6. CASE ResetVersion
  BY <1>6, VersionZero DEF ResetVersion, DeltaTypeOK
<1>7. ASSUME NEW m \in deltas, DeltaComes(m) PROVE DeltaTypeOK'
  <2> DEFINE loop == [message |-> m, at |-> 1, calling |-> FALSE, clean |-> TRUE]
  <2>1. m \in Messages /\ m.version \in Versions
    BY DEF DeltaTypeOK, Messages
  <2>2. loop \in LoopSet
    BY <2>1, ShadowDeltasAssumption DEF LoopSet
  <2>3. Disturbed \in Seq(LoopSet) /\ Append(Disturbed, loop) \in Seq(LoopSet)
    BY <1>a, <2>2, DisturbedLoops
  <2>4. loops' \in Seq(LoopSet) /\ shadowJsonVersionNum' \in Versions
    <3>1. CASE shadowDiscardOldDeltaFlag /\ ~IsNew(m.version)
      BY <1>7, <3>1, <2>3 DEF DeltaComes, DeltaTypeOK
    <3>2. CASE ~(shadowDiscardOldDeltaFlag /\ ~IsNew(m.version))
      BY <1>7, <3>2, <2>1, <2>3 DEF DeltaComes, DeltaTypeOK
    <3> QED BY <3>1, <3>2
  <2> QED
    BY <1>7, <2>1, <2>4 DEF DeltaComes, Copied, DeltaTypeOK, LoopSet
<1>8. ASSUME NEW v \in Versions, HandOver(v) PROVE DeltaTypeOK'
  <2>1. Loop \in LoopSet
    BY <1>8, <1>a, Innermost DEF HandOver
  <2>2. [Loop EXCEPT !.calling = TRUE] \in LoopSet
    BY <2>1 DEF LoopSet
  <2>3. loops' \in Seq(LoopSet)
    BY <1>8, <1>a, <2>2, Replaced DEF HandOver
  <2>4. handed' \in [Slots -> Versions]
    BY <1>8 DEF HandOver, DeltaTypeOK
  <2> QED
    BY <1>8, <2>3, <2>4 DEF HandOver, DeltaTypeOK, LoopSet
<1>9. CASE NextKey
  <2>1. Loop \in LoopSet /\ Loop.at <= MaxTokens
    BY <1>9, <1>a, Innermost, ShadowDeltasAssumption DEF NextKey, DeltaTypeOK, LoopSet
  <2>2. [Loop EXCEPT !.at = @ + 1, !.calling = FALSE] \in LoopSet
    <3>1. Loop.at + 1 \in 1..MaxTokens + 1
      BY <2>1, ShadowDeltasAssumption DEF LoopSet
    <3> QED BY <2>1, <3>1 DEF LoopSet
  <2>3. loops' \in Seq(LoopSet)
    BY <1>9, <1>a, <2>2, Replaced DEF NextKey
  <2> QED
    BY <1>9, <2>3 DEF NextKey, DeltaTypeOK, LoopSet
<1>10. CASE DeltaDone
  <2>1. loops' \in Seq(LoopSet)
    BY <1>10, <1>a, Innermost DEF DeltaDone
  <2> QED
    BY <1>10, <2>1 DEF DeltaDone, DeltaTypeOK, LoopSet
<1>11. ASSUME NEW thing \in {"this"} \cup Others, NEW v \in Versions, GetAccepted(thing, v) PROVE DeltaTypeOK'
  <2>1. loops' \in Seq(LoopSet)
    BY <1>11, <1>a, DisturbedLoops DEF GetAccepted
  <2>2. shadowRxBuf' \in Messages
    BY <1>11, MessageIsOne DEF GetAccepted, Copied
  <2>3. shadowJsonVersionNum' \in Versions /\ foreign' \in Versions
    BY <1>11 DEF GetAccepted, DeltaTypeOK
  <2> QED
    BY <1>11, <2>1, <2>2, <2>3 DEF GetAccepted, DeltaTypeOK, LoopSet
<1>12. CASE OtherAnswer
  <2>1. loops' \in Seq(LoopSet)
    BY <1>12, <1>a, DisturbedLoops DEF OtherAnswer
  <2>2. shadowRxBuf' \in Messages
    BY <1>12, VersionZero, MessageIsOne DEF OtherAnswer, Copied
  <2> QED
    BY <1>12, <2>1, <2>2 DEF OtherAnswer, DeltaTypeOK, LoopSet
<1>13. CASE UNCHANGED deltaVars
  BY <1>13 DEF deltaVars, DeltaTypeOK
<1> QED
  BY <1>1, <1>2, <1>3, <1>4, <1>5, <1>6, <1>7, <1>8, <1>9, <1>10, <1>11, <1>12, <1>13 DEF DeltaNext

LEMMA AlwaysTypeOK == DeltaSpec => []DeltaTypeOK
BY InitTypeOK, NextTypeOK, PTL DEF DeltaSpec

----------------------------------------------------------------------------
(* The version number.                                                     *)

LEMMA InitVersionInv == DeltaInit => VersionInv
BY DEF DeltaInit, VersionInv, VersionIsKnown

LEMMA NextVersionInv == DeltaTypeOK /\ VersionInv /\ [DeltaNext]_deltaVars => VersionInv'
<1> SUFFICES ASSUME DeltaTypeOK, VersionInv, [DeltaNext]_deltaVars PROVE VersionInv'
  OBVIOUS
<1>a. cloud \in Nat /\ shadowJsonVersionNum \in Nat /\ foreign \in Nat /\ \A m \in deltas : m.version \in Nat
  BY VersionZero DEF DeltaTypeOK, Messages
<1> USE DEF VersionInv, VersionIsKnown
<1>1. ASSUME NEW key \in Keys, NEW works \in BOOLEAN, RegisterDelta(key, works) PROVE VersionInv'
  BY <1>1 DEF RegisterDelta
<1>2. CASE NewSession
  BY <1>2 DEF NewSession
<1>3. CASE ShadowInit
  BY <1>3, <1>a DEF ShadowInit
<1>4. ASSUME NEW keys \in SUBSET Keys, CloudUpdates(keys) PROVE VersionInv'
  <2>1. \A m \in deltas' : m.version <= cloud'
    BY <1>4, <1>a DEF CloudUpdates, Message
  <2> QED
    BY <1>4, <1>a, <2>1 DEF CloudUpdates
<1>5. ASSUME NEW on \in BOOLEAN, SetDiscard(on) PROVE VersionInv'
  BY <1>5 DEF SetDiscard
<1>6. CASE ResetVersion
  BY <1>6, <1>a DEF ResetVersion
<1>7. ASSUME NEW m \in deltas, DeltaComes(m) PROVE VersionInv'
  <2>1. shadowJsonVersionNum' \in {shadowJsonVersionNum, m.version}
    BY <1>7 DEF DeltaComes
  <2> QED
    BY <1>7, <2>1 DEF DeltaComes
<1>8. ASSUME NEW v \in Versions, HandOver(v) PROVE VersionInv'
  BY <1>8 DEF HandOver
<1>9. CASE NextKey
  BY <1>9 DEF NextKey
<1>10. CASE DeltaDone
  BY <1>10 DEF DeltaDone
<1>11. ASSUME NEW thing \in {"this"} \cup Others, NEW v \in Versions, GetAccepted(thing, v) PROVE VersionInv'
  <2>1. v \in Nat
    BY VersionZero
  <2>2. thing \in {"this"} \cup Similar => v <= cloud \/ v <= foreign'
    BY <1>11, <1>a, <2>1 DEF GetAccepted
  <2>3. foreign <= foreign'
    BY <1>11, <1>a, <2>1 DEF GetAccepted
  <2>4. foreign' \in Nat
    BY <1>11, <1>a, <2>1 DEF GetAccepted
  <2> QED
    BY <1>11, <1>a, <2>1, <2>2, <2>3, <2>4 DEF GetAccepted, IsValidShadowVersionUpdate
<1>12. CASE OtherAnswer
  BY <1>12 DEF OtherAnswer
<1>13. CASE UNCHANGED deltaVars
  BY <1>13 DEF deltaVars
<1> QED
  BY <1>1, <1>2, <1>3, <1>4, <1>5, <1>6, <1>7, <1>8, <1>9, <1>10, <1>11, <1>12, <1>13 DEF DeltaNext

----------------------------------------------------------------------------
(* The order of the callbacks.                                             *)

LEMMA InitOrderInv == DeltaInit => OrderInv
BY VersionZero DEF DeltaInit, OrderInv

\* Loops that stop being clean, or end, leave nothing to show for loops.
LEMMA DisturbedInOrder ==
    ASSUME DeltaTypeOK, OrderInv, loops' = Disturbed, relaxed' = relaxed, handed' = handed,
           shadowDiscardOldDeltaFlag' = shadowDiscardOldDeltaFlag, shadowJsonVersionNum' \in Nat,
           shadowJsonVersionNum' >= shadowJsonVersionNum
    PROVE  OrderInv'
<1>1. loops \in Seq(LoopSet)
  BY DEF DeltaTypeOK, LoopSet
<1>2. \A i \in DOMAIN loops' : ~loops'[i].clean
  BY <1>1, DisturbedLoops
<1>3. shadowJsonVersionNum \in Nat /\ \A s \in Slots : handed[s] \in Nat
  BY VersionZero DEF DeltaTypeOK
<1>4. ~relaxed => \A s \in Slots : handed[s] <= shadowJsonVersionNum'
  BY <1>3 DEF OrderInv
<1> QED
  BY <1>2, <1>4 DEF OrderInv

LEMMA NextOrderInv == DeltaTypeOK /\ OrderInv /\ [DeltaNext]_deltaVars => OrderInv'
<1> SUFFICES ASSUME DeltaTypeOK, OrderInv, [DeltaNext]_deltaVars PROVE OrderInv'
  OBVIOUS
<1>a. loops \in Seq(LoopSet)
  BY DEF DeltaTypeOK, LoopSet
<1>b. shadowJsonVersionNum \in Nat /\ \A s \in Slots : handed[s] \in Nat
  BY VersionZero DEF DeltaTypeOK
<1>1. ASSUME NEW key \in Keys, NEW works \in BOOLEAN, RegisterDelta(key, works) PROVE OrderInv'
  BY <1>1 DEF RegisterDelta, OrderInv, InOrder, Ahead
<1>2. CASE NewSession
  BY <1>2 DEF NewSession, OrderInv, InOrder, Ahead
<1>3. CASE ShadowInit
  <2>1. \A i \in DOMAIN loops' : FALSE
    BY <1>3 DEF ShadowInit
  <2>2. \A s \in Slots : handed'[s] <= shadowJsonVersionNum'
    BY <1>3 DEF ShadowInit
  <2> QED
    BY <1>3, <2>1, <2>2 DEF ShadowInit, OrderInv
<1>4. ASSUME NEW keys \in SUBSET Keys, CloudUpdates(keys) PROVE OrderInv'
  BY <1>4 DEF CloudUpdates, OrderInv, InOrder, Ahead
<1>5. ASSUME NEW on \in BOOLEAN, SetDiscard(on) PROVE OrderInv'
  BY <1>5 DEF SetDiscard, OrderInv, InOrder, Ahead
<1>6. CASE ResetVersion
  BY <1>6 DEF ResetVersion, OrderInv
<1>7. ASSUME NEW m \in deltas, DeltaComes(m) PROVE OrderInv'
  <2>1. m.version \in Nat
    BY VersionZero DEF DeltaTypeOK, Messages
  <2>2. CASE shadowDiscardOldDeltaFlag /\ ~IsNew(m.version)
    BY <1>7, <1>b, <2>2, DisturbedInOrder DEF DeltaComes
  <2>3. CASE shadowDiscardOldDeltaFlag /\ IsNew(m.version)
    <3> DEFINE loop == [message |-> m, at |-> 1, calling |-> FALSE, clean |-> TRUE]
    <3>1. SUFFICES ASSUME ~relaxed PROVE OrderInv'
      BY <1>7 DEF DeltaComes, OrderInv
    <3>2. shadowJsonVersionNum' = m.version /\ m.version > shadowJsonVersionNum
      BY <1>7, <2>3 DEF DeltaComes, IsNew
    <3>3. \A s \in Slots : handed'[s] < m.version
      BY <1>7, <1>b, <2>1, <3>1, <3>2 DEF DeltaComes, OrderInv
    <3>4. loops' = Append(Disturbed, loop) /\ shadowRxBuf' = m
      BY <1>7, <2>3 DEF DeltaComes, Copied
    <3>5. Len(Disturbed) \in Nat /\ Disturbed \in Seq(LoopSet) /\ \A i \in 1..Len(Disturbed) : ~Disturbed[i].clean
      BY <1>a, DisturbedLoops
    <3> HIDE DEF loop
    <3>6. /\ Len(loops') = Len(Disturbed) + 1 /\ DOMAIN loops' = 1..Len(Disturbed) + 1
          /\ loops'[Len(Disturbed) + 1] = loop
          /\ \A i \in 1..Len(Disturbed) : loops'[i] = Disturbed[i]
      BY <3>4, <3>5
    <3>7. ASSUME NEW i \in DOMAIN loops', loops'[i].clean PROVE InOrder(i)'
      <4>1. i = Len(loops') /\ loops'[i] = loop
        BY <3>5, <3>6, <3>7
      <4>2. loop.message = m
        BY DEF loop
      <4> QED
        BY <2>1, <3>2, <3>3, <3>4, <4>1, <4>2 DEF InOrder, Ahead
    <3>8. \A s \in Slots : handed'[s] <= shadowJsonVersionNum'
      BY <1>7, <1>b, <2>1, <3>2, <3>3 DEF DeltaComes
    <3> QED
      BY <1>7, <2>3, <3>7, <3>8 DEF DeltaComes, OrderInv
  <2>4. CASE ~shadowDiscardOldDeltaFlag
    BY <1>7, <2>4 DEF DeltaComes, OrderInv
  <2> QED BY <2>2, <2>3, <2>4
<1>8. ASSUME NEW v \in Versions, HandOver(v) PROVE OrderInv'
  <2>1. SUFFICES ASSUME ~relaxed PROVE OrderInv'
    BY <1>8 DEF HandOver, OrderInv
  <2>2. loops # <<>> /\ Loop \in LoopSet /\ Len(loops) \in Nat \ {0} /\ Loop = loops[Len(loops)]
    BY <1>8, <1>a, Innermost DEF HandOver, Loop
  <2>3. [Loop EXCEPT !.calling = TRUE] \in LoopSet
    BY <2>2 DEF LoopSet
  <2> DEFINE loop == [Loop EXCEPT !.calling = TRUE]
  <2>4. loop.at = Loop.at /\ loop.calling /\ loop.message = Loop.message /\ loop.clean = Loop.clean
    BY <2>2 DEF LoopSet
  <2>5. loops' = Append(Outer, loop)
    BY <1>8 DEF HandOver
  <2> HIDE DEF loop
  <2>6. /\ Len(loops') = Len(loops) /\ DOMAIN loops' = 1..Len(loops)
        /\ \A i \in 1..Len(loops) : loops'[i] = IF i = Len(loops) THEN loop ELSE loops[i]
    BY <1>a, <2>2, <2>3, <2>5, Replaced DEF loop
  <2>7. CASE Loop.clean
    <3>1. InOrder(Len(loops))
      BY <2>1, <2>2, <2>7 DEF OrderInv
    <3>2. v = Loop.message.version
      BY <1>8, <2>2, <2>7, <3>1 DEF HandOver, Found, InOrder
    <3>3. v \in Nat /\ v <= shadowJsonVersionNum
      BY <2>2, <3>1, <3>2, VersionZero DEF InOrder
    <3>4. handed' = [handed EXCEPT ![Loop.at] = v]
      BY <1>8, <2>7 DEF HandOver
    <3>5. ASSUME NEW s \in Slots PROVE handed'[s] = IF s = Loop.at THEN v ELSE handed[s]
      BY <3>4 DEF DeltaTypeOK
    <3>6. \A s \in Slots : handed'[s] <= shadowJsonVersionNum
      BY <2>1, <3>3, <3>5 DEF OrderInv
    <3>7. ASSUME NEW s \in Slots, s > Loop.at PROVE handed'[s] < loop.message.version
      <4>1. s # Loop.at /\ s \in Ahead(loops[Len(loops)])
        BY <1>8, <2>2, <3>7, ShadowDeltasAssumption DEF HandOver, Ahead, LoopSet, Slots
      <4> QED BY <2>2, <2>4, <3>1, <3>5, <4>1 DEF InOrder
    <3>8. ASSUME NEW i \in DOMAIN loops', loops'[i].clean PROVE InOrder(i)'
      <4>1. i = Len(loops) /\ loops'[i] = loop
        <5>1. CASE i = Len(loops)
          BY <2>2, <2>6, <5>1
        <5>2. CASE i # Len(loops)
          <6>1. i \in DOMAIN loops /\ loops[i].clean
            <7>1. i \in 1..Len(loops) /\ loops'[i] = loops[i]
              BY <2>6, <5>2
            <7> QED BY <1>a, <3>8, <7>1
          <6> QED BY <2>1, <5>2, <6>1 DEF OrderInv, InOrder
        <5> QED BY <5>1, <5>2
      <4>2. shadowRxBuf' = loop.message /\ shadowJsonVersionNum' = shadowJsonVersionNum
        BY <1>8, <2>2, <2>4, <3>1 DEF HandOver, InOrder
      <4>3. loop.message.version <= shadowJsonVersionNum
        BY <2>2, <2>4, <3>1 DEF InOrder
      <4>4. \A s \in Ahead(loop) : handed'[s] < loop.message.version
        BY <2>4, <3>7 DEF Ahead
      <4> QED BY <2>6, <4>1, <4>2, <4>3, <4>4 DEF InOrder, Ahead
    <3> QED
      BY <1>8, <2>1, <3>6, <3>8 DEF HandOver, OrderInv
  <2>8. CASE ~Loop.clean
    <3>1. \A i \in DOMAIN loops : ~loops[i].clean
      BY <2>1, <2>2, <2>8 DEF OrderInv, InOrder
    <3>2. ASSUME NEW i \in DOMAIN loops' PROVE ~loops'[i].clean
      <4>1. i \in 1..Len(loops) /\ loops'[i] = IF i = Len(loops) THEN loop ELSE loops[i]
        BY <2>6
      <4>2. loops'[i].clean = loops[i].clean
        BY <2>2, <2>4, <4>1
      <4> QED BY <1>a, <3>1, <4>1, <4>2
    <3> QED
      BY <1>8, <2>1, <2>8, <3>2 DEF HandOver, OrderInv
  <2> QED BY <2>7, <2>8
<1>9. CASE NextKey
  <2>1. SUFFICES ASSUME ~relaxed PROVE OrderInv'
    BY <1>9 DEF NextKey, OrderInv
  <2>2. loops # <<>> /\ Loop \in LoopSet /\ Len(loops) \in Nat \ {0} /\ Loop = loops[Len(loops)]
    BY <1>9, <1>a, Innermost DEF NextKey, Loop
  <2> DEFINE loop == [Loop EXCEPT !.at = @ + 1, !.calling = FALSE]
  <2>3. loop \in LoopSet
    <3>1. Loop.at + 1 \in 1..MaxTokens + 1
      BY <1>9, <2>2, ShadowDeltasAssumption DEF NextKey, DeltaTypeOK, LoopSet
    <3> QED BY <2>2, <3>1 DEF LoopSet
  <2>4. loop.at = Loop.at + 1 /\ ~loop.calling /\ loop.message = Loop.message /\ loop.clean = Loop.clean
    BY <2>2 DEF LoopSet
  <2>5. loops' = Append(Outer, loop)
    BY <1>9 DEF NextKey
  <2> HIDE DEF loop
  <2>6. /\ Len(loops') = Len(loops) /\ DOMAIN loops' = 1..Len(loops)
        /\ \A i \in 1..Len(loops) : loops'[i] = IF i = Len(loops) THEN loop ELSE loops[i]
    BY <1>a, <2>2, <2>3, <2>5, Replaced
  <2>7. ASSUME NEW i \in DOMAIN loops', loops'[i].clean PROVE InOrder(i)'
    <3>1. i \in DOMAIN loops /\ loops[i].clean
      <4>1. i \in 1..Len(loops) /\ loops'[i] = IF i = Len(loops) THEN loop ELSE loops[i]
        BY <2>6
      <4>2. loops'[i].clean = loops[i].clean
        BY <2>2, <2>4, <4>1
      <4> QED BY <1>a, <2>7, <4>1, <4>2
    <3>2. InOrder(i) /\ i = Len(loops)
      BY <2>1, <3>1 DEF OrderInv, InOrder
    <3>3. loops'[i] = loop /\ loops[i] = Loop
      BY <2>2, <2>6, <3>2
    <3>4. Ahead(loop) \subseteq Ahead(Loop)
      BY <2>2, <2>4, ShadowDeltasAssumption DEF Ahead, LoopSet, Slots
    <3>5. shadowRxBuf' = shadowRxBuf /\ shadowJsonVersionNum' = shadowJsonVersionNum /\ handed' = handed
      BY <1>9 DEF NextKey
    <3>6. \A s \in Ahead(loop) : handed[s] < loop.message.version
      BY <2>4, <3>2, <3>3, <3>4 DEF InOrder
    <3>7. shadowRxBuf = loop.message /\ loop.message.version <= shadowJsonVersionNum
      BY <2>4, <3>2, <3>3 DEF InOrder
    <3> QED BY <2>6, <3>2, <3>3, <3>5, <3>6, <3>7 DEF InOrder, Ahead
  <2> QED
    BY <1>9, <2>1, <2>7 DEF NextKey, OrderInv
<1>10. CASE DeltaDone
  <2>1. SUFFICES ASSUME ~relaxed PROVE OrderInv'
    BY <1>10 DEF DeltaDone, OrderInv
  <2>2. ASSUME NEW i \in DOMAIN loops' PROVE ~loops'[i].clean
    <3>1. i \in 1..Len(loops) - 1 /\ Len(loops) \in Nat /\ loops'[i] = loops[i]
      BY <1>10, <1>a, Innermost DEF DeltaDone
    <3>2. i \in DOMAIN loops /\ i # Len(loops)
      BY <1>a, <3>1
    <3> QED BY <2>1, <3>1, <3>2 DEF OrderInv, InOrder
  <2> QED
    BY <1>10, <2>1, <2>2 DEF DeltaDone, OrderInv
<1>11. ASSUME NEW thing \in {"this"} \cup Others, NEW v \in Versions, GetAccepted(thing, v) PROVE OrderInv'
  <2>1. shadowJsonVersionNum' \in Nat /\ shadowJsonVersionNum' >= shadowJsonVersionNum
    BY <1>11, <1>b, VersionZero DEF GetAccepted
  <2> QED
    BY <1>11, <2>1, DisturbedInOrder DEF GetAccepted
<1>12. CASE OtherAnswer
  BY <1>12, <1>b, DisturbedInOrder DEF OtherAnswer
<1>13. CASE UNCHANGED deltaVars
  BY <1>13 DEF deltaVars, OrderInv, InOrder, Ahead
<1> QED
  BY <1>1, <1>2, <1>3, <1>4, <1>5, <1>6, <1>7, <1>8, <1>9, <1>10, <1>11, <1>12, <1>13 DEF DeltaNext

\* A clean loop that calls a callback hands over a version that is new to it.
LEMMA HandsOverNew ==
    ASSUME DeltaTypeOK, OrderInv, NEW v \in Versions, HandOver(v), Loop.clean, ~relaxed
    PROVE  v > handed[Loop.at]
<1>1. loops \in Seq(LoopSet)
  BY DEF DeltaTypeOK, LoopSet
<1>2. loops # <<>> /\ Loop \in LoopSet /\ Len(loops) \in Nat \ {0} /\ Loop = loops[Len(loops)]
  BY <1>1, Innermost DEF HandOver, Loop
<1>3. InOrder(Len(loops))
  BY <1>1, <1>2 DEF OrderInv
<1>4. v = Loop.message.version
  BY <1>2, <1>3 DEF HandOver, Found, InOrder
<1>5. Loop.at \in Slots /\ Loop.at \in Ahead(Loop)
  BY <1>2, ShadowDeltasAssumption DEF HandOver, DeltaTypeOK, Ahead, LoopSet, Slots
<1>6. handed[Loop.at] < v
  BY <1>2, <1>3, <1>4, <1>5 DEF InOrder
<1>7. v \in Nat /\ handed[Loop.at] \in Nat
  BY <1>5, VersionZero DEF DeltaTypeOK
<1> QED BY <1>6, <1>7

----------------------------------------------------------------------------
LEMMA AlwaysInOrder == DeltaSpec => [](DeltaTypeOK /\ OrderInv)
<1>1. DeltaInit => DeltaTypeOK /\ OrderInv
  BY InitTypeOK, InitOrderInv
<1>2. DeltaTypeOK /\ OrderInv /\ [DeltaNext]_deltaVars => (DeltaTypeOK /\ OrderInv)'
  BY NextTypeOK, NextOrderInv
<1> QED
  BY <1>1, <1>2, PTL DEF DeltaSpec

\* Every variable stays in its range; a loop never stands beyond the table of keys.
THEOREM TypeCorrect == DeltaSpec => []DeltaTypeOK
BY AlwaysTypeOK

\* The version number is one the shadow, or one of a similar name, has had
\* (isValidShadowVersionUpdate and shadow_delta_callback).
THEOREM VersionKnown == DeltaSpec => []VersionIsKnown
<1>1. DeltaInit => DeltaTypeOK /\ VersionInv
  BY InitTypeOK, InitVersionInv
<1>2. DeltaTypeOK /\ VersionInv /\ [DeltaNext]_deltaVars => (DeltaTypeOK /\ VersionInv)'
  BY NextTypeOK, NextVersionInv
<1>3. VersionInv => VersionIsKnown
  BY DEF VersionInv
<1> QED
  BY <1>1, <1>2, <1>3, PTL DEF DeltaSpec

\* While old deltas are discarded, a callback of shadow_delta_callback is called
\* with ever newer versions, unless its buffer has been overwritten meanwhile.
THEOREM InOrderOfVersions == DeltaSpec => HandedInOrder
<1> DEFINE Step == \A v \in Versions : HandOver(v) /\ Loop.clean /\ ~relaxed => v > handed[Loop.at]
<1>1. DeltaTypeOK /\ OrderInv => Step
  BY HandsOverNew
<1>2. DeltaTypeOK /\ OrderInv /\ [DeltaNext]_deltaVars => [Step]_deltaVars
  BY <1>1
<1> QED
  BY <1>2, AlwaysInOrder, PTL DEF DeltaSpec, HandedInOrder

----------------------------------------------------------------------------
(***************************************************************************)
(* The timers.  For every width of the counter, length of a tick and       *)
(* time-out: the counter is the start of the timer and the ticks passed    *)
(* since, up to a turn, and a timer remembers a poll that did not sleep.   *)
(***************************************************************************)

TimerType ==
    /\ ticks \in 0..(Wrap - 1)
    /\ timer \in [start : 0..(Wrap - 1), timeout : Nat, polled : 0..(Wrap - 1)]
    /\ asked \in Nat
    /\ passed \in 0..Wrap
    /\ spun \in 0..1

TimerInv ==
    /\ TimerType
    /\ ticks = Word(timer.start + passed)
    /\ asked < Wrap => timer.timeout = asked \div Period
    /\ spun > 0 => timer.polled = ticks

LEMMA Quotient ==
    ASSUME NEW a \in Nat, NEW b \in Nat \ {0}
    PROVE  /\ a \div b \in Nat
           /\ b * (a \div b) <= a
           /\ a < b * (a \div b) + b
  OBVIOUS

LEMMA Remainder ==
    ASSUME NEW n \in Nat \ {0}, NEW r \in 0..(n - 1), NEW k \in {-1, 0, 1}
    PROVE  (r + k * n) % n = r
  OBVIOUS

LEMMA Monotone ==
    ASSUME NEW a \in Nat, NEW b \in Nat, NEW c \in Nat
    PROVE  /\ a <= b => c * a <= c * b
           /\ a < b => c * a + c <= c * b
  OBVIOUS

\* A number below two turns of the counter, and the word it leaves.
LEMMA Words ==
    ASSUME NEW n \in Nat, n < 2 * Wrap
    PROVE  /\ Word(n) \in 0..(Wrap - 1)
           /\ Word(n) = IF n < Wrap THEN n ELSE n - Wrap
<1>1. Wrap \in Nat \ {0}
  BY TimersAssumption
<1>2. CASE n < Wrap
  <2>1. n \in 0..(Wrap - 1) /\ n = n + 0 * Wrap
    BY <1>1, <1>2
  <2> QED BY <1>1, <1>2, <2>1, Remainder DEF Word
<1>3. CASE n >= Wrap
  <2> DEFINE r == n - Wrap
  <2>1. r \in 0..(Wrap - 1) /\ n = r + 1 * Wrap
    BY <1>1, <1>3
  <2>2. (r + 1 * Wrap) % Wrap = r
    BY <1>1, <2>1, Remainder
  <2>3. Word(n) = r
    BY <2>1, <2>2 DEF Word
  <2> QED BY <1>1, <1>3, <2>1, <2>3
<1> QED BY <1>1, <1>2, <1>3

\* The tick counter is unsigned: it counts over its end.
LEMMA Counts ==
    ASSUME NEW start \in 0..(Wrap - 1), NEW n \in 0..(Wrap - 1)
    PROVE  /\ Word(start + n) \in 0..(Wrap - 1)
           /\ Word(Word(start + n) + 1) = Word(start + (n + 1))
           /\ Word(Word(start + n) - start) = n
<1>1. Wrap \in Nat \ {0}
  BY TimersAssumption
<1>2. /\ start + n \in Nat /\ start + n < 2 * Wrap
      /\ start + (n + 1) \in Nat /\ start + (n + 1) < 2 * Wrap
  BY <1>1
<1>3. /\ Word(start + n) \in 0..(Wrap - 1)
      /\ Word(start + n) = IF start + n < Wrap THEN start + n ELSE (start + n) - Wrap
  BY <1>2, Words
<1>4. Word(start + (n + 1)) = IF start + (n + 1) < Wrap THEN start + (n + 1) ELSE (start + (n + 1)) - Wrap
  BY <1>2, Words
<1>5. Word(Word(start + n) + 1) = Word(start + (n + 1))
  <2>1. Word(start + n) + 1 \in Nat /\ Word(start + n) + 1 < 2 * Wrap
    BY <1>1, <1>3
  <2>2. Word(Word(start + n) + 1) =
          IF Word(start + n) + 1 < Wrap THEN Word(start + n) + 1 ELSE (Word(start + n) + 1) - Wrap
    BY <2>1, Words
  <2> QED BY <1>1, <1>3, <1>4, <2>2
<1>6. Word(Word(start + n) - start) = n
  <2>1. Word(start + n) - start = n + 0 * Wrap \/ Word(start + n) - start = n + (-1) * Wrap
    BY <1>1, <1>3
  <2> QED BY <1>1, <2>1, Remainder DEF Word
<1> QED BY <1>3, <1>5, <1>6

LEMMA TimerStart == TimerInit => TimerInv
<1> SUFFICES ASSUME TimerInit PROVE TimerInv
  OBVIOUS
<1>1. Wrap \in Nat \ {0} /\ Period \in Nat \ {0}
  BY TimersAssumption
<1>2. TimerType
  BY <1>1 DEF TimerInit, TimerType
<1>3. Word(0) = 0
  BY <1>1, Words
<1>4. 0 \div Period = 0
  BY <1>1
<1> QED BY <1>1, <1>2, <1>3, <1>4 DEF TimerInit, TimerInv

\* The timer is set: the time asked for is cut to ticks, and none has passed.
LEMMA SetTimer ==
    ASSUME TimerInv, NEW ms \in Nat, NEW word \in 0..(Wrap - 1), ms < Wrap => word = ms,
           Set(CountdownMs(word), ms)
    PROVE  TimerInv'
<1>1. Wrap \in Nat \ {0} /\ Period \in Nat \ {0}
  BY TimersAssumption
<1>2. /\ timer' = [start |-> ticks, timeout |-> word \div Period, polled |-> 0]
      /\ asked' = ms /\ passed' = 0 /\ spun' = 0 /\ ticks' = ticks
  BY DEF Set, CountdownMs
<1>3. ticks \in 0..(Wrap - 1)
  BY DEF TimerInv, TimerType
<1>4. word \in Nat /\ word \div Period \in Nat
  BY <1>1, Quotient
<1>5. TimerType'
  BY <1>1, <1>2, <1>3, <1>4 DEF TimerType
<1>6. (ticks = Word(timer.start + passed))'
  <2>1. ticks = Word(ticks + 0)
    BY <1>1, <1>3, Words
  <2> QED BY <1>2, <2>1 DEF Word
<1>7. (asked < Wrap => timer.timeout = asked \div Period)'
  BY <1>2
<1>8. (spun > 0 => timer.polled = ticks)'
  BY <1>2
<1> QED BY <1>5, <1>6, <1>7, <1>8 DEF TimerInv

\* A tick goes by: the timer has one more behind it.
LEMMA TickPasses ==
    ASSUME TimerInv, Tick
    PROVE  /\ ticks' \in 0..(Wrap - 1) /\ passed' \in 0..Wrap /\ spun' = 0
           /\ ticks' = Word(timer.start + passed')
<1>1. Wrap \in Nat \ {0}
  BY TimersAssumption
<1>2. timer.start \in 0..(Wrap - 1) /\ passed \in 0..(Wrap - 1)
  BY <1>1 DEF TimerInv, TimerType, Tick
<1>3. ticks' = Word(Word(timer.start + passed) + 1) /\ passed' = passed + 1 /\ spun' = 0
  BY DEF TimerInv, Tick
<1>4. ticks' = Word(timer.start + (passed + 1))
  BY <1>2, <1>3, Counts
<1>5. timer.start + (passed + 1) \in Nat /\ timer.start + (passed + 1) < 2 * Wrap
  BY <1>1, <1>2
<1> QED BY <1>1, <1>2, <1>3, <1>4, <1>5, Words

LEMMA TimerStepped == TimerInv /\ [TimerNext]_timerVars => TimerInv'
<1> SUFFICES ASSUME TimerInv, [TimerNext]_timerVars PROVE TimerInv'
  OBVIOUS
<1>1. Wrap \in Nat \ {0} /\ MsPerSec \in Nat \ {0}
  BY TimersAssumption
<1>2. ASSUME NEW ms \in Timeouts, Set(CountdownMs(ms), ms) PROVE TimerInv'
  BY <1>1, <1>2, SetTimer, TimersAssumption
<1>3. ASSUME NEW sec \in Seconds, Set(CountdownSec(sec), sec * MsPerSec) PROVE TimerInv'
  <2> DEFINE ms == sec * MsPerSec
  <2>1. ms \in Nat
    BY <1>1, TimersAssumption
  <2>2. Word(ms) \in 0..(Wrap - 1)
    BY <1>1, <2>1 DEF Word
  <2>3. ms < Wrap => Word(ms) = ms
    BY <1>1, <2>1 DEF Word
  <2>4. Set(CountdownMs(Word(ms)), ms)
    BY <1>3 DEF CountdownSec
  <2> HIDE DEF ms
  <2> QED BY <2>1, <2>2, <2>3, <2>4, SetTimer
<1>4. CASE Tick /\ UNCHANGED <<timer, asked>>
  BY <1>4, TickPasses DEF TimerInv, TimerType
<1>5. CASE PollTimer
  <2>1. timer' = [timer EXCEPT !.polled = ticks] /\ asked' = asked
    BY <1>5 DEF PollTimer
  <2>2. ticks \in 0..(Wrap - 1) /\ timer \in [start : 0..(Wrap - 1), timeout : Nat, polled : 0..(Wrap - 1)]
    BY DEF TimerInv, TimerType
  <2>3. /\ timer' \in [start : 0..(Wrap - 1), timeout : Nat, polled : 0..(Wrap - 1)]
        /\ timer'.start = timer.start /\ timer'.timeout = timer.timeout /\ timer'.polled = ticks
    BY <2>1, <2>2
  <2>4. CASE ~HasTimerExpired /\ ticks = timer.polled
    <3>1. Tick
      BY <1>5, <2>4 DEF PollTimer
    <3> QED BY <2>1, <2>3, <3>1, TickPasses DEF TimerInv, TimerType
  <2>5. CASE ~(~HasTimerExpired /\ ticks = timer.polled)
    <3>1. ticks' = ticks /\ passed' = passed /\ spun' = IF HasTimerExpired THEN spun ELSE spun + 1
      BY <1>5, <2>5 DEF PollTimer
    \* A timer that is still running was not polled in this tick before.
    <3>2. ~HasTimerExpired => spun = 0
      BY <2>5 DEF TimerInv, TimerType
    <3>3. spun' \in 0..1
      BY <3>1, <3>2 DEF TimerInv, TimerType
    <3> QED BY <2>1, <2>3, <3>1, <3>3 DEF TimerInv, TimerType
  <2> QED BY <2>4, <2>5
<1>6. CASE UNCHANGED timerVars
  BY <1>6 DEF timerVars, TimerInv, TimerType
<1> QED BY <1>2, <1>3, <1>4, <1>5, <1>6 DEF TimerNext

\* What the invariant says of the time that is left.
LEMMA TimerTells == TimerInv => TimersExact
<1> SUFFICES ASSUME TimerInv, passed < Wrap, asked < Wrap
             PROVE  /\ HasTimerExpired <=> (passed + 1) * Period > asked
                    /\ LeftMs \in 0..asked
                    /\ LeftMs > 0 <=> ~HasTimerExpired
                    /\ LeftMs > asked - (passed + 1) * Period
  BY DEF TimersExact
<1> DEFINE q == asked \div Period
<1>1. Period \in Nat \ {0} /\ Wrap \in Nat \ {0} /\ asked \in Nat
  BY TimersAssumption DEF TimerInv, TimerType
<1>2. passed \in 0..(Wrap - 1) /\ timer.start \in 0..(Wrap - 1) /\ timer.timeout = q
  BY <1>1 DEF TimerInv, TimerType
<1>3. Elapsed = passed
  BY <1>2, Counts DEF Elapsed, TimerInv
<1>4. q \in Nat /\ Period * q <= asked /\ asked < Period * q + Period
  BY <1>1, Quotient
<1> HIDE DEF q
<1>5. HasTimerExpired <=> passed >= q
  BY <1>2, <1>3 DEF HasTimerExpired
<1>6. LeftMs = IF passed >= q THEN 0 ELSE (q - passed) * Period
  BY <1>2, <1>3, <1>5 DEF LeftMs
<1>7. (passed + 1) * Period = Period * passed + Period
  BY <1>1, <1>2
<1>8. Period * passed \in Nat /\ Period * q \in Nat
  BY <1>1, <1>2, <1>4
<1>9. CASE passed >= q
  <2>1. Period * q <= Period * passed
    BY <1>1, <1>2, <1>4, <1>9, Monotone
  <2> QED BY <1>1, <1>4, <1>5, <1>6, <1>7, <1>8, <1>9, <2>1
<1>10. CASE passed < q
  <2>1. Period * passed + Period <= Period * q
    BY <1>1, <1>2, <1>4, <1>10, Monotone
  <2>2. (q - passed) * Period = Period * q - Period * passed
    BY <1>1, <1>2, <1>4
  <2> QED BY <1>1, <1>2, <1>4, <1>5, <1>6, <1>7, <1>8, <1>10, <2>1, <2>2
<1> QED BY <1>2, <1>4, <1>9, <1>10

LEMMA TimerInvHolds == TimerSpec => []TimerInv
BY TimerStart, TimerStepped, PTL DEF TimerSpec

\* Every timer expires when its time-out, cut to ticks, has gone by, and tells
\* till then how much is left, however wide the counter is, however long a tick
\* is, and wherever the counter stood when the timer was set (timer.c).
THEOREM TimersAreExact == TimerSpec => []TimersExact
BY TimerInvHolds, TimerTells, PTL

\* A loop that polls a running timer sleeps from its second poll in a tick on,
\* so that other tasks run, also when the counter wraps (has_timer_expired).
THEOREM PollingLoopsSleep == TimerSpec => []PollingSleeps
<1>1. TimerInv => PollingSleeps
  BY DEF TimerInv, TimerType, PollingSleeps
<1> QED BY <1>1, TimerInvHolds, PTL
=============================================================================
