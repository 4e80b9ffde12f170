-------------------------- MODULE Reconnect_proofs --------------------------
(***************************************************************************)
(* For every set of topics, size of the handler table and back-off: the    *)
(* table keeps what the application was promised, and automatic reconnects *)
(* restore it at the broker as long as the application only subscribes and *)
(* the broker does not refuse.                                             *)
(***************************************************************************)
EXTENDS Reconnect, TLAPS

\* TypeOK in the parts that different provers are good at.
Flags ==
    /\ network \in BOOLEAN
    /\ session \in BOOLEAN
    /\ steady \in BOOLEAN

Types ==
    /\ state \in States
    /\ handlers \in [Handlers -> Topics \union {NoTopic}]
    /\ resubscribed \subseteq Handlers
    /\ interval \in 0..2 * MaxWait
    /\ caller \in {"none", "yield", "manual", "resubscribe"}
    /\ next \in 1..NumHandlers + 1
    /\ count \in 0..NumHandlers
    /\ broker \subseteq Topics
    /\ refused \subseteq Topics
    /\ wanted \subseteq Topics

\* A resubscription works on slots that are in use, and yield started it below
\* the maximum of the back-off.
PassInv ==
    caller # "none" =>
        /\ state = "RESUBSCRIBE_IN_PROGRESS"
        /\ \A h \in Handlers : h <= count => handlers[h] # NoTopic
        /\ caller = "yield" => interval <= MaxWait

TInv == Types /\ PassInv

LEMMA Init1 == Init => TInv /\ HandlersKept
<1> USE ReconnectAssumption
<1>1. Init => Types
    BY DEF Init, Types, States, Handlers
<1>2. Init => PassInv
    BY DEF Init, PassInv
<1>3. Init => HandlersKept
    BY DEF Init, HandlersKept
<1>4. QED BY <1>1, <1>2, <1>3 DEF TInv

LEMMA FlagsStep == Flags /\ [Next]_vars => Flags'
<1> SUFFICES ASSUME Flags, [Next]_vars PROVE Flags'
    OBVIOUS
<1>1. CASE Next
    BY <1>1, Zenon DEF Next, SessionDies, NetworkChanges, Subscribe, Unsubscribe, Disconnect,
        ConnectCall, ResubscribeCall, ManualReconnect, AttemptReconnect, AttemptFails,
        NewSession, ResubscribeStep, ResubscribeOne, ResubscribeSkips, ResubscribeFails,
        ResubscribeDone, DetectLoss, YieldReconnect, world, subscriptions, Flags
<1>2. CASE UNCHANGED vars BY <1>2, Zenon DEF vars, Flags
<1>3. QED BY <1>1, <1>2

LEMMA StartStep ==
    ASSUME TInv, NEW who \in {"yield", "manual", "resubscribe"}, StartResubscribe(who),
           broker' \subseteq Topics, refused' \subseteq Topics, who = "yield" => interval <= MaxWait
    PROVE  TInv'
<1> USE ReconnectAssumption
<1>1. PICK f \in 1..NumHandlers + 1 : IsFirstFree(f) /\ count' = f - 1
    BY DEF StartResubscribe
<1>2. Types'
    BY <1>1 DEF TInv, Types, StartResubscribe, States, Handlers
<1>3. \A h \in Handlers : h <= count' => handlers[h] # NoTopic
    BY <1>1 DEF IsFirstFree, Handlers
<1>4. PassInv'
    BY <1>3 DEF TInv, Types, PassInv, StartResubscribe
<1>5. QED BY <1>2, <1>4 DEF TInv

LEMMA TypeStep == TInv /\ [Next]_vars => TInv'
<1> SUFFICES ASSUME TInv, [Next]_vars PROVE TInv'
    OBVIOUS
<1> USE ReconnectAssumption
<1>1. CASE SessionDies
    BY <1>1 DEF SessionDies, Forgotten, TInv, Types, PassInv, pass, Handlers
<1>2. CASE NetworkChanges
    BY <1>2 DEF NetworkChanges, Forgotten, TInv, Types, PassInv, pass, Handlers
<1>3. ASSUME NEW t \in Topics, Subscribe(t) PROVE TInv'
    BY <1>3 DEF Subscribe, Answered, TInv, Types, PassInv, pass, Handlers
<1>4. ASSUME NEW t \in Topics, Unsubscribe(t) PROVE TInv'
    BY <1>4 DEF Unsubscribe, TInv, Types, PassInv, pass, Handlers
<1>5. CASE Disconnect
    BY <1>5 DEF Disconnect, Forgotten, TInv, Types, PassInv, pass, Handlers, States
<1>6. CASE ConnectCall
    BY <1>6
    DEF ConnectCall, NewSession, Forgotten, TInv, Types, PassInv, pass, world,
        subscriptions, Handlers, States
<1>7. CASE ResubscribeCall
    BY <1>7, StartStep DEF ResubscribeCall, world, subscriptions, TInv, Types
<1>8. CASE ManualReconnect
    <2>1. CASE AttemptReconnect("manual")
        BY <2>1, StartStep
        DEF AttemptReconnect, NewSession, Forgotten, world, subscriptions, TInv, Types
    <2>2. CASE AttemptFails /\ UNCHANGED interval
        BY <1>8, <2>2
        DEF ManualReconnect, AttemptFails, TInv, Types, PassInv, pass, world,
            subscriptions, Handlers, States
    <2>3. QED BY <1>8, <2>1, <2>2 DEF ManualReconnect
<1>9. CASE ResubscribeOne
    BY <1>9 DEF ResubscribeOne, Answered, TInv, Types, PassInv, Handlers
<1>10. CASE ResubscribeSkips
    BY <1>10 DEF ResubscribeSkips, TInv, Types, PassInv, world, subscriptions, Handlers
<1>11. CASE ResubscribeFails
    BY <1>11 DEF ResubscribeFails, Answered, subscriptions, TInv, Types, PassInv, Handlers
<1>12. CASE ResubscribeDone
    BY <1>12 DEF ResubscribeDone, TInv, Types, PassInv, world, subscriptions, Handlers, States
<1>13. CASE DetectLoss
    <2>1. interval' \in 0..2 * MaxWait
        <3>1. CASE AutoReconnect BY <1>13, <3>1 DEF DetectLoss
        <3>2. CASE ~AutoReconnect BY <1>13, <3>2 DEF DetectLoss, TInv, Types
        <3>3. QED BY <3>1, <3>2
    <2>2. PassInv'
        BY <1>13 DEF DetectLoss, pass, PassInv
    <2>3. QED BY <1>13, <2>1, <2>2
        DEF DetectLoss, TInv, Types, pass, world, subscriptions, Handlers, States
<1>14. CASE YieldReconnect
    <2>1. CASE AttemptReconnect("yield")
        BY <1>14, <2>1, StartStep
        DEF YieldReconnect, AttemptReconnect, NewSession, Forgotten, world, subscriptions,
            TInv, Types
    <2>2. CASE AttemptFails /\ interval' = 2 * interval
        BY <1>14, <2>2
        DEF YieldReconnect, AttemptFails, TInv, Types, PassInv, pass, world, subscriptions,
            Handlers, States
    <2>3. QED BY <1>14, <2>1, <2>2 DEF YieldReconnect
<1>15. CASE UNCHANGED vars
    BY <1>15 DEF vars, TInv, Types, PassInv, Handlers
<1>16. QED
    BY <1>1, <1>2, <1>3, <1>4, <1>5, <1>6, <1>7, <1>8, <1>9, <1>10, <1>11, <1>12, <1>13,
       <1>14, <1>15 DEF Next, ResubscribeStep

LEMMA KeptStep == TInv /\ HandlersKept /\ [Next]_vars => HandlersKept'
<1> SUFFICES ASSUME TInv, HandlersKept, [Next]_vars PROVE HandlersKept'
    OBVIOUS
<1>1. ASSUME NEW t \in Topics, Subscribe(t) PROVE HandlersKept'
    <2>1. CASE UNCHANGED <<handlers, wanted>>
        BY <2>1 DEF HandlersKept, Active, Handlers
    <2>2. ASSUME NEW f \in Handlers, IsFirstFree(f),
                 handlers' = [handlers EXCEPT ![f] = t], wanted' = wanted \union {t}
          PROVE  HandlersKept'
        <3> SUFFICES ASSUME NEW w \in wanted' PROVE w \in Active'
            BY DEF HandlersKept
        <3>1. CASE w = t
            <4>1. handlers'[f] = t
                BY <2>2 DEF TInv, Types
            <4>2. QED BY <3>1, <4>1, ReconnectAssumption DEF Active
        <3>2. CASE w # t
            <4>1. PICK h \in Handlers : handlers[h] = w /\ w # NoTopic
                BY <2>2, <3>2 DEF HandlersKept, Active
            <4>2. handlers'[h] = w
                BY <2>2, <4>1 DEF TInv, Types, IsFirstFree
            <4>3. QED BY <4>1, <4>2 DEF Active
        <3>3. QED BY <3>1, <3>2
    <2>3. QED BY <1>1, <2>1, <2>2 DEF Subscribe
<1>2. ASSUME NEW t \in Topics, Unsubscribe(t) PROVE HandlersKept'
    <2> SUFFICES ASSUME NEW w \in wanted' PROVE w \in Active'
        BY DEF HandlersKept
    <2>1. w \in wanted /\ w # t
        BY <1>2 DEF Unsubscribe
    <2>2. PICK h \in Handlers : handlers[h] = w /\ w # NoTopic
        BY <2>1 DEF HandlersKept, Active
    <2>3. handlers'[h] = w
        BY <1>2, <2>1, <2>2 DEF Unsubscribe
    <2>4. QED BY <2>2, <2>3 DEF Active
<1>3. ASSUME UNCHANGED <<handlers, wanted>> PROVE HandlersKept'
    BY <1>3 DEF HandlersKept, Active, Handlers
<1>4. QED
    BY <1>1, <1>2, <1>3
    DEF Next, vars, SessionDies, NetworkChanges, Disconnect, ConnectCall, ResubscribeCall,
        ManualReconnect, AttemptReconnect, AttemptFails, StartResubscribe, ResubscribeStep,
        ResubscribeOne, ResubscribeSkips, ResubscribeFails, ResubscribeDone, DetectLoss,
        YieldReconnect

\* The table has no hole before a slot in use.
NoHoles ==
    \A g, h \in Handlers : g < h /\ handlers[h] # NoTopic => handlers[g] # NoTopic

\* What the client's flags and loop counters say is true of the broker: an idle
\* client has had the broker's answer for its whole table in this session, a
\* flag set during a session stands for an answer of that session, and a
\* resubscription has done every slot it has passed.
Restored ==
    /\ state = "CONNECTED_IDLE" /\ session =>
         \A h \in Handlers : handlers[h] # NoTopic => handlers[h] \in broker \union refused
    /\ state = "RESUBSCRIBE_IN_PROGRESS" /\ session =>
         \A h \in resubscribed : handlers[h] \in broker \union refused
    /\ state = "PENDING_RECONNECT" => resubscribed = {}
    /\ caller # "none" =>
         /\ \A h \in Handlers : h < next => h \in resubscribed
         /\ \A h \in Handlers : count < h => handlers[h] = NoTopic

RestoreInv == NoHoles /\ Restored

\* Whichever way the broker answers, nothing that it has answered is forgotten.
LEMMA AnswerKept ==
    ASSUME NEW t, Answered(t)
    PROVE  broker' \union refused' = broker \union refused \union {t}
BY DEF Answered

LEMMA StartRestores ==
    ASSUME TInv, NoHoles, NEW who, StartResubscribe(who), Restored,
           \/ resubscribed = {}
           \/ state = "RESUBSCRIBE_IN_PROGRESS" /\ UNCHANGED <<session, broker, refused>>
    PROVE  RestoreInv'
<1> USE ReconnectAssumption
<1>1. NoHoles'
    BY DEF StartResubscribe, NoHoles, Handlers
<1>2. PICK f \in 1..NumHandlers + 1 : IsFirstFree(f) /\ count' = f - 1
    BY DEF StartResubscribe
<1>3. ASSUME NEW h \in Handlers, count' < h PROVE handlers'[h] = NoTopic
    <2>1. f \in Handlers /\ f <= h
        BY <1>2, <1>3 DEF Handlers
    <2>2. QED BY <1>2, <2>1 DEF IsFirstFree, NoHoles, StartResubscribe
<1>4. \A h \in Handlers : h < next' => h \in resubscribed'
    BY DEF StartResubscribe, Handlers
<1>5. session' => \A h \in resubscribed' : handlers'[h] \in broker' \union refused'
    BY DEF StartResubscribe, Restored
<1>6. QED BY <1>1, <1>3, <1>4, <1>5 DEF RestoreInv, Restored, StartResubscribe

LEMMA SteadyStep == Flags /\ [Next]_vars /\ steady' => steady
<1> SUFFICES ASSUME Flags, [Next]_vars PROVE steady' => steady
    OBVIOUS
<1>1. CASE Next
    BY <1>1, Zenon DEF Next, SessionDies, NetworkChanges, Subscribe, Unsubscribe, Disconnect,
        ConnectCall, ResubscribeCall, ManualReconnect, ResubscribeStep, ResubscribeOne,
        ResubscribeSkips, ResubscribeFails, ResubscribeDone, DetectLoss, YieldReconnect
<1>2. CASE UNCHANGED vars BY <1>2, Zenon DEF vars
<1>3. QED BY <1>1, <1>2

LEMMA RestoreStep == TInv /\ RestoreInv /\ [Next]_vars /\ steady' => RestoreInv'
<1> SUFFICES ASSUME TInv, RestoreInv, [Next]_vars, steady' PROVE RestoreInv'
    OBVIOUS
<1> USE ReconnectAssumption
<1>1. CASE SessionDies
    BY <1>1 DEF SessionDies, Forgotten, RestoreInv, NoHoles, Restored, pass, Handlers
<1>2. CASE NetworkChanges
    BY <1>2 DEF NetworkChanges, Forgotten, RestoreInv, NoHoles, Restored, pass, Handlers
<1>3. ASSUME NEW t \in Topics, Subscribe(t) PROVE RestoreInv'
    <2>1. CASE UNCHANGED <<handlers, wanted>>
        BY <1>3, <2>1, AnswerKept DEF Subscribe, RestoreInv, NoHoles, Restored, pass, Handlers
    <2>2. ASSUME NEW f \in Handlers, IsFirstFree(f), handlers' = [handlers EXCEPT ![f] = t]
          PROVE  RestoreInv'
        <3>1. \A h \in Handlers : handlers'[h] = IF h = f THEN t ELSE handlers[h]
            BY <2>2 DEF TInv, Types
        <3>2. NoHoles'
            BY <2>2, <3>1 DEF RestoreInv, NoHoles, IsFirstFree, Handlers
        <3>3. \A h \in Handlers : handlers'[h] # NoTopic => handlers'[h] \in broker' \union refused'
            BY <1>3, <3>1, AnswerKept DEF Subscribe, RestoreInv, Restored
        <3>4. QED BY <1>3, <3>2, <3>3 DEF Subscribe, RestoreInv, Restored, pass, Handlers
    <2>3. QED BY <1>3, <2>1, <2>2 DEF Subscribe
<1>4. ASSUME NEW t \in Topics, Unsubscribe(t) PROVE FALSE
    BY <1>4 DEF Unsubscribe
<1>5. ~Disconnect /\ ~ConnectCall /\ ~ResubscribeCall /\ ~ManualReconnect
    BY DEF Disconnect, ConnectCall, ResubscribeCall, ManualReconnect
<1>6. CASE ResubscribeOne
    <2>1. next \in Handlers
        BY <1>6 DEF ResubscribeOne, TInv, Types, Handlers
    <2>2. \A h \in Handlers : h < next' => h \in resubscribed'
        BY <1>6, <2>1 DEF ResubscribeOne, RestoreInv, Restored, Handlers
    <2>3. QED
        BY <1>6, <2>1, <2>2, AnswerKept
        DEF ResubscribeOne, RestoreInv, NoHoles, Restored, Handlers, TInv, PassInv
<1>7. CASE ResubscribeSkips
    <2>1. \A h \in Handlers : h < next' => h \in resubscribed'
        BY <1>7 DEF ResubscribeSkips, RestoreInv, Restored, Handlers, TInv, Types
    <2>2. QED
        BY <1>7, <2>1
        DEF ResubscribeSkips, RestoreInv, NoHoles, Restored, world, subscriptions,
            Handlers, TInv, PassInv
<1>8. CASE ResubscribeFails
    BY <1>8, AnswerKept
    DEF ResubscribeFails, subscriptions, RestoreInv, NoHoles, Restored, Handlers, TInv, PassInv
<1>9. CASE ResubscribeDone
    <2>1. ASSUME session', NEW h \in Handlers, handlers[h] # NoTopic
          PROVE  handlers[h] \in broker \union refused
        <3>1. h <= count
            BY <1>9, <2>1 DEF ResubscribeDone, RestoreInv, Restored, Handlers, TInv, Types
        <3>2. h \in resubscribed
            BY <1>9, <3>1 DEF ResubscribeDone, RestoreInv, Restored, Handlers, TInv, Types
        <3>3. QED
            BY <1>9, <2>1, <3>2
            DEF ResubscribeDone, RestoreInv, Restored, world, subscriptions, TInv, PassInv
    <2>2. QED
        BY <1>9, <2>1
        DEF ResubscribeDone, RestoreInv, NoHoles, Restored, world, subscriptions, Handlers
<1>10. CASE DetectLoss
    BY <1>10
    DEF DetectLoss, RestoreInv, NoHoles, Restored, pass, world, subscriptions, Handlers
<1>11. CASE YieldReconnect
    <2>1. CASE state = "PENDING_RECONNECT" /\ AttemptReconnect("yield")
        <3>1. StartResubscribe("yield") /\ resubscribed = {}
            BY <2>1 DEF AttemptReconnect, RestoreInv, Restored
        <3>2. QED BY <3>1, StartRestores DEF RestoreInv
    <2>2. CASE state = "RESUBSCRIBE_IN_PROGRESS" /\ AttemptReconnect("yield")
        <3>1. StartResubscribe("yield") /\ UNCHANGED <<session, broker, refused>>
            BY <2>2 DEF AttemptReconnect, ConnectedStates, world, subscriptions
        <3>2. QED BY <2>2, <3>1, StartRestores DEF RestoreInv
    <2>3. CASE AttemptFails
        BY <1>11, <2>3
        DEF YieldReconnect, AttemptFails, ConnectedStates, RestoreInv, NoHoles, Restored, pass,
            world, subscriptions, Handlers
    <2>4. QED BY <1>11, <2>1, <2>2, <2>3 DEF YieldReconnect
<1>12. CASE UNCHANGED vars
    BY <1>12 DEF vars, RestoreInv, NoHoles, Restored, Handlers
<1>13. QED
    BY <1>1, <1>2, <1>3, <1>4, <1>5, <1>6, <1>7, <1>8, <1>9, <1>10, <1>11, <1>12
    DEF Next, ResubscribeStep

-----------------------------------------------------------------------------
\* Every variable stays in its range; in particular the back-off is never
\* doubled past twice its maximum.
THEOREM TypeCorrect == Spec => []TypeOK
<1>1. Init => Flags
    BY Zenon DEF Init, Flags
<1>2. Init => TInv
    BY Init1
<1>3. Flags /\ TInv => TypeOK
    BY DEF Flags, TInv, Types, TypeOK
<1>4. QED BY <1>1, <1>2, <1>3, FlagsStep, TypeStep, PTL DEF Spec

\* Whatever calls the application makes and however often the link is lost, a
\* subscription it was promised keeps its handler until it unsubscribes.
THEOREM TableKept == Spec => []HandlersKept
<1>1. Init => TInv /\ HandlersKept
    BY Init1
<1>2. TInv /\ HandlersKept /\ [Next]_vars => TInv' /\ HandlersKept'
    BY TypeStep, KeptStep
<1>3. QED BY <1>1, <1>2, PTL DEF Spec

\* If the application only subscribes, automatic reconnects leave an idle client
\* on a live session with every subscription it was promised, but for those that
\* the broker refused in this session and the client took for made: for every
\* size of the table, every pattern of losses and half-done resubscriptions, and
\* whatever the broker answers.
THEOREM ReconnectRestores == Spec => []SubscriptionsLive
<1>1. Init => TInv /\ HandlersKept /\ RestoreInv /\ Flags
    <2>1. Init => RestoreInv
        BY ReconnectAssumption DEF Init, RestoreInv, NoHoles, Restored, Handlers
    <2>2. QED BY <2>1, Init1, Zenon DEF Init, Flags
<1> DEFINE Inv == TInv /\ HandlersKept /\ Flags /\ (steady => RestoreInv)
<1>2. Inv /\ [Next]_vars => Inv'
    BY TypeStep, KeptStep, FlagsStep, SteadyStep, RestoreStep
<1>3. Inv => SubscriptionsLive
    BY DEF HandlersKept, Active, RestoreInv, Restored, SubscriptionsLive
<1>4. QED BY <1>1, <1>2, <1>3, PTL DEF Spec
=============================================================================
