---------------------------- MODULE ShadowDeltas ----------------------------
(***************************************************************************)
(* The delta messages of the device's own shadow, and the version number   *)
(* that tells new ones from old ones.                                      *)
(*                                                                         *)
(* Deltas come at QoS 0: late, more than once, in any order.  Every shadow *)
(* message is copied to one static buffer, shadowRxBuf, and parsed into    *)
(* one static array.  The callback of a key may make requests, which read  *)
(* the connection: further messages are then handled while the loop over   *)
(* the keys of the first is still on, in the same buffer.                  *)
(*                                                                         *)
(* Left out: a callback that connects the shadow or initialises it anew.   *)
(***************************************************************************)
EXTENDS Integers, Sequences

CONSTANTS
    Keys,           \* keys of the state
    MaxTokens,      \* MAX_JSON_TOKEN_EXPECTED, the size of tokenTable
    Others,         \* further things the application asks for
    Similar,        \* those whose name contains the name of this one
    MaxVersion,     \* bound of the model: versions of a shadow
    MaxDepth        \* bound of the model: deltas in progress

ASSUME ShadowDeltasAssumption ==
    {MaxTokens, MaxVersion, MaxDepth} \subseteq Nat

VARIABLES
    cloud,          \* the version of the shadow
    deltas,         \* the delta messages the cloud has sent, which may come at any time
    subscribed,     \* the broker's side of the subscription
    deltaTopicSubscribedFlag,
    tokenTable,     \* the registered keys
    shadowJsonVersionNum,
    shadowDiscardOldDeltaFlag,
    shadowRxBuf,    \* the message copied last
    loops,          \* runs of shadow_delta_callback, the innermost last
    handed,         \* per registration, the version a clean loop called its callback with last
    relaxed,        \* old deltas have been let in, or the version was reset
    foreign         \* the highest version taken from a similar thing

deltaVars == <<cloud, deltas, subscribed, deltaTopicSubscribedFlag, tokenTable, shadowJsonVersionNum,
               shadowDiscardOldDeltaFlag, shadowRxBuf, loops, handed, relaxed, foreign>>

Slots == 1..MaxTokens
Versions == 0..MaxVersion
Message(v, keys) == [version |-> v, keys |-> keys]
Messages == [version : Versions, keys : SUBSET Keys]

Loop == loops[Len(loops)]
Outer == SubSeq(loops, 1, Len(loops) - 1)

\* The connection is read: outside of a callback, or by a request it makes.
Reading == loops = <<>> \/ (loops # <<>> /\ Loop.calling)

\* A message is copied into shadowRxBuf: the loops that are on go on with it.
Copied(m) == shadowRxBuf' = m
Disturbed == [i \in DOMAIN loops |-> [loops[i] EXCEPT !.clean = FALSE]]

DeltaInit ==
    /\ cloud = 0 /\ deltas = {} /\ subscribed = FALSE
    /\ deltaTopicSubscribedFlag = FALSE /\ tokenTable = <<>>
    /\ shadowJsonVersionNum = 0 /\ shadowDiscardOldDeltaFlag = TRUE
    /\ shadowRxBuf = Message(0, {}) /\ loops = <<>>
    /\ handed = [s \in Slots |-> 0] /\ relaxed = FALSE /\ foreign = 0

----------------------------------------------------------------------------
\* registerJsonTokenOnDelta: the flag is set whether the subscription worked or not.
RegisterDelta(key, works) ==
    /\ Reading
    /\ subscribed' = (subscribed \/ (~deltaTopicSubscribedFlag /\ works))
    /\ deltaTopicSubscribedFlag' = TRUE
    /\ tokenTable' = IF Len(tokenTable) >= MaxTokens THEN tokenTable ELSE Append(tokenTable, key)
    /\ UNCHANGED <<cloud, deltas, shadowJsonVersionNum, shadowDiscardOldDeltaFlag, shadowRxBuf, loops, handed, relaxed, foreign>>

\* aws_iot_shadow_connect begins a clean session: the broker forgets, the flag stays.
NewSession ==
    /\ loops = <<>>
    /\ subscribed' = FALSE
    /\ UNCHANGED <<cloud, deltas, deltaTopicSubscribedFlag, tokenTable, shadowJsonVersionNum, shadowDiscardOldDeltaFlag,
                   shadowRxBuf, loops, handed, relaxed, foreign>>

\* aws_iot_shadow_init on the client, once more: the registrations and the version begin anew.
ShadowInit ==
    /\ loops = <<>>
    /\ tokenTable' = <<>> /\ deltaTopicSubscribedFlag' = FALSE /\ subscribed' = FALSE
    /\ shadowJsonVersionNum' = 0
    /\ handed' = [s \in Slots |-> 0]
    /\ UNCHANGED <<cloud, deltas, shadowDiscardOldDeltaFlag, shadowRxBuf, loops, relaxed, foreign>>

\* The shadow changes; keys differ from what the device has reported.
CloudUpdates(keys) ==
    /\ cloud < MaxVersion
    /\ cloud' = cloud + 1
    /\ deltas' = IF subscribed /\ keys # {} THEN deltas \cup {Message(cloud + 1, keys)} ELSE deltas
    /\ UNCHANGED <<subscribed, deltaTopicSubscribedFlag, tokenTable, shadowJsonVersionNum, shadowDiscardOldDeltaFlag,
                   shadowRxBuf, loops, handed, relaxed, foreign>>

\* aws_iot_shadow_enable_discard_old_delta_msgs and _disable_: while it is off the version stands still.
SetDiscard(on) ==
    /\ Reading
    /\ shadowDiscardOldDeltaFlag' = on
    /\ relaxed' = (relaxed \/ ~on)
    /\ UNCHANGED <<cloud, deltas, subscribed, deltaTopicSubscribedFlag, tokenTable, shadowJsonVersionNum, shadowRxBuf,
                   loops, handed, foreign>>

\* aws_iot_shadow_reset_last_received_version
ResetVersion ==
    /\ Reading
    /\ shadowJsonVersionNum' = 0
    /\ relaxed' = TRUE
    /\ UNCHANGED <<cloud, deltas, subscribed, deltaTopicSubscribedFlag, tokenTable, shadowDiscardOldDeltaFlag,
                   shadowRxBuf, loops, handed, foreign>>

\* A mutant of IsNew: a delta with the version that is known already is let in.
IsNewOrKnown(v) == v >= shadowJsonVersionNum

IsNew(v) == v > shadowJsonVersionNum

\* shadow_delta_callback up to its loop: an old delta is dropped, copied as it is.
DeltaComes(m) ==
    /\ Reading
    /\ Len(loops) < MaxDepth
    /\ Copied(m)
    /\ IF shadowDiscardOldDeltaFlag /\ ~IsNew(m.version)
       THEN loops' = Disturbed /\ UNCHANGED shadowJsonVersionNum
       ELSE /\ loops' = Append(Disturbed, [message |-> m, at |-> 1, calling |-> FALSE, clean |-> TRUE])
            /\ shadowJsonVersionNum' = IF shadowDiscardOldDeltaFlag THEN m.version ELSE shadowJsonVersionNum
    /\ UNCHANGED <<cloud, deltas, subscribed, deltaTopicSubscribedFlag, tokenTable, shadowDiscardOldDeltaFlag, handed,
                   relaxed, foreign>>

\* The values the loop may find for a key: what the buffer says; when another
\* message has been copied over the one it began with, also what is left of
\* that behind the end of the new one, or nothing at all.
Found(key) ==
    LET from == IF Loop.clean THEN {shadowRxBuf} ELSE {shadowRxBuf, Loop.message}
    IN {m.version : m \in {n \in from : key \in n.keys}}
Missed(key) == ~Loop.clean \/ key \notin shadowRxBuf.keys

\* The callback of the registration "at" is called with the value of version v.
HandOver(v) ==
    /\ loops # <<>> /\ ~Loop.calling
    /\ Loop.at <= Len(tokenTable)
    /\ v \in Found(tokenTable[Loop.at])
    /\ handed' = IF Loop.clean THEN [handed EXCEPT ![Loop.at] = v] ELSE handed
    /\ loops' = Append(Outer, [Loop EXCEPT !.calling = TRUE])
    /\ UNCHANGED <<cloud, deltas, subscribed, deltaTopicSubscribedFlag, tokenTable, shadowJsonVersionNum,
                   shadowDiscardOldDeltaFlag, shadowRxBuf, relaxed, foreign>>

\* The callback returns, or the key is not in the document.
NextKey ==
    /\ loops # <<>>
    /\ Loop.at <= Len(tokenTable)
    /\ Loop.calling \/ Missed(tokenTable[Loop.at])
    /\ loops' = Append(Outer, [Loop EXCEPT !.at = @ + 1, !.calling = FALSE])
    /\ UNCHANGED <<cloud, deltas, subscribed, deltaTopicSubscribedFlag, tokenTable, shadowJsonVersionNum,
                   shadowDiscardOldDeltaFlag, shadowRxBuf, handed, relaxed, foreign>>

DeltaDone ==
    /\ loops # <<>>
    /\ Loop.at > Len(tokenTable)
    /\ loops' = Outer
    /\ UNCHANGED <<cloud, deltas, subscribed, deltaTopicSubscribedFlag, tokenTable, shadowJsonVersionNum,
                   shadowDiscardOldDeltaFlag, shadowRxBuf, handed, relaxed, foreign>>

\* A mutant of IsValidShadowVersionUpdate: every get/accepted counts.
IsAnyVersionUpdate(thing) == TRUE

\* isValidShadowVersionUpdate on a get/accepted topic: strstr finds the name
\* of this thing in that of a similar one.
IsValidShadowVersionUpdate(thing) == thing \in {"this"} \cup Similar

\* AckStatusCallback on a get/accepted of a thing, with a version of its shadow.
GetAccepted(thing, v) ==
    /\ Reading
    /\ thing = "this" => v <= cloud
    /\ Copied(Message(v, Keys))
    /\ loops' = Disturbed
    /\ shadowJsonVersionNum' = IF IsValidShadowVersionUpdate(thing) /\ v > shadowJsonVersionNum
                               THEN v ELSE shadowJsonVersionNum
    /\ foreign' = IF thing \in Similar /\ v > foreign THEN v ELSE foreign
    /\ UNCHANGED <<cloud, deltas, subscribed, deltaTopicSubscribedFlag, tokenTable, shadowDiscardOldDeltaFlag, handed,
                   relaxed>>

\* The answer to another action, or a rejection.
OtherAnswer ==
    /\ Reading
    /\ Copied(Message(0, {}))
    /\ loops' = Disturbed
    /\ UNCHANGED <<cloud, deltas, subscribed, deltaTopicSubscribedFlag, tokenTable, shadowJsonVersionNum,
                   shadowDiscardOldDeltaFlag, handed, relaxed, foreign>>

DeltaNext ==
    \/ \E key \in Keys, works \in BOOLEAN : RegisterDelta(key, works)
    \/ NewSession
    \/ ShadowInit
    \/ \E keys \in SUBSET Keys : CloudUpdates(keys)
    \/ \E on \in BOOLEAN : SetDiscard(on)
    \/ ResetVersion
    \/ \E m \in deltas : DeltaComes(m)
    \/ \E v \in Versions : HandOver(v)
    \/ NextKey
    \/ DeltaDone
    \/ \E thing \in {"this"} \cup Others, v \in Versions : GetAccepted(thing, v)
    \/ OtherAnswer

DeltaSpec == DeltaInit /\ [][DeltaNext]_deltaVars

----------------------------------------------------------------------------
DeltaTypeOK ==
    /\ cloud \in Versions /\ deltas \subseteq Messages /\ subscribed \in BOOLEAN
    /\ deltaTopicSubscribedFlag \in BOOLEAN /\ tokenTable \in Seq(Keys) /\ Len(tokenTable) <= MaxTokens
    /\ shadowJsonVersionNum \in Versions /\ shadowDiscardOldDeltaFlag \in BOOLEAN
    /\ shadowRxBuf \in Messages
    /\ loops \in Seq([message : Messages, at : 1..MaxTokens + 1, calling : BOOLEAN, clean : BOOLEAN])
    /\ handed \in [Slots -> Versions] /\ relaxed \in BOOLEAN /\ foreign \in Versions

\* However late and often deltas come, a callback is called with ever newer
\* versions while old deltas are discarded, unless the message in the buffer
\* has been replaced during an earlier callback of the same loop
\* (shadow_delta_callback, "To avoid getting called for the same message").
HandedInOrder == [][\A v \in Versions : HandOver(v) /\ Loop.clean /\ ~relaxed => v > handed[Loop.at]]_deltaVars

\* The version number is one that this shadow, or one with a similar name, has
\* had: otherwise every delta would be taken for old until the shadow gets there.
VersionIsKnown == shadowJsonVersionNum <= cloud \/ shadowJsonVersionNum <= foreign
=============================================================================
