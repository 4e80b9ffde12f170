------------------------------- MODULE MCData -------------------------------
(***************************************************************************)
(* One run over the functions on data, over Timers and over ShadowDeltas.  *)
(*                                                                         *)
(* "input" is Idle or what one of the functions is called with: Call       *)
(* chooses it, Return forgets it, and a property of a function looks at    *)
(* the results for it.  A behaviour that sets a timer goes on with the     *)
(* timer, one that begins with a step of the shadow with the shadow.       *)
(***************************************************************************)
EXTENDS Packets, Jobs, Timers, ShadowDocuments, ShadowValues, Discovery, ShadowDeltas

VARIABLE input

vars == <<input, deltaVars, timerVars>>

\* Every time-out the counter can hold, and one it cannot.
MCTimeouts == 0..15
MCSeconds == 0..4

MCBits == [int8 |-> 3, int16 |-> 4, int32 |-> 5]

UpTo(S, n) == UNION {[1..k -> S] : k \in 1..n}
Optional(S) == {<<>>} \cup {<<s>> : s \in S}

----------------------------------------------------------------------------
(* Packets: lengths on both sides of 127 and of a full write buffer.       *)
Bytes(n) == [i \in 1..n |-> (37 * i) % 256]
Wills == [topic : {Bytes(1)}, message : {<<>>, Bytes(2)}, qos : {0, 1}, retained : BOOLEAN]

Connects ==
    [type : {"CONNECT"}, clean : BOOLEAN, keepAlive : {0, 300},
     clientID : Optional({<<>>, Bytes(3), Bytes(102), Bytes(104), Bytes(106)}),
     will : Optional(Wills), username : Optional({Bytes(2)}), password : Optional({<<>>, Bytes(3)})]
Publishes ==
    {p \in [type : {"PUBLISH"}, qos : {0, 1}, retained : BOOLEAN, topic : {Bytes(1), Bytes(3)},
            payload : {Bytes(n) : n \in {0, 1, 2} \cup 115..131}, id : {0, 1, 258}] : p.qos = 0 <=> p.id = 0}
Filters(qos) == UpTo([topic : {Bytes(1), Bytes(61), Bytes(63)}, qos : qos], 2)
Requests ==
    [type : {"SUBSCRIBE"}, id : {1, 258}, filters : Filters({0, 1})]
    \cup [type : {"UNSUBSCRIBE"}, id : {1, 258}, filters : Filters({0})]
    \cup [type : {"PUBACK"}, id : {1, 258, 65535}] \cup [type : {"PINGREQ", "DISCONNECT"}]
Answered ==
    Publishes \cup [type : {"SUBACK"}, id : {1, 258}, codes : UpTo({0, 1, 128}, 3)]
    \cup [type : {"CONNACK"}, session : {0, 1}, code : 0..6] \cup [type : {"PUBACK", "UNSUBACK"}, id : {1, 258, 65535}]

\* Topics and filters of up to four characters, a dollar sign among three.
TopicCases ==
    [filter : {f \in UpTo({"a", "/", "+", "#"}, 4) \cup UpTo({"$", "a", "/", "+", "#"}, 3) : WellFormed(f)},
     topic : UpTo({"a", "b", "/"}, 4) \cup UpTo({"$", "a", "/"}, 3)]

----------------------------------------------------------------------------
(* Jobs: buffers that are just too small, and jobs of one's own and of others. *)
JobRequests ==
    {r \in [kind : DOMAIN Fields, thing : {"thing"}, jobId : {NoJob, "job1"}, given : SUBSET Range(Fields.update),
            valueLen : {0, 2}, topicSize : {9, 10, 11, 12, 20}, messageSize : {NoBuffer, 1, 2, 3, 12, 13, 50}] :
        r.given \subseteq Range(Fields[r.kind]) /\ (r.messageSize = NoBuffer => r.kind = "describe")}
JobSubscriptions ==
    [type : {"UPDATE", "NOTIFY", "NOTIFY_NEXT", "GET_PENDING", "DESCRIBE", "START_NEXT", "WILDCARD"},
     reply : {"REQUEST", "ACCEPTED", "REJECTED", "WILDCARD"}, thing : {"thing"}, jobId : {NoJob, "job1", "job2", "+"}]

----------------------------------------------------------------------------
(* Shadow documents: every size of the buffer up to one that holds them.   *)
Pairs == [key : {"k"}, keyLen : {1, 3}, valueLen : {1, 4}, isNull : {FALSE}]
         \cup [key : {"k"}, keyLen : {1}, valueLen : {1}, isNull : {TRUE}]
Sections == [title : {"desired", "reported"}, pairs : UpTo(Pairs, 2)]
DocumentCases ==
    [max : 12..70, sections : {<<s>> : s \in Sections}, tokenLen : {3}]
    \cup [max : 40..84, sections : {<<[title |-> "reported", pairs |-> ps], [title |-> "desired", pairs |-> ps]>> : ps \in UpTo(Pairs, 1)},
          tokenLen : {1}]

(* Values at the ends of the types, and of other kinds.                    *)
Numbers == {Number(n, FALSE) : n \in -20..36}
Values == Numbers \cup {Literal("true"), Literal("null"), Str("k"), Str("x"), Object(<<>>), Array(<<Str("x")>>)}
ValueCases == [v : Values, type : DOMAIN Bits, old : {99}]

(* Shadow documents received: members of state and document in any order.  *)
States == {Object(m) : m \in UpTo({"k", "other", "version"} \X {Number(5, FALSE), Str("k"), Object(<< <<"k", Str("x")>> >>)}, 2)}
Metadata == Object(<< <<"k", Object(<< <<"timestamp", Number(7, FALSE)>> >>)>> >>)
Members(s) == << <<"state", s>>, <<"metadata", Metadata>>, <<"version", Number(3, FALSE)>>, <<"clientToken", Str("token")>> >>
Received == {Object([i \in 1..4 |-> Members(s)[order[i]]]) : s \in States, order \in Permutations(1..4)}
Structs ==
    [key : {"k"}, type : {"string"}, old : {"old"}, fits : {TRUE}, len : {1}, room : {1, 9}]
    \cup [key : {"k"}, type : {"bool", "int8", "uint8"}, old : {99}, fits : BOOLEAN, len : {1}, room : {9}]
ReadCases == [doc : Received, struct : Structs]

----------------------------------------------------------------------------
(* Discovery: one group of two cores with two interfaces each, or two groups. *)
Interface(host, port) == << <<"HostAddress", Str(host)>>, <<"PortNumber", Number(port, FALSE)>> >>
Interfaces == {Interface(LoopBack, 1), Interface("::1", 2), Interface("ip", 3), Reverse(Interface("ip2", 4))}
Connectivities(n) == {Array(<<>>)} \cup {Array([i \in DOMAIN fs |-> Object(fs[i])]) : fs \in UpTo(Interfaces, n)}
Flip(seq, first) == Object(IF first THEN seq ELSE Reverse(seq))
Core(name, connectivity, first) == Flip(<< <<"thingArn", Str(name)>>, <<"Connectivity", connectivity>> >>, first)
Group(name, cores, cas, first) ==
    Flip(<< <<"GGGroupId", Str(name)>>, <<"Cores", Array(cores)>>, <<"CAs", Array(<<Str(cas)>>)>> >>, first)
CloudDocument(groups) == Object(<< <<"GGGroups", Array(groups)>> >>)

CloudDocuments ==
    {CloudDocument(<<Group("g1", <<Core("c1", a, first)>>, "cas1", first)>>) : a \in Connectivities(2), first \in BOOLEAN}
    \cup {CloudDocument(<<Group("g1", <<Core("c1", a, first), Core("c2", b, first)>>, "cas1", first)>>) :
             a, b \in Connectivities(2), first \in BOOLEAN}
    \cup {CloudDocument(<<Group("g1", <<Core("c1", a, TRUE)>>, "cas1", TRUE), Group("g2", <<Core("c2", b, TRUE)>>, "cas2", TRUE)>>) :
             a, b \in Connectivities(1)}
DiscoveryCases ==
    [document : CloudDocuments, group : {"g1", "g2"}, core : {"c1", "c2"}, auto : {FALSE}]
    \cup [document : CloudDocuments, group : {"any"}, core : {"any"}, auto : {TRUE}]
CertificateCases == [lines : UpTo(UpTo({"a", "n"}, 2), 3)]

----------------------------------------------------------------------------
Idle == [kind |-> "idle"]
Cases ==
    [sent |-> Connects \cup Publishes \cup Requests, read |-> Answered, topic |-> TopicCases, jobsRequest |-> JobRequests, jobsTopic |-> JobSubscriptions, document |-> DocumentCases, value |-> ValueCases,
     state |-> ReadCases, discovery |-> DiscoveryCases, certificate |-> CertificateCases]

Call ==
    /\ input = Idle /\ DeltaInit /\ TimerInit
    /\ \E kind \in DOMAIN Cases : \E c \in Cases[kind] : input' = [kind |-> kind, case |-> c]
    /\ UNCHANGED <<deltaVars, timerVars>>
Return == input # Idle /\ input' = Idle /\ UNCHANGED <<deltaVars, timerVars>>

Init == DeltaInit /\ TimerInit /\ input = Idle
Next ==
    \/ Call
    \/ Return
    \/ input = Idle /\ TimerInit /\ DeltaNext /\ UNCHANGED <<input, timerVars>>
    \/ input = Idle /\ DeltaInit /\ TimerNext /\ UNCHANGED <<input, deltaVars>>
Spec == Init /\ [][Next]_vars

\* Given(kind): the input, when it is of this kind, as a set of at most one.
Given(kind) == IF input.kind = kind THEN {input.case} ELSE {}

\* What the broker reads is what the client was asked to send, and what the
\* client reads is what the broker sent; only what does not fit the buffer is
\* refused (aws_iot_mqtt_internal_send_packet and the serialisers ahead of it).
PacketsExact == (\A p \in Given("sent") : SentAsMeant(p)) /\ (\A m \in Given("read") : ReadAsMeant(m))

\* A message goes to the handlers whose filters match it in MQTT, except for
\* the two cases the walk of _aws_iot_mqtt_internal_is_topic_matched misses and
\* for topics that begin with a dollar sign, which it treats like any other.
TopicsMatch == \A c \in Given("topic") : MatchesAsMqtt(c.filter, c.topic)

\* A jobs request is published whole or refused, and a jobs subscription gets
\* the answers it is for (aws_iot_jobs_send_*, aws_iot_jobs_get_api_topic).
JobsExact ==
    /\ \A r \in Given("jobsRequest") : RequestWhole(r)
    /\ \A s \in Given("jobsTopic") : AnswersHeard(s, {"job1", "job2"})

\* A shadow document is the one that is meant or an error, whatever the size of
\* the buffer, unless a value straddles its end (aws_iot_shadow_add_reported).
DocumentsWhole == \A c \in Given("document") : DocumentWhole(c.max, c.sections, c.tokenLen)

\* A value in a received shadow document ends up in its variable, and no other
\* (isJsonKeyMatchingAndUpdateValue and the parsers of aws_iot_json_utils.c).
ValuesFound ==
    /\ \A c \in Given("value") : ValueStored(c.v, c.type, c.old)
    /\ \A c \in Given("state") : StateIsRead(c.doc, c.struct)

\* Discovery answers with an address, a port and a certificate that belong
\* together (GGD_GetGGCIPandCertificate).
CoreFound ==
    /\ \A c \in Given("discovery") : OfferIsFound(c.document, c.group, c.core, c.auto)
    /\ \A c \in Given("certificate") : CertificateIsWhole(c.lines)
=============================================================================
