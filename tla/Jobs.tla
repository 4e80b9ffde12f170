-------------------------------- MODULE Jobs --------------------------------
(***************************************************************************)
(* The jobs API: topics for requests and subscriptions, and the documents  *)
(* of the requests, both printed into buffers of the application.          *)
(*                                                                         *)
(* A topic is a sequence of level names and separators, each of which      *)
(* counts as one character; an n-character literal is n symbols.           *)
(***************************************************************************)
EXTENDS TopicFilters

NoJob == "NULL"

\* A mutant of Operation: the list of pending jobs is asked for like the next one.
OperationMixed(type) ==
    CASE type = "UPDATE" -> "update" [] type = "NOTIFY" -> "notify" [] type = "NOTIFY_NEXT" -> "notify-next"
      [] type = "DESCRIBE" -> "get" [] type \in {"START_NEXT", "GET_PENDING"} -> "start-next"
      [] type = "WILDCARD" -> "+" [] OTHER -> NoJob

\* _get_operation_for_base_topic
Operation(type) ==
    CASE type = "UPDATE" -> "update" [] type = "NOTIFY" -> "notify" [] type = "NOTIFY_NEXT" -> "notify-next"
      [] type \in {"GET_PENDING", "DESCRIBE"} -> "get" [] type = "START_NEXT" -> "start-next"
      [] type = "WILDCARD" -> "+" [] OTHER -> NoJob

\* _base_topic_requires_job_id
RequiresJobId(type) == type \in {"UPDATE", "DESCRIBE"}

\* _get_suffix_for_topic_type
Suffix(reply) ==
    CASE reply = "REQUEST" -> <<>> [] reply = "ACCEPTED" -> <<"/", "accepted">>
      [] reply = "REJECTED" -> <<"/", "rejected">> [] reply = "WILDCARD" -> <<"/", "+">>

Base(thing) == <<"$aws", "/", "things", "/", thing, "/", "jobs", "/">>

\* aws_iot_jobs_get_api_topic; <<>> is the result -1.
ApiTopic(type, reply, thing, jobId) ==
    IF \/ type \in {"NOTIFY", "NOTIFY_NEXT"} /\ reply # "REQUEST"
       \/ RequiresJobId(type) /\ jobId = NoJob
       \/ Operation(type) = NoJob
    THEN <<>>
    ELSE
    CASE RequiresJobId(type) \/ (type = "WILDCARD" /\ jobId # NoJob) ->
           Base(thing) \o <<jobId, "/", Operation(type)>> \o Suffix(reply)
      [] type = "WILDCARD" /\ jobId = NoJob -> Append(Base(thing), "#")
      [] OTHER -> Base(thing) \o <<Operation(type)>> \o Suffix(reply)

\* CHECK_GENERATE_STRING_RESULT
Generated(size, bufferSize) ==
    CASE size < 0 -> "FAILURE" [] size >= bufferSize -> "LIMIT_EXCEEDED_ERROR" [] OTHER -> "SUCCESS"

\* aws_iot_jobs_subscribe_to_job_messages: the filter that is subscribed, or <<>>.
Subscribed(sub, bufferSize) ==
    LET topic == ApiTopic(sub.type, sub.reply, sub.thing, sub.jobId)
    IN IF Generated(IF topic = <<>> THEN -1 ELSE Len(topic), bufferSize) = "SUCCESS" THEN topic ELSE <<>>

----------------------------------------------------------------------------
(* The documents, printed field by field with _printToBuffer.              *)
Symbols(name, n) == [i \in 1..n |-> <<name, i>>]

\* The fields of a request in the order they are printed.
Fields == [update |-> <<"status", "statusDetails", "executionNumber", "expectedVersion",
                        "includeJobExecutionState", "includeJobDocument", "clientToken">>,
           describe |-> <<"clientToken", "executionNumber", "includeJobDocument">>,
           start |-> <<"statusDetails", "clientToken">>,
           query |-> <<"clientToken">>]

\* A mutant of PrintToBuffer: what did not fit is not counted.
PrintToBufferWritten(state, text) ==
    LET fits == IF state.room > Len(text) THEN Len(text) ELSE Max({state.room - 1, 0})
    IN [total |-> state.total + fits, text |-> state.text \o SubSeq(text, 1, fits),
        room |-> IF state.room > Len(text) THEN state.room - Len(text) ELSE 0]

\* _printToBuffer: the size that was needed goes on growing when the buffer is full.
PrintToBuffer(state, text) ==
    LET fits == IF state.room > Len(text) THEN Len(text) ELSE Max({state.room - 1, 0})
    IN [total |-> state.total + Len(text), text |-> state.text \o SubSeq(text, 1, fits),
        room |-> IF state.room > Len(text) THEN state.room - Len(text) ELSE 0]

\* _printKey, and the value behind it
PrintField(state, first, name, valueLen) ==
    PrintToBuffer(PrintToBuffer(state, IF first THEN <<"{">> \o Symbols(name, 3) ELSE <<",">> \o Symbols(name, 3)),
                  Symbols("value", valueLen))

\* aws_iot_jobs_json_serialize_update_job_execution_request and its siblings:
\* an empty describe request is printed without its opening brace.
SerializeRequest(kind, given, valueLen, bufferSize) ==
    LET names == SelectSeq(Fields[kind], LAMBDA n : n \in given)
        printed[i \in 0..Len(names)] ==
            IF i = 0 THEN [total |-> 0, text |-> <<>>, room |-> bufferSize]
            ELSE PrintField(printed[i - 1], i = 1, names[i], valueLen)
        open == IF kind = "start" /\ names = <<>> THEN PrintToBuffer(printed[0], <<"{">>) ELSE printed[Len(names)]
    IN PrintToBuffer(open, <<"}">>)

\* aws_iot_jobs_send_query, _start_next, _describe and _send_update: topic, then
\* document, then publish.  The status of an update is one that has a name.
RequestType == [update |-> "UPDATE", describe |-> "DESCRIBE", start |-> "START_NEXT", query |-> "GET_PENDING"]

\* Requests that are published with an empty payload: a query without a token,
\* and a describe request without a message buffer, whatever fields it gives.
NoBuffer == 0
IsBare(r) ==
    \/ r.kind = "query" /\ r.given = {}
    \/ r.kind = "describe" /\ r.messageSize = NoBuffer

SendRequest(r) ==
    LET topic == ApiTopic(RequestType[r.kind], "REQUEST", r.thing, r.jobId)
        topicRc == Generated(IF topic = <<>> THEN -1 ELSE Len(topic), r.topicSize)
        document == SerializeRequest(r.kind, r.given, r.valueLen, r.messageSize)
        documentRc == IF r.kind = "update" /\ "status" \notin r.given THEN "FAILURE"
                      ELSE IF IsBare(r) THEN "SUCCESS" ELSE Generated(document.total, r.messageSize)
        rcs == << IF r.kind = "update" /\ r.jobId = NoJob THEN "NULL_VALUE_ERROR" ELSE "SUCCESS", topicRc, documentRc >>
        failed == {i \in DOMAIN rcs : rcs[i] # "SUCCESS"}
    IN IF failed # {} THEN [rc |-> rcs[Min(failed)]]
       ELSE [rc |-> "SUCCESS", topic |-> topic, payload |-> IF IsBare(r) THEN <<>> ELSE document.text]

----------------------------------------------------------------------------
\* The object with the given fields.
MeantDocument(kind, given, valueLen) ==
    LET names == SelectSeq(Fields[kind], LAMBDA n : n \in given)
        fields[i \in 0..Len(names)] ==
            IF i = 0 THEN <<>>
            ELSE fields[i - 1] \o (IF i > 1 THEN <<",">> ELSE <<>>) \o Symbols(names[i], 3) \o Symbols("value", valueLen)
    IN <<"{">> \o fields[Len(names)] \o <<"}">>

\* A request that is published carries its whole document, and what does not
\* fit the buffers is refused before anything is sent; the exceptions are a
\* describe request without a field, and one with fields but without a buffer.
RequestWhole(r) ==
    LET sent == SendRequest(r)
        meant == MeantDocument(r.kind, r.given, r.valueLen)
    IN ~(r.kind = "describe" /\ (r.given = {} <=> r.messageSize # NoBuffer)) =>
          /\ sent.rc = "SUCCESS" =>
                sent.payload = (IF IsBare(r) THEN <<>> ELSE meant) /\ Len(sent.topic) < r.topicSize
          /\ sent.rc = "LIMIT_EXCEEDED_ERROR" =>
                \/ ~IsBare(r) /\ Len(meant) >= r.messageSize
                \/ Len(ApiTopic(RequestType[r.kind], "REQUEST", r.thing, r.jobId)) >= r.topicSize

\* The service's answer to a request, and its notifications.
Answers(thing, jobIds) ==
    LET answer(type, jobId, reply) == [type |-> type, jobId |-> jobId, reply |-> reply, topic |->
            Base(thing) \o (IF jobId = NoJob THEN <<>> ELSE <<jobId, "/">>)
            \o (CASE type = "GET_PENDING" -> <<"get">> [] type = "START_NEXT" -> <<"start-next">>
                  [] type = "DESCRIBE" -> <<"get">> [] type = "UPDATE" -> <<"update">>
                  [] type = "NOTIFY" -> <<"notify">> [] OTHER -> <<"notify-next">>)
            \o (CASE reply = "ACCEPTED" -> <<"/", "accepted">> [] reply = "REJECTED" -> <<"/", "rejected">> [] OTHER -> <<>>)]
    IN {answer(t, NoJob, p) : t \in {"GET_PENDING", "START_NEXT"}, p \in {"ACCEPTED", "REJECTED"}}
       \cup {answer(t, j, p) : t \in {"DESCRIBE", "UPDATE"}, j \in jobIds, p \in {"ACCEPTED", "REJECTED"}}
       \cup {answer(t, NoJob, "REQUEST") : t \in {"NOTIFY", "NOTIFY_NEXT"}}

\* A handler subscribed through the jobs API is called for the answers it
\* subscribed to and for no others, the client matching the topics; without a
\* job the wildcard topic stands for everything, and on requests it is no use.
AnswersHeard(sub, jobIds) ==
    LET filter == Subscribed(sub, 100)
    IN filter # <<>> /\ <<sub.type, sub.reply>> # <<"WILDCARD", "REQUEST">> => \A a \in Answers(sub.thing, jobIds) :
          IsTopicMatched(filter, a.topic) <=>
             IF sub.type = "WILDCARD" /\ sub.jobId = NoJob THEN TRUE
             ELSE /\ IF sub.type = "WILDCARD" THEN a.jobId # NoJob ELSE a.type = sub.type
                  /\ IF a.jobId = NoJob THEN TRUE ELSE sub.jobId \in {a.jobId, "+"}
                  /\ sub.reply \in {a.reply, "WILDCARD"}
=============================================================================
