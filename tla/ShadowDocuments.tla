-------------------------- MODULE ShadowDocuments ---------------------------
(***************************************************************************)
(* The JSON documents of the shadow: how an update is written piece by     *)
(* piece into a buffer of the application, and how a value is found in     *)
(* what comes back.                                                        *)
(*                                                                         *)
(* A literal of n characters is n symbols, so that a text that is cut is   *)
(* told from a whole one.                                                  *)
(***************************************************************************)
EXTENDS Json

CONSTANT SizeWrap    \* 2^32, the range of size_t

ASSUME ShadowDocumentsAssumption == SizeWrap \in Nat \ {0}

Text(name, n) == [i \in 1..n |-> <<name, i>>]
Comma == << <<"comma", 1>> >>
Brace == << <<"brace", 1>> >>
StateOpen == Text("{\"state\":{", 10)
Titles == [desired |-> Text("\"desired\":{", 11), reported |-> Text("\"reported\":{", 12)]
TokenOpen == Text(", \"clientToken\":\"", 17)
RequestOpen == Text("{\"clientToken\":\"", 16)
Close == Text("\"}", 2)

\* A document: its text, the bytes it has touched, terminator included, and the last result.
Empty == [text |-> <<>>, touched |-> 0, rc |-> "SUCCESS"]

\* snprintf at an offset, with a size, and checkReturnValueOfSnPrintf.
Snprintf(d, at, size, text) ==
    LET written == Min({Len(text), size - 1})
    IN IF d.rc # "SUCCESS" THEN d
       ELSE [text |-> SubSeq(d.text, 1, at) \o SubSeq(text, 1, written),
             touched |-> Max({d.touched, at + written + 1}),
             rc |-> IF Len(text) >= size THEN "SHADOW_JSON_BUFFER_TRUNCATED" ELSE "SUCCESS"]

\* What is left of the buffer, as size_t: more than there ever was, once the text has left it.
Remaining(d, max) == (max - Len(d.text)) % SizeWrap
Room(d, max) == IF d.rc = "SUCCESS" /\ Remaining(d, max) <= 1 THEN [d EXCEPT !.rc = "SHADOW_JSON_ERROR"] ELSE d

\* aws_iot_shadow_init_json_document
InitDocument(max) == Snprintf(Empty, 0, max, StateOpen)

\* One pair of aws_iot_shadow_add_desired or _reported; convertDataToString is
\* given the size that was left ahead of the key.
AddPair(s, max, pair) ==
    LET d == Room(s.doc, max)
        rem == Remaining(d, max)
        key == Snprintf(d, Len(d.text), rem, Text(pair.key, pair.keyLen + 3))
    IN [rem |-> rem,
        doc |-> IF pair.isNull /\ key.rc = "SUCCESS" THEN [key EXCEPT !.rc = "NULL_VALUE_ERROR"]
                ELSE Snprintf(key, Len(key.text), rem, Text(pair.key, pair.valueLen) \o Comma)]

\* aws_iot_shadow_add_desired and aws_iot_shadow_add_reported: the last comma becomes a brace.
AddSection(d, max, title, pairs) ==
    LET open == Room(d, max)
        rem == Remaining(open, max)
        upTo[n \in 0..Len(pairs)] ==
            IF n = 0 THEN [rem |-> rem, doc |-> Snprintf(open, Len(open.text), rem, Titles[title])]
            ELSE AddPair(upTo[n - 1], max, pairs[n])
        s == upTo[Len(pairs)]
    IN Snprintf(s.doc, Len(s.doc.text) - 1, s.rem, Brace \o Comma)

\* aws_iot_finalize_json_document and FillWithClientTokenSize, the token having tokenLen characters.
Finalize(d, max, tokenLen) ==
    LET write(doc, back, text) == LET r == Room(doc, max) IN Snprintf(r, Len(r.text) - back, Remaining(r, max), text)
    IN write(write(write(d, 1, Brace \o TokenOpen), 0, Text("token", tokenLen)), 0, Close)

\* A mutant of BuildDocument: the last comma of the state stays.
BuildUnfinalized(max, sections, tokenLen) ==
    LET upTo[n \in 0..Len(sections)] ==
            IF n = 0 THEN InitDocument(max) ELSE AddSection(upTo[n - 1], max, sections[n].title, sections[n].pairs)
        d == upTo[Len(sections)]
    IN Snprintf(d, Len(d.text), Remaining(d, max), Brace \o TokenOpen \o Text("token", tokenLen) \o Close)

\* The calls an application makes, one after another, until one fails.
BuildDocument(max, sections, tokenLen) ==
    LET upTo[n \in 0..Len(sections)] ==
            IF n = 0 THEN InitDocument(max) ELSE AddSection(upTo[n - 1], max, sections[n].title, sections[n].pairs)
    IN Finalize(upTo[Len(sections)], max, tokenLen)

\* emptyJsonWithClientToken: the last check lets a text that fills the buffer pass.
EmptyJson(max, tokenLen) ==
    LET total == Len(RequestOpen) + tokenLen + Len(Close)
        whole == RequestOpen \o Text("token", tokenLen) \o Close
    IN IF total > max \/ Len(RequestOpen) + tokenLen >= max
       THEN [rc |-> "FAILURE", text |-> <<>>]
       ELSE [rc |-> "SUCCESS", text |-> SubSeq(whole, 1, Min({total, max - 1}))]

----------------------------------------------------------------------------
\* The document that is meant.
Meant(sections, tokenLen) ==
    LET pair(p) == Text(p.key, p.keyLen + 3) \o Text(p.key, p.valueLen)
        pairs(ps) == FlattenSeq([i \in DOMAIN ps |-> pair(ps[i]) \o (IF i < Len(ps) THEN Comma ELSE Brace)])
        all == FlattenSeq([i \in DOMAIN sections |-> Titles[sections[i].title] \o pairs(sections[i].pairs)
                                               \o (IF i < Len(sections) THEN Comma ELSE Brace)])
    IN StateOpen \o all \o TokenOpen \o Text("token", tokenLen) \o Close

\* A value straddles the end of the buffer when its key fits and it does not:
\* it is cut by the room there was ahead of the key, if at all.
Straddles(max, sections) ==
    \E i \in DOMAIN sections : \E j \in DOMAIN sections[i].pairs :
        LET p == sections[i].pairs[j]
            before == Len(StateOpen)
                + MapThenSumSet(LAMBDA k : 1 + Len(Titles[sections[k].title])
                                   + MapThenSumSet(LAMBDA m : sections[k].pairs[m].keyLen + 4 + sections[k].pairs[m].valueLen,
                                                   1..(IF k = i THEN j - 1 ELSE Len(sections[k].pairs))), 1..i) - 1
            left == max - before
        IN p.keyLen + 3 < left /\ left - (p.keyLen + 3) <= p.valueLen + 1

\* Unless a value straddles the end of the buffer, building succeeds exactly
\* when the document fits, the document is the one that is meant, and at most
\* the one byte behind a buffer that is filled is touched on the way; a request
\* without a state is whole unless it fills the buffer.
DocumentWhole(max, sections, tokenLen) ==
    LET d == BuildDocument(max, sections, tokenLen)
        request == EmptyJson(max, tokenLen)
        nulls == \E i \in DOMAIN sections : \E j \in DOMAIN sections[i].pairs : sections[i].pairs[j].isNull
    IN /\ ~Straddles(max, sections) =>
             /\ d.rc = "SUCCESS" <=> ~nulls /\ Len(Meant(sections, tokenLen)) < max
             /\ d.rc = "SUCCESS" => d.text = Meant(sections, tokenLen) /\ d.touched <= max
             /\ d.touched <= max + 1
       /\ request.rc = "SUCCESS" /\ Len(RequestOpen) + tokenLen + Len(Close) # max
          => request.text = RequestOpen \o Text("token", tokenLen) \o Close
=============================================================================
