---------------------------- MODULE ShadowValues ----------------------------
(***************************************************************************)
(* How the shadow finds values in a document it has received: it scans     *)
(* the tokens in text order, at every depth, keys and values alike, and    *)
(* passes over the metadata, which repeats the keys of the state.          *)
(***************************************************************************)
EXTENDS Json

\* UpdateValueIfNoObject: the variable of a jsonStruct_t, by its type; an
\* object is handed on as text.
UpdateValueIfNoObject(struct, token) ==
    IF ~struct.fits THEN [rc |-> "SHADOW_JSON_ERROR", value |-> struct.old]
    ELSE
    CASE struct.type = "bool" -> ParseBoolean(token, struct.old)
      [] struct.type = "float" -> ParseFloating(token, struct.old)
      [] struct.type \in DOMAIN Bits -> ParseInteger(struct.type, token, struct.old)
      [] struct.type = "uint8" -> ParseUnsigned("int8", token, struct.old)
      [] struct.type = "uint16" -> ParseUnsigned("int16", token, struct.old)
      [] struct.type = "uint32" -> ParseUnsigned("int32", token, struct.old)
      [] struct.type = "string" -> ParseString(token, struct.len, struct.room, struct.old)
      [] OTHER -> [rc |-> "SHADOW_JSON_ERROR", value |-> struct.old]

\* A mutant of FindKey: the keys of the metadata are looked at too.
FindKeyAnywhere(tokens, key) ==
    LET from[i \in Nat] ==
          IF i > Len(tokens) THEN 0 ELSE IF Jsoneq(tokens[i], key) THEN i + 1 ELSE from[i + 1]
    IN from[2]

\* The search of isJsonKeyMatchingAndUpdateValue: 0, where the value is, or an
\* overrun.  Metadata whose value is the last token ends the search; a longer
\* value is skipped up to the first token that ends behind it, and the loop does
\* not look at the number of tokens.
FindKey(tokens, key) ==
    LET from[i \in Nat] ==
          IF i > Len(tokens) THEN 0
          ELSE IF Jsoneq(tokens[i], key) THEN i + 1
          ELSE IF ~Jsoneq(tokens[i], "metadata") THEN from[i + 1]
          ELSE IF i >= Len(tokens) - 1 THEN 0
          ELSE LET next == i + 1 + tokens[i + 1].span
               IN IF next > Len(tokens) THEN Overrun ELSE from[next]
    IN from[2]

\* isJsonKeyMatchingAndUpdateValue: what it may come to; the result of the
\* conversion is not looked at.  After an overrun the key counts as missing,
\* unless the reads beyond the array fault.
KeyMatchingAndUpdateValue(tokens, struct) ==
    LET at == FindKey(tokens, struct.key)
        missing == [matched |-> "no", value |-> struct.old]
    IN CASE at = 0 -> {missing}
         [] at = Overrun -> {missing, [missing EXCEPT !.matched = "fault"]}
         [] OTHER -> {[matched |-> "yes", value |-> UpdateValueIfNoObject(struct, tokens[at]).value]}

\* extractVersionNumber: the first "version" that has an unsigned number behind it, or -1.
ExtractVersion(tokens) ==
    LET versions == {i \in 2..Len(tokens) - 1 : Jsoneq(tokens[i], "version")
                                               /\ ParseUnsigned("int32", tokens[i + 1], 0).rc = "SUCCESS"}
    IN IF versions = {} THEN -1 ELSE ParseUnsigned("int32", tokens[Min(versions) + 1], 0).value

\* extractClientToken: what is behind the first "clientToken", if the caller has room for its
\* len characters.
ExtractClientToken(tokens, room, len) ==
    LET keys == {i \in 2..Len(tokens) - 1 : Jsoneq(tokens[i], "clientToken")}
        text == tokens[Min(keys) + 1].of.text
    IN IF keys = {} \/ room < len + 1 THEN "none" ELSE text

----------------------------------------------------------------------------
Member(object, key) == LET is == {i \in DOMAIN object.members : object.members[i][1] = key}
                       IN IF is = {} THEN <<>> ELSE <<object.members[Min(is)][2]>>

\* The strings among the tokens of a value that equal s.
Occurrences(v, s) == LET ts == Tokens(v) IN {i \in DOMAIN ts : Jsoneq(ts[i], s)}

\* s names one member of the state at most, and nothing else outside the metadata;
\* a member of a member counts.
Unambiguous(doc, s) ==
    /\ Cardinality(UNION {{i} \X Occurrences(doc.members[i][2], s) : i \in {j \in DOMAIN doc.members : doc.members[j][1] # "metadata"}}) <= 1
    /\ \A i \in DOMAIN doc.members :
          /\ doc.members[i][1] # s
          /\ doc.members[i][2].type = "STRING" => doc.members[i][2].text \notin {s, "metadata"}
    /\ Occurrences(Member(doc, "state")[1], "metadata") = {}
    /\ Occurrences(Member(doc, "state")[1], s) # {} => Member(Member(doc, "state")[1], s) # <<>>
    /\ \A i \in DOMAIN Member(doc, "state")[1].members :
          LET v == Member(doc, "state")[1].members[i][2] IN v.type = "STRING" => v.text # s

\* Whatever the order of the members of a shadow document, a key that the state
\* has is found, with the value the state gives it and never with what the
\* metadata says of it, as long as nothing else in the document is spelled like
\* the key; the variable is left alone when it cannot hold that value.  A key
\* that the state does not have is reported missing and its variable left alone,
\* but only a document that does not end with its metadata is searched within
\* its bounds.  (findToken leaves them for a missing key of a last member.)  The
\* version is that of the document.
StateIsRead(doc, struct) ==
    LET tokens == Tokens(doc)
        read == KeyMatchingAndUpdateValue(tokens, struct)
        state == Member(doc, "state")[1]
        inState == Member(state, struct.key)
        ends(with) == doc.members[Len(doc.members)][1] = with
        direct == FindToken(tokens, FindToken(tokens, 1, "state"), struct.key)
        missing == [matched |-> "no", value |-> struct.old]
    IN /\ Unambiguous(doc, struct.key) =>
             IF inState = <<>>
             THEN /\ missing \in read
                  /\ ~ends("metadata") => read = {missing}
                  /\ direct = IF ends("state") /\ state.members # <<>> THEN Overrun ELSE 0
             ELSE /\ read = {[matched |-> "yes", value |-> UpdateValueIfNoObject(struct, Tokens(inState[1])[1]).value]}
                  /\ direct = FindKey(tokens, struct.key)
       /\ Member(doc, "version") # <<>> /\ Cardinality(Occurrences(doc, "version")) = 1 =>
             ExtractVersion(tokens) = Member(doc, "version")[1].value
       /\ Member(doc, "clientToken") # <<>> /\ Cardinality(Occurrences(doc, "clientToken")) = 1 =>
             ExtractClientToken(tokens, 2, 1) = Member(doc, "clientToken")[1].text
=============================================================================
