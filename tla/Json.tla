-------------------------------- MODULE Json --------------------------------
(***************************************************************************)
(* Parsed JSON as jsmn gives it to the client, and the helpers that look   *)
(* for keys and convert values.                                            *)
(*                                                                         *)
(* jsmn turns a document into a flat sequence of tokens in text order, a   *)
(* key being a STRING like any other.  The "end" of a token, an offset in  *)
(* the text, is abstracted to its span, the number of tokens up to there.  *)
(***************************************************************************)
EXTENDS Integers, Sequences, FiniteSetsExt, SequencesExt

CONSTANT Bits    \* the widths of the integer types, by their names: 8, 16 and 32 in the code

ASSUME JsonAssumption ==
    /\ DOMAIN Bits = {"int8", "int16", "int32"}
    /\ \A type \in DOMAIN Bits : Bits[type] \in Nat \ {0}

\* Values: objects as sequences of <<key, value>>, strings, and numbers with a
\* flag for a fraction or an exponent.
Object(members) == [type |-> "OBJECT", members |-> members]
Array(items) == [type |-> "ARRAY", items |-> items]
Str(text) == [type |-> "STRING", text |-> text]
Number(n, rest) == [type |-> "PRIMITIVE", text |-> "number", value |-> n, rest |-> rest]
Literal(word) == [type |-> "PRIMITIVE", text |-> word, value |-> 0, rest |-> FALSE]

\* jsmn_parse: the tokens of a value, each with the value it stands for.
RECURSIVE Tokens(_)
Tokens(v) ==
    LET inside == CASE v.type = "OBJECT" -> FoldLeft(LAMBDA ts, m : ts \o Tokens(Str(m[1])) \o Tokens(m[2]), <<>>, v.members)
                    [] v.type = "ARRAY" -> FoldLeft(LAMBDA ts, item : ts \o Tokens(item), <<>>, v.items)
                    [] OTHER -> <<>>
    IN <<[type |-> v.type, of |-> v, span |-> 1 + Len(inside)]>> \o inside

\* jsoneq: a key and a value that is a string are the same to it.
Jsoneq(token, s) == token.type = "STRING" /\ token.of.text = s

\* What a search returns that skipped a value by the offsets of the tokens and
\* came to the end of the document in doing so: no token there ends the skip, so
\* it reads on in what earlier documents left in the array and, unless one of
\* those tokens ends it, beyond the array.
Overrun == -1

\* findToken: the value of a key of the object at token "at", or 0.  Each value
\* that is not of the key is skipped up to the first token that starts behind it.
FindToken(tokens, at, key) ==
    LET next(k) == k + 1 + tokens[k + 1].span
        from[k \in Nat, left \in Nat] ==
            IF k > Len(tokens) THEN Overrun
            ELSE IF left = 0 THEN 0
            ELSE IF Jsoneq(tokens[k], key) THEN k + 1 ELSE from[next(k), left - 1]
        size == IF tokens[at].type = "OBJECT" THEN Len(tokens[at].of.members) ELSE 0
    IN IF size = 0 THEN 0 ELSE from[at + 1, size]

----------------------------------------------------------------------------
(* parseInteger32Value and its siblings: sscanf on the text of the token.  *)
Clamp(n, lo, hi) == IF n < lo THEN lo ELSE IF n > hi THEN hi ELSE n
Signed(n, bits) == ((n + 2 ^ (bits - 1)) % 2 ^ bits) - 2 ^ (bits - 1)

Error(old) == [rc |-> "JSON_PARSE_ERROR", value |-> old]
Parsed(v) == [rc |-> "SUCCESS", value |-> v]
IsNumber(token) == token.type = "PRIMITIVE" /\ token.of.text = "number"

\* parseInteger8Value, parseInteger16Value and parseInteger32Value: strtol stops
\* at the ends of 32 bits, a narrower type takes what is left modulo its width.
ParseInteger(type, token, old) ==
    IF ~IsNumber(token) THEN Error(old) ELSE Parsed(Signed(Clamp(token.of.value, -(2 ^ (Bits["int32"] - 1)), 2 ^ (Bits["int32"] - 1) - 1), Bits[type]))

\* A mutant of ParseUnsigned: the sign is left to sscanf.
ParseUnsignedAny(type, token, old) ==
    IF ~IsNumber(token) THEN Error(old) ELSE Parsed(token.of.value % 2 ^ Bits[type])

\* parseUnsignedInteger8Value, ...16Value and ...32Value: a minus sign is refused.
ParseUnsigned(type, token, old) ==
    IF ~IsNumber(token) \/ token.of.value < 0 THEN Error(old) ELSE Parsed(Clamp(token.of.value, 0, 2 ^ Bits["int32"] - 1) % 2 ^ Bits[type])

\* parseBooleanValue
ParseBoolean(token, old) ==
    IF token.type = "PRIMITIVE" /\ token.of.text \in {"true", "false"}
    THEN Parsed(IF token.of.text = "true" THEN 1 ELSE 0) ELSE Error(old)

\* parseStringValue: with room for the terminator, len being the length of the text.
ParseString(token, len, bufLen, old) ==
    IF token.type # "STRING" THEN Error(old)
    ELSE IF len + 1 > bufLen THEN [rc |-> "SHADOW_JSON_ERROR", value |-> old] ELSE Parsed(token.of.text)

\* parseFloatValue and parseDoubleValue: rounding is left out.
ParseFloating(token, old) == IF IsNumber(token) THEN Parsed(token.of.value) ELSE Error(old)

\* A number that its type can hold is stored as it is, a value of another kind
\* is refused and leaves the variable alone; nothing else is promised, a number
\* that is too large is stored modulo the width and reported as SUCCESS.
ValueStored(v, type, old) ==
    LET token == Tokens(v)[1]
        unsigned == ParseUnsigned(type, token, old)
        signed == ParseInteger(type, token, old)
        fits(lo, hi) == IsNumber(token) /\ v.value \in lo..hi
    IN /\ fits(0, 2 ^ Bits[type] - 1) => unsigned = Parsed(v.value)
       /\ fits(-(2 ^ (Bits[type] - 1)), 2 ^ (Bits[type] - 1) - 1) => signed = Parsed(v.value)
       /\ \A result \in {unsigned, signed, ParseBoolean(token, old), ParseFloating(token, old)} :
             result.rc # "SUCCESS" => result.value = old
       /\ ~IsNumber(token) => {unsigned.rc, signed.rc} = {"JSON_PARSE_ERROR"}
       /\ IsNumber(token) /\ v.value < 0 => unsigned.rc = "JSON_PARSE_ERROR"
=============================================================================
