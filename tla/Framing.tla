------------------------------ MODULE Framing ------------------------------
(***************************************************************************)
(* How the client takes packets off the byte stream of a TLS session       *)
(* (_aws_iot_mqtt_internal_read_packet over iot_tls_read).  A read that    *)
(* times out leaves readBufIndex so that the next call resumes the packet; *)
(* a packet larger than readBuf is read in chunks and dropped.             *)
(*                                                                         *)
(* Reads exclude each other by tls_read_mutex, so there is one reader.  A  *)
(* packet is its remaining length.                                         *)
(***************************************************************************)
EXTENDS Integers, Sequences

CONSTANTS
    Packets,          \* the remaining lengths of what the broker may send
    ReadBufSize,      \* AWS_IOT_MQTT_RX_BUF_LEN
    Radix,            \* of the remaining length: 128
    Garbage,          \* what is read out of step
    MaxSent           \* bound of the model

ASSUME FramingAssumption ==
    /\ Packets \subseteq Nat
    /\ ReadBufSize \in Nat \ {0}
    /\ Radix \in Nat \ {0}
    /\ MaxSent \in Nat

VARIABLES
    sent,             \* packets sent in this behaviour
    inbox,            \* packets not wholly consumed, the first one perhaps in part
    got,              \* packets handed to the dispatcher
    alive,            \* the session
    consumed,         \* bytes of the first packet taken off the stream
    index,            \* readBufIndex
    at,               \* where _aws_iot_mqtt_internal_read_packet stands
    len,              \* of decode_packet_remaining_len: bytes decoded
    total,            \* total_bytes_read
    lost              \* bytes of this session were dropped or buffered twice

vars == <<sent, inbox, got, alive, consumed, index, at, len, total, lost>>
stream == <<sent, got, alive>>

MinOf(a, b) == IF a < b THEN a ELSE b
MaxOf(a, b) == IF a < b THEN b ELSE a

\* Bytes of the encoded remaining length.
LengthBytes(n) ==
    IF n < Radix THEN 1
    ELSE IF n < Radix * Radix THEN 2
    ELSE IF n < Radix * Radix * Radix THEN 3 ELSE 4

Offset(p) == 1 + LengthBytes(p)

\* The packet and its header have room in readBuf.
Fits(p) == p + Offset(p) < ReadBufSize

Init ==
    /\ sent = 0
    /\ inbox = <<>>
    /\ got = <<>>
    /\ alive = TRUE
    /\ consumed = 0
    /\ index = 0
    /\ at = "header"
    /\ len = 0
    /\ total = 0
    /\ lost = FALSE
-----------------------------------------------------------------------------
(* The other end and the session                                           *)

Send ==
    /\ alive
    /\ sent < MaxSent
    /\ sent' = sent + 1
    /\ \E p \in Packets : inbox' = Append(inbox, p)
    /\ UNCHANGED <<got, alive, consumed, index, at, len, total, lost>>

SessionEnds ==
    /\ alive
    /\ alive' = FALSE
    /\ inbox' = <<>>
    /\ consumed' = 0
    /\ UNCHANGED <<sent, got, index, at, len, total, lost>>

\* A read of a dead session ends the call; readBufIndex stays.
ReadError ==
    /\ ~alive
    /\ at # "header"
    /\ at' = "header"
    /\ UNCHANGED <<stream, inbox, consumed, index, len, total, lost>>

\* A mutant of Reconnect: connect leaves the index of the last session.
ReconnectKeepsIndex ==
    /\ ~alive
    /\ at = "header"
    /\ alive' = TRUE
    /\ lost' = FALSE
    /\ UNCHANGED <<sent, inbox, got, consumed, index, at, len, total>>

\* aws_iot_mqtt_connect flushes the buffer and sets up a session.
Reconnect ==
    /\ ~alive
    /\ at = "header"
    /\ alive' = TRUE
    /\ index' = 0
    /\ lost' = FALSE
    /\ UNCHANGED <<sent, inbox, got, consumed, at, len, total>>

\* It flushes before it looks at the client state, even if it then refuses.
RefusedConnect ==
    /\ alive
    /\ at = "header"
    /\ index # 0
    /\ index' = 0
    /\ lost' = TRUE
    /\ UNCHANGED <<stream, inbox, consumed, at, len, total>>
-----------------------------------------------------------------------------
(* _aws_iot_mqtt_internal_readWrapper: bytes the buffer has are not read   *)
(* again.                                                                  *)

\* The buffer holds the bytes that are missing from the stream.
InStep ==
    /\ ~lost
    /\ at # "drop" \/ total = 0 => index = consumed

Reading == alive /\ InStep /\ inbox # <<>>
packet == Head(inbox)

ReadUpTo(n) ==
    /\ index' = MaxOf(index, n)
    /\ consumed' = consumed + MaxOf(index, n) - index

\* The call returns before the packet is complete.
GiveUp ==
    /\ at' = "header"
    /\ UNCHANGED <<stream, inbox, index, len, total>>

\* The first packet is through; aws_iot_mqtt_internal_flushBuffers.
PacketDone ==
    /\ inbox' = Tail(inbox)
    /\ consumed' = 0
    /\ index' = 0
    /\ at' = "header"

\* No byte came in time: the next call resumes.
TimeOut ==
    /\ Reading
    /\ \/ at = "length" /\ index = len
       \/ at = "body"
       \/ at = "drop" /\ total = 0
    /\ GiveUp
    /\ UNCHANGED <<consumed, lost>>

ReadHeader ==
    /\ Reading
    /\ at = "header"
    /\ ReadUpTo(1)
    /\ at' = "length"
    /\ len' = 1
    /\ UNCHANGED <<stream, inbox, total, lost>>

\* A mutant of ReadLength: one byte more than there is.
ReadLengthTooFar ==
    /\ Reading
    /\ at = "length"
    /\ ReadUpTo(len + 1)
    /\ len' = len + 1
    /\ at' = IF len <= LengthBytes(packet) THEN "length"
             ELSE IF Fits(packet) THEN "body" ELSE "drop"
    /\ total' = 0
    /\ UNCHANGED <<stream, inbox, lost>>

\* One round of _aws_iot_mqtt_internal_decode_packet_remaining_len.
ReadLength ==
    /\ Reading
    /\ at = "length"
    /\ ReadUpTo(len + 1)
    /\ len' = len + 1
    /\ at' = IF len < LengthBytes(packet) THEN "length"
             ELSE IF Fits(packet) THEN "body" ELSE "drop"
    /\ total' = 0
    /\ UNCHANGED <<stream, inbox, lost>>

ReadBody ==
    /\ Reading
    /\ at = "body"
    /\ PacketDone
    /\ got' = Append(got, packet)
    /\ UNCHANGED <<sent, alive, len, total, lost>>

\* iot_tls_read does not tell how much of the body it has read before the time
\* was up, and the bytes are gone.
LoseBytes ==
    /\ Reading
    /\ \/ /\ at = "body"
          /\ \E k \in 1..packet - 1 : consumed' = consumed + k
       \/ /\ at = "drop"
          /\ total > 0
          /\ UNCHANGED consumed
       \/ /\ at = "drop"
          /\ \E k \in 1..MinOf(ReadBufSize, packet - total) - 1 : consumed' = consumed + k
    /\ GiveUp
    /\ lost' = TRUE

\* A mutant of Chunk: a full buffer each time.
FullChunk == ReadBufSize

\* bytes_to_be_read
Chunk == IF total = 0 THEN ReadBufSize ELSE MinOf(ReadBufSize, packet - total)

DropChunk ==
    /\ Reading
    /\ at = "drop"
    /\ total + Chunk < packet
    /\ total' = total + Chunk
    /\ consumed' = consumed + Chunk
    /\ UNCHANGED <<stream, inbox, index, at, len, lost>>

\* A mutant of DropLastChunk: the emptied packet is handed over too.
DropLastChunkDelivers ==
    /\ Reading
    /\ at = "drop"
    /\ total + Chunk = packet
    /\ total' = packet
    /\ PacketDone
    /\ got' = Append(got, packet)
    /\ UNCHANGED <<sent, alive, len, lost>>

DropLastChunk ==
    /\ Reading
    /\ at = "drop"
    /\ total + Chunk = packet
    /\ total' = packet
    /\ PacketDone
    /\ UNCHANGED <<stream, len, lost>>

\* The first chunk is longer than the body: it runs into the next packets or, if
\* there are none, until the time is up.
DropTooMuch ==
    /\ Reading
    /\ at = "drop"
    /\ total = 0
    /\ Chunk > packet
    /\ inbox' = Tail(inbox)
    /\ consumed' = Chunk - packet
    /\ at' = "header"
    /\ lost' = TRUE
    /\ UNCHANGED <<stream, index, len, total>>

\* Out of step, what is read is made up of any bytes.
ReadGarbage ==
    /\ alive
    /\ ~InStep
    /\ Len(got) < MaxSent
    /\ got' = Append(got, Garbage)
    /\ UNCHANGED <<sent, inbox, alive, consumed, index, at, len, total, lost>>
-----------------------------------------------------------------------------
Next ==
    \/ Send \/ SessionEnds \/ Reconnect \/ RefusedConnect
    \/ ReadError \/ TimeOut
    \/ ReadHeader \/ ReadLength \/ ReadBody \/ LoseBytes
    \/ DropChunk \/ DropLastChunk \/ DropTooMuch \/ ReadGarbage

Spec == Init /\ [][Next]_vars

\* The client reads for ever, and a byte that was sent on a session that stays
\* up arrives in time for one of the reads.
FairSpec ==
    /\ Spec
    /\ WF_vars(ReadHeader)
    /\ WF_vars(ReadLength)
    /\ SF_vars(ReadLength /\ index' > index)
    /\ SF_vars(ReadBody)
    /\ SF_vars(DropChunk)
    /\ SF_vars(DropLastChunk)
    /\ SF_vars(DropTooMuch)
-----------------------------------------------------------------------------
(* Properties                                                              *)

\* Every variable stays in its declared range, and between two calls the index
\* never stands beyond the header of the packet that is being read.
TypeOK ==
    /\ sent \in 0..MaxSent
    /\ inbox \in Seq(Packets)
    /\ got \in Seq(Packets \union {Garbage})
    /\ alive \in BOOLEAN
    /\ consumed \in Nat
    /\ index \in Nat
    /\ at \in {"header", "length", "body", "drop"}
    /\ len \in 0..5
    /\ total \in Nat
    /\ lost \in BOOLEAN
    /\ alive /\ ~lost /\ inbox # <<>> => index <= Offset(packet)

\* Wherever a call stands or has given up, the buffer holds exactly the bytes of
\* the packet that the stream has lost, so that the next call goes on with it;
\* unless bytes of this session were lost, and never beyond the session.
BufferMatchesStream ==
    alive /\ ~lost => InStep /\ (inbox = <<>> => index = 0)

Stream == INSTANCE PacketStream WITH pending <- inbox

\* Reading implements the packet stream: every packet once, whole and in order;
\* the oversized ones dropped whole; time-outs at any byte and reconnects change
\* nothing.  Only the rest of a session that has lost bytes is excused.
StreamImplemented ==
    Stream!Init /\ [][Stream!Next \/ lost']_(Stream!streamVars)

\* Every packet of a session that has not lost bytes is handed over, dropped or
\* lost with the session.
StreamServed == WF_(Stream!streamVars)(~lost /\ (Stream!Deliver \/ Stream!Drop))
=============================================================================
