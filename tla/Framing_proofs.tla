--------------------------- MODULE Framing_proofs ---------------------------
(***************************************************************************)
(* For every size of the buffer, radix of the length and set of packets:   *)
(* reading implements the packet stream until bytes of a session are lost. *)
(***************************************************************************)
EXTENDS Framing, SequenceTheorems, TLAPS

Types ==
    /\ sent \in 0..MaxSent
    /\ inbox \in Seq(Packets)
    /\ got \in Seq(Packets \union {Garbage})
    /\ alive \in BOOLEAN
    /\ consumed \in Nat
    /\ index \in Nat
    /\ at \in {"header", "length", "body", "drop"}
    /\ len \in 0..5
    /\ total \in Nat
    /\ lost \in BOOLEAN

\* Where a call stands with the first packet, as long as no bytes were lost.
Position ==
    alive /\ ~lost =>
        /\ InStep
        /\ inbox = <<>> => index = 0 /\ at = "header"
        /\ inbox # <<>> =>
             /\ at = "header" => index <= Offset(packet)
             /\ at = "length" => len \in 1..LengthBytes(packet) /\ len <= index
                                 /\ index <= Offset(packet)
             /\ at = "body" => Fits(packet) /\ index = Offset(packet)
             /\ at = "drop" => ~Fits(packet) /\ index = Offset(packet)

DeadInv == ~alive => inbox = <<>> /\ consumed = 0

FInv == Types /\ Position /\ DeadInv

LEMMA LengthBytesRange == \A n : LengthBytes(n) \in 1..4
<1> TAKE n
<1> DEFINE a == n < Radix
           b == n < Radix * Radix
           c == n < Radix * Radix * Radix
<1>1. LengthBytes(n) = IF a THEN 1 ELSE IF b THEN 2 ELSE IF c THEN 3 ELSE 4
    BY DEF LengthBytes
<1> HIDE DEF a, b, c
<1>2. QED BY <1>1

LEMMA OffsetRange == \A n : Offset(n) \in 2..5
BY LengthBytesRange DEF Offset

LEMMA InitFInv == Init => FInv
<1> SUFFICES ASSUME Init PROVE FInv
    OBVIOUS
<1>1. Types
    <2>1. inbox \in Seq(Packets) /\ got \in Seq(Packets \union {Garbage})
        BY EmptySeq DEF Init
    <2>2. alive \in BOOLEAN /\ lost \in BOOLEAN
        BY Zenon DEF Init
    <2>3. QED BY <2>1, <2>2, FramingAssumption DEF Init, Types
<1>2. Position /\ DeadInv
    BY DEF Init, Position, DeadInv, InStep
<1>3. QED BY <1>1, <1>2 DEF FInv

LEMMA HeadOfInbox ==
    ASSUME Types, inbox # <<>>
    PROVE  packet \in Nat /\ packet \in Packets /\ Tail(inbox) \in Seq(Packets)
<1>1. inbox \in Seq(Packets)
    BY DEF Types
<1>2. Head(inbox) \in Packets /\ Tail(inbox) \in Seq(Packets)
    BY <1>1, HeadTailProperties
<1>3. QED BY <1>2, FramingAssumption DEF packet

LEMMA FInvStep == FInv /\ [Next]_vars => FInv'
<1> SUFFICES ASSUME FInv, [Next]_vars PROVE FInv'
    OBVIOUS
<1> USE FramingAssumption DEF FInv, DeadInv
<1>1. CASE Send
    <2>1. PICK p \in Packets : inbox' = Append(inbox, p)
        BY <1>1 DEF Send
    <2>2. Types'
        BY <1>1, <2>1 DEF Send, Types
    <2>3. inbox' # <<>> /\ (inbox # <<>> => Head(inbox') = Head(inbox))
        BY <2>1 DEF Types
    <2>4. Offset(packet') \in 2..5
        BY OffsetRange
    <2>5. Position'
        <3>1. CASE inbox = <<>>
            BY <1>1, <2>3, <2>4, <3>1 DEF Send, Position, InStep
        <3>2. CASE inbox # <<>>
            <4>1. packet' = packet
                BY <2>3, <3>2 DEF packet
            <4>2. QED BY <1>1, <2>3, <3>2, <4>1 DEF Send, Position, InStep, Fits, Offset
        <3>3. QED BY <3>1, <3>2
    <2>6. QED BY <1>1, <2>2, <2>5 DEF Send
<1>2. CASE SessionEnds
    BY <1>2, EmptySeq DEF SessionEnds, Types, Position
<1>3. CASE Reconnect
    BY <1>3 DEF Reconnect, Types, Position, InStep
<1>4. CASE RefusedConnect
    BY <1>4 DEF RefusedConnect, stream, Types, Position
<1>5. CASE ReadError
    BY <1>5 DEF ReadError, stream, Types, Position
<1>6. CASE TimeOut
    <2>1. Types'
        BY <1>6 DEF TimeOut, GiveUp, stream, Types
    <2>2. Position'
        BY <1>6, LengthBytesRange
        DEF TimeOut, GiveUp, stream, Reading, Position, InStep, packet, Offset, Types, Fits
    <2>3. QED BY <1>6, <2>1, <2>2 DEF TimeOut, GiveUp, stream
<1>7. CASE ReadHeader
    <2>1. Types'
        BY <1>7 DEF ReadHeader, ReadUpTo, MaxOf, stream, Types
    <2>2. Position'
        BY <1>7, LengthBytesRange
        DEF ReadHeader, ReadUpTo, MaxOf, stream, Reading, Position, InStep, packet, Offset, Types
    <2>3. QED BY <1>7, <2>1, <2>2 DEF ReadHeader, stream, Reading
<1>8. CASE ReadLength
    <2>1. len \in 1..LengthBytes(packet) /\ index <= Offset(packet) /\ len <= index
        BY <1>8 DEF ReadLength, Reading, Position, InStep
    <2>2. LengthBytes(packet) \in 1..4
        BY LengthBytesRange
    <2>3. Types'
        BY <1>8, <2>1, <2>2 DEF ReadLength, ReadUpTo, MaxOf, stream, Types
    <2>4. packet' = packet
        BY <1>8 DEF ReadLength, packet
    <2>5. Position'
        BY <1>8, <2>1, <2>2, <2>4
        DEF ReadLength, ReadUpTo, MaxOf, stream, Reading, Position, InStep, Offset, Types, Fits
    <2>6. QED BY <1>8, <2>3, <2>5 DEF ReadLength, stream, Reading
<1>9. CASE ReadBody
    <2>1. Types'
        BY <1>9, HeadOfInbox DEF ReadBody, PacketDone, Reading, Types
    <2>0. Offset(packet') \in 2..5
        BY OffsetRange
    <2>2. Position'
        BY <1>9, <2>0 DEF ReadBody, PacketDone, Position, InStep, Types
    <2>3. QED BY <1>9, <2>1, <2>2 DEF ReadBody, Reading
<1>10. CASE LoseBytes
    <2>1. packet \in Nat
        BY <1>10, HeadOfInbox DEF LoseBytes, Reading
    <2>2. Types'
        BY <1>10, <2>1 DEF LoseBytes, GiveUp, stream, Types, MinOf
    <2>3. QED BY <1>10, <2>2 DEF LoseBytes, Position, GiveUp, stream, Reading
<1>11. CASE DropChunk
    <2>1. packet \in Nat
        BY <1>11, HeadOfInbox DEF DropChunk, Reading
    <2>2. Chunk \in Nat \ {0}
        BY <1>11, <2>1 DEF DropChunk, Chunk, MinOf, Types
    <2>3. Types'
        BY <1>11, <2>2 DEF DropChunk, stream, Types
    <2>4. total' > 0
        BY <1>11, <2>2 DEF DropChunk, Types
    <2>5. Position'
        BY <1>11, <2>4 DEF DropChunk, stream, Position, InStep, packet, Reading, Types
    <2>6. QED BY <1>11, <2>3, <2>5 DEF DropChunk, stream, Reading
<1>12. CASE DropLastChunk
    <2>1. Types'
        BY <1>12, HeadOfInbox DEF DropLastChunk, PacketDone, Reading, stream, Types
    <2>0. Offset(packet') \in 2..5
        BY OffsetRange
    <2>2. Position'
        BY <1>12, <2>0 DEF DropLastChunk, PacketDone, Position, InStep, Types, stream
    <2>3. QED BY <1>12, <2>1, <2>2 DEF DropLastChunk, Reading, stream
<1>13. CASE DropTooMuch
    <2>1. Types'
        BY <1>13, HeadOfInbox DEF DropTooMuch, Reading, stream, Types, Chunk
    <2>2. QED BY <1>13, <2>1 DEF DropTooMuch, Position, Reading, stream
<1>14. CASE ReadGarbage
    <2>1. Types'
        BY <1>14 DEF ReadGarbage, Types
    <2>2. lost
        BY <1>14 DEF ReadGarbage, Position, Types
    <2>3. QED BY <1>14, <2>1, <2>2 DEF ReadGarbage, Position
<1>15. CASE UNCHANGED vars
    BY <1>15 DEF vars, Types, Position, InStep, packet, Fits, Offset
<1>16. QED
    BY <1>1, <1>2, <1>3, <1>4, <1>5, <1>6, <1>7, <1>8, <1>9, <1>10, <1>11, <1>12, <1>13,
       <1>14, <1>15 DEF Next

\* Under the invariant a step of the reader is a step of the packet stream, or
\* leaves the stream's variables alone, or has lost bytes.
LEMMA StreamStep ==
    FInv /\ [Next]_vars => [Stream!Next \/ lost']_(Stream!streamVars)
<1> SUFFICES ASSUME FInv, [Next]_vars, ~lost', ~UNCHANGED Stream!streamVars
             PROVE  Stream!Next
    OBVIOUS
<1> USE DEF Stream!streamVars
<1>1. CASE Send
    BY <1>1 DEF Send, Stream!Next, Stream!Send
<1>2. CASE SessionEnds
    BY <1>2 DEF SessionEnds, Stream!Next, Stream!Lose
<1>3. CASE Reconnect BY <1>3 DEF Reconnect
<1>4. CASE RefusedConnect BY <1>4 DEF RefusedConnect
<1>5. CASE ReadError BY <1>5 DEF ReadError, stream
<1>6. CASE TimeOut BY <1>6 DEF TimeOut, GiveUp, stream
<1>7. CASE ReadHeader BY <1>7 DEF ReadHeader, stream
<1>8. CASE ReadLength BY <1>8 DEF ReadLength, stream
<1>9. CASE ReadBody
    <2>1. inbox # <<>> /\ Fits(Head(inbox))
        BY <1>9 DEF ReadBody, Reading, InStep, FInv, Position, packet
    <2>2. QED
        BY <1>9, <2>1 DEF ReadBody, PacketDone, packet, Stream!Next, Stream!Deliver
<1>10. CASE LoseBytes BY <1>10 DEF LoseBytes
<1>11. CASE DropChunk BY <1>11 DEF DropChunk, stream
<1>12. CASE DropLastChunk
    <2>1. inbox # <<>> /\ ~Fits(Head(inbox))
        BY <1>12 DEF DropLastChunk, Reading, InStep, FInv, Position, packet
    <2>2. QED
        BY <1>12, <2>1 DEF DropLastChunk, PacketDone, stream, Stream!Next, Stream!Drop
<1>13. CASE DropTooMuch BY <1>13 DEF DropTooMuch
<1>14. CASE ReadGarbage
    BY <1>14 DEF ReadGarbage, FInv, Position
<1>15. CASE UNCHANGED vars BY <1>15 DEF vars
<1>16. QED
    BY <1>1, <1>2, <1>3, <1>4, <1>5, <1>6, <1>7, <1>8, <1>9, <1>10, <1>11, <1>12, <1>13,
       <1>14, <1>15 DEF Next
-----------------------------------------------------------------------------
\* Every variable stays in its range, and the index never stands beyond the
\* header of the packet that is being read.
THEOREM TypeCorrect == Spec => []TypeOK
<1>1. FInv => TypeOK
    BY LengthBytesRange DEF FInv, Types, Position, TypeOK, Offset
<1>2. QED BY <1>1, InitFInv, FInvStep, PTL DEF Spec

\* A call that gives up at any byte leaves the buffer with exactly what the
\* stream has lost of the packet.
THEOREM BufferInStep == Spec => []BufferMatchesStream
<1>1. FInv => BufferMatchesStream
    BY DEF FInv, Position, BufferMatchesStream
<1>2. QED BY <1>1, InitFInv, FInvStep, PTL DEF Spec

\* The reader over bytes, time-outs and chunks implements the packet stream.
THEOREM ImplementsStream == Spec => StreamImplemented
<1>1. Init => Stream!Init
    BY DEF Init, Stream!Init
<1>2. QED BY <1>1, InitFInv, FInvStep, StreamStep, PTL DEF Spec, StreamImplemented
=============================================================================
