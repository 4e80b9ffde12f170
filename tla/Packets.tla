------------------------------ MODULE Packets -------------------------------
(***************************************************************************)
(* The packets the client writes and the ones it takes apart.              *)
(*                                                                         *)
(* Each serialiser computes the remaining length in one place, refuses     *)
(* what does not fit the write buffer, and then writes the fields in       *)
(* another; send_packet checks the length once more.  A byte is a number,  *)
(* a string a sequence of bytes; a pointer that may be NULL is a sequence  *)
(* of at most one string.                                                  *)
(***************************************************************************)
EXTENDS Integers, Sequences, FiniteSetsExt, SequencesExt

CONSTANT WriteBufSize    \* writeBufSize, AWS_IOT_MQTT_TX_BUF_LEN

ASSUME PacketsAssumption == WriteBufSize \in Nat /\ WriteBufSize >= 4

Bit(condition, value) == IF condition THEN value ELSE 0

MessageType == [CONNECT |-> 1, CONNACK |-> 2, PUBLISH |-> 3, PUBACK |-> 4, SUBSCRIBE |-> 8, SUBACK |-> 9,
                UNSUBSCRIBE |-> 10, UNSUBACK |-> 11, PINGREQ |-> 12, PINGRESP |-> 13, DISCONNECT |-> 14]

\* aws_iot_mqtt_internal_init_header
Header(type, qos, dup, retained) ==
    MessageType[type] * 16 + Bit(dup, 8) + Bit(qos = 1, 2) + Bit(retained, 1)

FieldType(byte) == byte \div 16
FieldDup(byte) == (byte \div 8) % 2 = 1
FieldQoS(byte) == (byte \div 2) % 4
FieldRetain(byte) == byte % 2 = 1

Uint16(n) == <<n \div 256, n % 256>>
ReadUint16(bytes, at) == 256 * bytes[at] + bytes[at + 1]
String(s) == Uint16(Len(s)) \o s
Total(op(_), seq) == MapThenSumSet(LAMBDA i : op(seq[i]), 1..Len(seq))

\* A mutant of WriteLen: at the first power of 128 the second byte is missing.
WriteLenShort(length) ==
    LET digits[n \in Nat] == IF n <= 128 THEN <<n>> ELSE <<(n % 128) + 128>> \o digits[n \div 128]
    IN digits[length]

\* aws_iot_mqtt_internal_write_len_to_buffer: 7 bits a byte, the top bit says that more follow.
WriteLen(length) ==
    LET digits[n \in Nat] == IF n < 128 THEN <<n>> ELSE <<(n % 128) + 128>> \o digits[n \div 128]
    IN digits[length]

\* aws_iot_mqtt_internal_decode_remaining_length_from_buffer, from the byte at "at"; four bytes at most.
LenBytes(bytes, at) == CHOOSE n \in 1..5 : n = 5 \/ (bytes[at + n - 1] < 128 /\ \A k \in 1..n - 1 : bytes[at + k - 1] >= 128)
DecodedLen(bytes, at) == MapThenSumSet(LAMBDA k : (bytes[at + k] % 128) * 128 ^ k, 0..LenBytes(bytes, at) - 1)

\* aws_iot_mqtt_internal_get_final_packet_length_from_remaining_length: the
\* header byte is counted before the size of the length field is looked up.
FinalLength(remaining) ==
    LET withHeader == remaining + 1
    IN withHeader + (CASE withHeader < 128 -> 1 [] withHeader < 16384 -> 2
                       [] withHeader < 2097152 -> 3 [] OTHER -> 4)

Refused(rc) == [rc |-> rc, bytes |-> <<>>]
Written(header, remaining, fields) ==
    IF FinalLength(remaining) > WriteBufSize
    THEN Refused("MQTT_TX_BUFFER_TOO_SHORT_ERROR")
    ELSE [rc |-> "SUCCESS", bytes |-> <<header>> \o WriteLen(remaining) \o FlattenSeq(fields)]

----------------------------------------------------------------------------
\* _aws_iot_get_connect_packet_length
ConnectLength(p) ==
    10 + Total(LAMBDA s : Len(s), p.clientID) + 2
       + Total(LAMBDA w : Len(w.topic) + 2 + Len(w.message) + 2, p.will)
       + Total(LAMBDA s : Len(s) + 2, p.username) + Total(LAMBDA s : Len(s) + 2, p.password)

\* A mutant of ConnectFlags: the password bit says that there is a user name.
ConnectFlagsSwapped(p) ==
    Bit(p.clean, 2) + Total(LAMBDA w : 4 + 8 * w.qos + Bit(w.retained, 32), p.will)
    + Bit(p.username # <<>>, 64) + Bit(p.password # <<>>, 128)

ConnectFlags(p) ==
    Bit(p.clean, 2) + Total(LAMBDA w : 4 + 8 * w.qos + Bit(w.retained, 32), p.will)
    + Bit(p.password # <<>>, 64) + Bit(p.username # <<>>, 128)

Name == <<77, 81, 84, 84>>    \* "MQTT"

\* _aws_iot_mqtt_serialize_connect; an identifier that is there is not empty.
SerializeConnect(p) ==
    IF p.clientID = << <<>> >> THEN Refused("NULL_VALUE_ERROR")
    ELSE Written(Header("CONNECT", 0, FALSE, FALSE), ConnectLength(p),
             << String(Name), <<4, ConnectFlags(p)>>, Uint16(p.keepAlive), String(FlattenSeq(p.clientID)) >>
             \o FlattenSeq([i \in 1..Len(p.will) |-> <<String(p.will[i].topic), String(p.will[i].message)>>])
             \o [i \in 1..Len(p.username) |-> String(p.username[i])]
             \o [i \in 1..Len(p.password) |-> String(p.password[i])])

\* _aws_iot_mqtt_internal_serialize_publish: the packet id is written for QoS 1 only.
SerializePublish(p) ==
    Written(Header("PUBLISH", p.qos, FALSE, p.retained),
            Len(p.topic) + Len(p.payload) + 2 + Bit(p.qos > 0, 2),
            << String(p.topic), IF p.qos > 0 THEN Uint16(p.id) ELSE <<>>, p.payload >>)

\* _aws_iot_mqtt_serialize_subscribe: a list of filters with their QoS.
SerializeSubscribe(p) ==
    Written(Header("SUBSCRIBE", 1, FALSE, FALSE), 2 + Total(LAMBDA f : Len(f.topic) + 2 + 1, p.filters),
            <<Uint16(p.id)>> \o [i \in 1..Len(p.filters) |-> Append(String(p.filters[i].topic), p.filters[i].qos)])

\* _aws_iot_mqtt_serialize_unsubscribe
SerializeUnsubscribe(p) ==
    Written(Header("UNSUBSCRIBE", 1, FALSE, FALSE), 2 + Total(LAMBDA f : Len(f.topic) + 2, p.filters),
            <<Uint16(p.id)>> \o [i \in 1..Len(p.filters) |-> String(p.filters[i].topic)])

\* aws_iot_mqtt_internal_serialize_ack
SerializeAck(p) == Written(Header("PUBACK", 0, FALSE, FALSE), 2, <<Uint16(p.id)>>)

\* aws_iot_mqtt_internal_serialize_zero
SerializeZero(p) == Written(Header(p.type, 0, FALSE, FALSE), 0, <<>>)

Serialize(p) ==
    CASE p.type = "CONNECT" -> SerializeConnect(p)
      [] p.type = "PUBLISH" -> SerializePublish(p)
      [] p.type = "SUBSCRIBE" -> SerializeSubscribe(p)
      [] p.type = "UNSUBSCRIBE" -> SerializeUnsubscribe(p)
      [] p.type = "PUBACK" -> SerializeAck(p)
      [] OTHER -> SerializeZero(p)

\* A mutant of SendPacket: the serialiser is trusted.
SendSerialized(p) == Serialize(p)

\* A request is serialised and sent: aws_iot_mqtt_internal_send_packet takes less than the buffer.
SendPacket(p) ==
    IF Len(Serialize(p).bytes) >= WriteBufSize
    THEN Refused("MQTT_TX_BUFFER_TOO_SHORT_ERROR") ELSE Serialize(p)

----------------------------------------------------------------------------
\* What the client reads: at is the first byte after the remaining length.
Body(bytes) == 2 + LenBytes(bytes, 2)
End(bytes) == Body(bytes) + DecodedLen(bytes, 2)

\* A mutant of DeserializePublish: the packet id of a QoS 1 message is taken for payload.
DeserializePublishWithoutId(bytes) ==
    LET n == ReadUint16(bytes, Body(bytes))
        topicEnd == Body(bytes) + 2 + n
    IN [type |-> "PUBLISH", qos |-> FieldQoS(bytes[1]), retained |-> FieldRetain(bytes[1]),
        topic |-> SubSeq(bytes, Body(bytes) + 2, topicEnd - 1), id |-> 0,
        payload |-> SubSeq(bytes, topicEnd, End(bytes) - 1)]

\* aws_iot_mqtt_internal_deserialize_publish
DeserializePublish(bytes) ==
    LET n == ReadUint16(bytes, Body(bytes))
        topicEnd == Body(bytes) + 2 + n
        hasId == FieldQoS(bytes[1]) # 0
    IN [type |-> "PUBLISH", qos |-> FieldQoS(bytes[1]), retained |-> FieldRetain(bytes[1]),
        topic |-> SubSeq(bytes, Body(bytes) + 2, topicEnd - 1),
        id |-> IF hasId THEN ReadUint16(bytes, topicEnd) ELSE 0,
        payload |-> SubSeq(bytes, topicEnd + Bit(hasId, 2), End(bytes) - 1)]

\* aws_iot_mqtt_internal_deserialize_ack and _aws_iot_mqtt_deserialize_unsuback
DeserializeAck(bytes, type) ==
    IF FieldType(bytes[1]) # MessageType[type] \/ DecodedLen(bytes, 2) < 2
    THEN [rc |-> "FAILURE"]
    ELSE [rc |-> "SUCCESS", id |-> ReadUint16(bytes, Body(bytes))]

\* _aws_iot_mqtt_deserialize_suback: a code is stored as long as the count is at most the expected one.
DeserializeSuback(bytes, expected) ==
    LET count == DecodedLen(bytes, 2) - 2
    IN IF FieldType(bytes[1]) # MessageType["SUBACK"] \/ count < 0 THEN [rc |-> "FAILURE", stored |-> 0]
       ELSE IF count > expected + 1 THEN [rc |-> "FAILURE", stored |-> expected + 1]
       ELSE [rc |-> "SUCCESS", stored |-> count, id |-> ReadUint16(bytes, Body(bytes)),
                      granted |-> SubSeq(bytes, Body(bytes) + 2, End(bytes) - 1)]

ConnackCodes == <<"ACCEPTED", "UNACCEPTABLE_PROTOCOL_VERSION_ERROR", "IDENTIFIER_REJECTED_ERROR",
                  "SERVER_UNAVAILABLE_ERROR", "BAD_USERDATA_ERROR", "NOT_AUTHORIZED_ERROR">>

\* _aws_iot_mqtt_deserialize_connack; the bit field puts the session flag at the wrong end of the byte.
DeserializeConnack(bytes) ==
    IF FieldType(bytes[1]) # MessageType["CONNACK"] THEN [rc |-> "FAILURE"]
    ELSE IF DecodedLen(bytes, 2) # 2 THEN [rc |-> "MQTT_DECODE_REMAINING_LENGTH_ERROR"]
    ELSE [rc |-> "SUCCESS", sessionPresent |-> bytes[Body(bytes)] >= 128,
                   code |-> LET c == bytes[Body(bytes) + 1]
                            IN IF c < 6 THEN ConnackCodes[c + 1] ELSE "UNKNOWN_ERROR"]

----------------------------------------------------------------------------
(* The broker's side, by MQTT 3.1.1: what a packet says, or Malformed.     *)
Malformed == [type |-> "malformed"]
TypeOf(byte) == CHOOSE t \in DOMAIN MessageType : MessageType[t] = FieldType(byte)

StringAt(bytes, at) == SubSeq(bytes, at + 2, at + 1 + ReadUint16(bytes, at))
After(bytes, at) == at + 2 + ReadUint16(bytes, at)

\* The starts of the strings that follow one another from "at", "gap" bytes apart.
Starts(bytes, at, gap) ==
    LET from[i \in Nat] == IF i > Len(bytes) THEN <<>> ELSE <<i>> \o from[After(bytes, i) + gap]
    IN from[at]

BrokerConnect(bytes) ==
    LET b == Body(bytes)
        flags == bytes[b + 7]
        at == Starts(bytes, b + 10, 0)
        has(bit) == (flags \div bit) % 2 = 1
        will == IF has(4) THEN 2 ELSE 0
        user == IF has(128) THEN 1 ELSE 0
        optional(present, k) == IF present THEN <<StringAt(bytes, at[k])>> ELSE <<>>
    IN IF SubSeq(bytes, b, b + 6) # String(Name) \o <<4>> THEN Malformed
       ELSE [type |-> "CONNECT", clean |-> has(2), keepAlive |-> ReadUint16(bytes, b + 8),
             clientID |-> optional(StringAt(bytes, at[1]) # <<>>, 1),
             will |-> IF has(4) THEN <<[topic |-> StringAt(bytes, at[2]), message |-> StringAt(bytes, at[3]),
                                        qos |-> (flags \div 8) % 4, retained |-> has(32)]>> ELSE <<>>,
             username |-> optional(has(128), 2 + will), password |-> optional(has(64), 2 + will + user)]

BrokerReads(bytes) ==
    LET b == Body(bytes)
        type == TypeOf(bytes[1])
        filters == Starts(bytes, b + 2, Bit(type = "SUBSCRIBE", 1))
    IN IF End(bytes) # Len(bytes) + 1 THEN Malformed
       ELSE
       CASE type = "CONNECT" -> BrokerConnect(bytes)
         [] type = "PUBLISH" ->
              LET idBytes == Bit(FieldQoS(bytes[1]) > 0, 2)
              IN [type |-> type, qos |-> FieldQoS(bytes[1]), retained |-> FieldRetain(bytes[1]),
                  topic |-> StringAt(bytes, b), payload |-> SubSeq(bytes, After(bytes, b) + idBytes, Len(bytes)),
                  id |-> IF idBytes = 2 THEN ReadUint16(bytes, After(bytes, b)) ELSE 0]
         [] type \in {"SUBSCRIBE", "UNSUBSCRIBE"} ->
              IF bytes[1] % 16 # 2 THEN Malformed
              ELSE [type |-> type, id |-> ReadUint16(bytes, b),
                    filters |-> [i \in 1..Len(filters) |->
                        [topic |-> StringAt(bytes, filters[i]),
                         qos |-> IF type = "SUBSCRIBE" THEN bytes[After(bytes, filters[i])] ELSE 0]]]
         [] type = "PUBACK" -> [type |-> type, id |-> ReadUint16(bytes, b)]
         [] OTHER -> [type |-> type]

\* The number of bytes of a packet, by MQTT 3.1.1.
WireLength(remaining) == 1 + Len(WriteLen(remaining)) + remaining

\* A packet that is sent says to the broker what the request says, and a
\* request is refused only when its packet would not leave a byte of the
\* buffer free: the lengths that are computed ahead of the fields
\* (FinalLength, ConnectLength) agree with what is written.
SentAsMeant(p) ==
    LET sent == SendPacket(p)
    IN CASE sent.rc = "SUCCESS" -> BrokerReads(sent.bytes) = p /\ Len(sent.bytes) < WriteBufSize
         [] sent.rc = "NULL_VALUE_ERROR" -> p.clientID = << <<>> >>
         [] OTHER -> WireLength(CASE p.type = "CONNECT" -> ConnectLength(p)
                                  [] p.type = "PUBLISH" -> Len(p.topic) + Len(p.payload) + 2 + Bit(p.qos > 0, 2)
                                  [] OTHER -> 2 + Total(LAMBDA f : Len(f.topic) + 2 + Bit(p.type = "SUBSCRIBE", 1), p.filters))
                     >= WriteBufSize

\* What the broker writes is read as it was meant: a message with its topic,
\* payload and id, an acknowledgement with its id or code.
ReadAsMeant(m) ==
    LET bytes(type, flags, fields) == <<MessageType[type] * 16 + flags>> \o WriteLen(Len(FlattenSeq(fields))) \o FlattenSeq(fields)
    IN CASE m.type = "PUBLISH" ->
              DeserializePublish(bytes("PUBLISH", 2 * m.qos + Bit(m.retained, 1),
                  <<String(m.topic), IF m.qos > 0 THEN Uint16(m.id) ELSE <<>>, m.payload>>)) = m
         [] m.type = "SUBACK" ->
              LET read == DeserializeSuback(bytes("SUBACK", 0, <<Uint16(m.id), m.codes>>), 1)
              IN IF Len(m.codes) <= 1 THEN read.id = m.id /\ read.granted = m.codes
                 ELSE read.stored <= 3    \* the array grantedQoS of the callers
         [] m.type = "CONNACK" ->
              LET read == DeserializeConnack(bytes("CONNACK", 0, << <<m.session, m.code>> >>))
              IN (read.code = "ACCEPTED" <=> m.code = 0)
         [] OTHER -> DeserializeAck(bytes(m.type, 0, <<Uint16(m.id)>>), m.type) = [rc |-> "SUCCESS", id |-> m.id]
=============================================================================
