---------------------------- MODULE WireMessages ----------------------------
(***************************************************************************)
(* Typed messages and packets: the Encode and Decode functions of          *)
(* network/wire.go, the reliable envelope of network/reliability.go, and   *)
(* the framing of messages into one datagram.                              *)
(*                                                                         *)
(* A message is [type, body]: its body has one value for each field of its *)
(* layout.  Encoders write the fields in order; decoders read them in      *)
(* order and refuse bytes that are left over.                              *)
(***************************************************************************)
EXTENDS WireBytes, FiniteSets

CONSTANTS MaxWireMessagesPerPacket, MaxWirePayloadSize

ASSUME PayloadAssumption ==
    /\ MaxWireMessagesPerPacket \in Nat /\ MaxWireMessagesPerPacket < ByteBase
    /\ MaxWirePayloadSize \in Nat /\ MaxWirePayloadSize < Power[WordLen]

(* The codec of the values inside snapshots, which is that of WireValue at
   depth 0, with its reference: what a reader is to see of a value, and
   whether the value's encoding ends in a counted run of no bytes. *)
CONSTANTS EncodeValue(_), DecodeValue(_), ReadForm(_), EndsEmpty(_)

Message(type, body) == [type |-> type, body |-> body]

(* Hello and Welcome: two strings and, when any of them is set, a protocol
   version, a capability bitset and a packet size. *)
NoNegotiation == <<0, 0, 0>>
NegotiationLen == 1 + LongLen + WordLen

ClientHelloLayout == <<"string", "string", "negotiation">>
WelcomeLayout == <<"string", "string", "negotiation">>
PingLayout == <<"long">>
PongLayout == <<"long">>
CodeMessageLayout == <<"short", "string">>
ObjectRequestLayout == <<"string", "string", "string", "bytes">>
(* ObjectID, then sequence, tick and position. *)
PlayerInputLayout == <<"string", "movement">>
GenericClientInputLayout == <<"long", "long", "string", "string", "string", "bytes">>
ChatMessageLayout == <<"chat">>
WorldSnapshotLayout == <<"string", "long", "long", "snapshot">>
WorldDeltaSnapshotLayout ==
    <<"string", "long", "long", "long", "snapshot", "snapshot", "refs">>
EntityLayout == <<"string", "string", "value">>
EntityDespawnLayout == <<"string", "string">>

-----------------------------------------------------------------------------
(* A snapshot: objects by type and ID, and references to despawned ones. *)
EncodeObjects(byID) ==
    LET ids == SortedStrings(DOMAIN byID)
    IN  IF ~CountFits(Len(ids)) THEN Fails
        ELSE Joined(<<writeUint(Len(ids), ShortLen)>> \o
               [i \in DOMAIN ids |->
                  Joined(<<writeString(ids[i], MaxWireStringBytes),
                           EncodeValue(byID[ids[i]])>>)])

EncodeSnapshotData(snapshot) ==
    LET types == SortedStrings(DOMAIN snapshot)
    IN  IF ~CountFits(Len(types)) THEN Fails
        ELSE Joined(<<writeUint(Len(types), ShortLen)>> \o
               [i \in DOMAIN types |->
                  Joined(<<writeString(types[i], MaxWireStringBytes),
                           EncodeObjects(snapshot[types[i]])>>)])

DecodeSnapshotData(left) ==
    Then(readUint(left, ShortLen), LAMBDA typeCount, atFirst :
    Repeat(typeCount, << >>, atFirst, LAMBDA n, done, rest :
        Then(readString(rest, MaxWireStringBytes), LAMBDA name, atCount :
        Then(readUint(atCount, ShortLen), LAMBDA count, atObjects :
        Then(DecodeEntries(count, atObjects, DecodeValue), LAMBDA objects, more :
             Got(With(done, name, objects), more))))))

(* refs is a set of <<type, id>>; it is written in sorted order. *)
RefLess(r, s) == StringLess(r[1], s[1]) \/ (r[1] = s[1] /\ StringLess(r[2], s[2]))

EncodeSnapshotObjectRefs(refs) ==
    LET ordered == SetToSortSeq(refs, RefLess)
    IN  IF ~CountFits(Len(ordered)) THEN Fails
        ELSE Joined(<<writeUint(Len(ordered), ShortLen)>> \o
               [i \in DOMAIN ordered |->
                  Joined(<<writeString(ordered[i][1], MaxWireStringBytes),
                           writeString(ordered[i][2], MaxWireStringBytes)>>)])

DecodeSnapshotObjectRefs(left) ==
    Then(readUint(left, ShortLen), LAMBDA count, atFirst :
    Repeat(count, {}, atFirst, LAMBDA n, done, rest :
        Then(readString(rest, MaxWireStringBytes), LAMBDA type, atID :
        Then(readString(atID, MaxWireStringBytes), LAMBDA id, more :
             Got(done \cup {<<type, id>>}, more)))))

-----------------------------------------------------------------------------
(* A field of each kind. *)

NegotiationWidths == <<1, LongLen, WordLen>>

writeUints(values, widths) ==
    Joined([i \in DOMAIN widths |-> writeUint(values[i], widths[i])])

EncodeNegotiation(n) ==
    IF n = NoNegotiation THEN Wrote(<< >>) ELSE writeUints(n, NegotiationWidths)

(* Mutated: capabilities and packet size are read for each other. *)
MutDecodeNegotiationSwapped(left) ==
    IF left = << >> THEN Got(NoNegotiation, << >>)
    ELSE IF Len(left) < NegotiationLen THEN Fails
    ELSE Then(readUints(left, NegotiationWidths), LAMBDA n, rest :
              Got(<<n[1], n[3], n[2]>>, rest))

DecodeNegotiation(left) ==
    IF left = << >> THEN Got(NoNegotiation, << >>)
    ELSE IF Len(left) < NegotiationLen THEN Fails
    ELSE readUints(left, NegotiationWidths)

MovementWidths == <<LongLen, LongLen, WordLen, WordLen, WordLen>>

EncodeMovement(m) == writeUints(m, MovementWidths)

(* A position alone is the older form, without sequence and tick. *)
DecodeMovement(left) ==
    IF Len(left) = 3 * WordLen
    THEN Then(readUints(left, SubSeq(MovementWidths, 3, 5)), LAMBDA position, rest :
              Got(<<0, 0>> \o position, rest))
    ELSE readUints(left, MovementWidths)

EncodeField(kind, v) ==
    CASE kind = "short" -> writeUint(v, ShortLen)
      [] kind = "long" -> writeUint(v, LongLen)
      [] kind = "string" -> writeString(v, MaxWireStringBytes)
      [] kind = "chat" -> writeString(v, MaxWireChatBytes)
      [] kind = "bytes" -> writeBytes(Bounded(Wrote(v), MaxWireMessagePayloadSize))
      [] kind = "negotiation" -> EncodeNegotiation(v)
      [] kind = "movement" -> EncodeMovement(v)
      [] kind = "value" -> EncodeValue(v)
      [] kind = "snapshot" -> EncodeSnapshotData(v)
      [] kind = "refs" -> EncodeSnapshotObjectRefs(v)

DecodeField(kind, left) ==
    CASE kind = "short" -> readUint(left, ShortLen)
      [] kind = "long" -> readUint(left, LongLen)
      [] kind = "string" -> readString(left, MaxWireStringBytes)
      [] kind = "chat" -> readString(left, MaxWireChatBytes)
      [] kind = "bytes" -> readBytes(left, MaxWireMessagePayloadSize)
      [] kind = "negotiation" -> DecodeNegotiation(left)
      [] kind = "movement" -> DecodeMovement(left)
      [] kind = "value" -> DecodeValue(left)
      [] kind = "snapshot" -> DecodeSnapshotData(left)
      [] kind = "refs" -> DecodeSnapshotObjectRefs(left)

(* Snapshots are the only messages whose encoder checks its own size. *)
EncodeBody(layout, body) ==
    LET written == Joined([i \in DOMAIN layout |-> EncodeField(layout[i], body[i])])
    IN  IF "snapshot" \in Range(layout) THEN Bounded(written, MaxWireMessagePayloadSize)
        ELSE written

DecodeBody(layout, payload) ==
    Then(Repeat(Len(layout), << >>, payload, LAMBDA n, done, rest :
            Then(DecodeField(layout[n], rest), LAMBDA value, more :
                 Got(Append(done, value), more))),
         LAMBDA body, trailing : IF trailing = << >> THEN Got(body, << >>) ELSE Fails)

(* What Go's types allow in a field; of values, snapshots and references,
   which are read as trees, nothing is said here. *)
UintsTyped(values, widths) ==
    /\ values \in Seq(Nat) /\ Len(values) = Len(widths)
    /\ \A i \in DOMAIN widths : values[i] < Power[widths[i]]

FieldTyped(kind, v) ==
    /\ kind = "short" => v \in 0 .. Power[ShortLen] - 1
    /\ kind = "long" => v \in 0 .. Power[LongLen] - 1
    /\ kind \in {"string", "chat", "bytes"} => v \in Seq(Byte)
    /\ kind = "negotiation" => UintsTyped(v, NegotiationWidths)
    /\ kind = "movement" => UintsTyped(v, MovementWidths)

FlatKinds == {"short", "long", "string", "chat", "bytes"}
ClosingKinds == {"negotiation", "movement"}
TreeKinds == {"value", "snapshot", "refs"}

(* The decoders of closing fields look at what is left of the payload: such
   a field is the last one, and not the only one. *)
LayoutTyped(layout) ==
    /\ layout \in Seq(FlatKinds \cup ClosingKinds \cup TreeKinds)
    /\ \A j \in DOMAIN layout : layout[j] \in ClosingKinds => j = Len(layout) /\ j > 1

BodyTyped(layout, body) ==
    Len(body) = Len(layout) /\ \A j \in DOMAIN layout : FieldTyped(layout[j], body[j])

-----------------------------------------------------------------------------
(* Framing.  A framed message is [id, payload, delivery, deliveryID]. *)
Framed(id, payload, delivery, deliveryID) ==
    [id |-> id, payload |-> payload, delivery |-> delivery, deliveryID |-> deliveryID]

WireMessageReliable == 7
Unreliable == 0
ReliableOrdered == 1
ReliableUnordered == 2
ReliableClasses == {ReliableOrdered, ReliableUnordered}

EncodeReliableEnvelope(m) ==
    IF m.delivery \notin ReliableClasses \/ m.deliveryID = 0 THEN Fails
    ELSE Bounded(Joined(<<writeUints(<<m.delivery, m.deliveryID, m.id>>, <<1, LongLen, ShortLen>>),
                          writeBytes(Wrote(m.payload))>>),
                 MaxWireMessagePayloadSize)

DecodeReliableEnvelope(payload) ==
    Then(readUints(payload, <<1, LongLen, ShortLen, WordLen>>), LAMBDA header, rest :
        IF \/ header[1] \notin ReliableClasses \/ header[2] = 0
           \/ header[4] > MaxWireMessagePayloadSize \/ header[4] > Len(rest)
        THEN Fails
        ELSE Then(Read(rest, header[4]), LAMBDA inner, trailing :
                  IF trailing = << >>
                  THEN Got(Framed(header[3], inner, header[1], header[2]), << >>) ELSE Fails))

EncodeFramed(m) ==
    CASE m.delivery = Unreliable ->
            Joined(<<writeUint(m.id, ShortLen),
                     writeBytes(Bounded(Wrote(m.payload), MaxWireMessagePayloadSize))>>)
      [] m.delivery \in ReliableClasses ->
            Joined(<<writeUint(WireMessageReliable, ShortLen),
                     writeBytes(EncodeReliableEnvelope(m))>>)
      [] OTHER -> Fails

WireProtocolMagic == <<69, 83>>
WireProtocolVersion == 1
wirePacketHeaderSize == 4 + WordLen + 3 * LongLen + WordLen
wireMessageHeaderSize == ShortLen + WordLen

ASSUME HeaderAssumption ==
    /\ WireProtocolMagic \in Seq(Byte)
    /\ ReliableClasses \cup {WireProtocolVersion} \subseteq Byte
    /\ WireMessageReliable < Power[ShortLen]

Packet(sequence, ack, ackBits, messages) ==
    [sequence |-> sequence, ack |-> ack, ackBits |-> ackBits, messages |-> messages]

EncodePacketWithAcks(p) ==
    IF Len(p.messages) \notin 1 .. MaxWireMessagesPerPacket THEN Fails
    ELSE Joined(<<Wrote(WireProtocolMagic \o <<WireProtocolVersion, Len(p.messages)>>),
                  writeUints(<<0, p.sequence, p.ack, p.ackBits>>,
                             <<WordLen, LongLen, LongLen, LongLen>>),
                  writeBytes(Bounded(Joined([i \in DOMAIN p.messages |->
                                               EncodeFramed(p.messages[i])]),
                                     MaxWirePayloadSize))>>)

(* Mutated: what an envelope holds is handed on without its class. *)
MutDecodeFramedClassless(left) ==
    IF Len(left) < wireMessageHeaderSize THEN Fails
    ELSE Then(readUint(left, ShortLen), LAMBDA id, atPayload :
         Then(readBytes(atPayload, MaxWireMessagePayloadSize), LAMBDA payload, rest :
              IF id # WireMessageReliable THEN Got(Framed(id, payload, Unreliable, 0), rest)
              ELSE Then(DecodeReliableEnvelope(payload), LAMBDA inner, none :
                        Got(Framed(inner.id, inner.payload, Unreliable, 0), rest))))

DecodeFramed(left) ==
    IF Len(left) < wireMessageHeaderSize THEN Fails
    ELSE Then(readUint(left, ShortLen), LAMBDA id, atPayload :
         Then(readBytes(atPayload, MaxWireMessagePayloadSize), LAMBDA payload, rest :
              IF id # WireMessageReliable THEN Got(Framed(id, payload, Unreliable, 0), rest)
              ELSE Then(DecodeReliableEnvelope(payload), LAMBDA inner, none :
                        Got(inner, rest))))

DecodePacket(data) ==
    IF \/ Len(data) < wirePacketHeaderSize
       \/ Len(data) - wirePacketHeaderSize > MaxWirePayloadSize
       \/ SubSeq(data, 1, 2) # WireProtocolMagic
       \/ data[3] # WireProtocolVersion
       \/ data[4] \notin 1 .. MaxWireMessagesPerPacket
    THEN Fails
    ELSE Then(readUints(SubSeq(data, 5, Len(data)),
                        <<WordLen, LongLen, LongLen, LongLen, WordLen>>), LAMBDA header, atFirst :
         IF header[5] # Len(atFirst) THEN Fails
         ELSE Then(Repeat(data[4], << >>, atFirst, LAMBDA n, done, rest :
                       Then(DecodeFramed(rest), LAMBDA framed, more : Got(Append(done, framed), more))),
                   LAMBDA messages, trailing :
                       IF trailing = << >>
                       THEN Got(Packet(header[2], header[3], header[4], messages), << >>)
                       ELSE Fails))
=============================================================================
