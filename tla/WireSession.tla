----------------------------- MODULE WireSession -----------------------------
(***************************************************************************)
(* One client's datagrams through the server, byte for byte: the client    *)
(* encodes a packet, handleMessage of network/udp.go decodes it, marks the *)
(* client, handles the messages one by one, and encodes its responses for  *)
(* the client to decode; the tick goroutine sends snapshots in between,    *)
(* and game code registers message types.                                  *)
(*                                                                         *)
(* Any packet may come at any time, so that loss, repetition and order of  *)
(* datagrams need no variable; sequence numbers, duplicates and reliable   *)
(* IDs are those of ReliableInbound, budgets those of BandwidthBudget.     *)
(***************************************************************************)
EXTENDS WireRegistry, Handshake

CONSTANTS ClientPackets,    \* what the client may send: sequences of outgoing messages
          GameDefinitions,  \* message types of the game, known to the client
          Offered,          \* what game code tries to register, GameDefinitions included
          GameResponses,    \* what handlers of requests and game messages may answer
          Snapshots         \* the snapshot messages that may be sent

(* Code that registers a message type the client knows agrees with the
   client on it. *)
ASSUME OfferedAssumption ==
    /\ GameDefinitions \subseteq Offered
    /\ \A d \in Offered, e \in GameDefinitions : d.id = e.id \/ d.type = e.type => d = e

VARIABLES registry,
          inbox,    \* receive goroutine: messages not yet handled, by their place in the packet
          copy,     \* tick goroutine: its copy of the client (a set of at most one)
          taken,    \* history: the packet just decoded, with what came of it (likewise)
          written   \* history: the datagram just written, with what it was made of (likewise)

sessionVars == <<config, client, asked, registry, inbox, copy, taken, written>>

(* A message to be sent, with the delivery class of its wrapper. *)
Outgoing(message, delivery) == [message |-> message, delivery |-> delivery]
Unwrapped == -1
NoMessages == << >>

SessionInit ==
    /\ HandshakeInit
    /\ registry = DefaultRegistry
    /\ inbox = NoMessages /\ copy = {} /\ taken = {} /\ written = {}

-----------------------------------------------------------------------------
(* Capability bits, and the negotiation fields of a hello or a welcome. *)
CapabilityBit == [delta |-> 1, ordered |-> 2, unordered |-> 4, future |-> 8]
Bits(S) ==
    LET bit(f) == IF f \in S THEN CapabilityBit[f] ELSE 0
    IN  bit("delta") + bit("ordered") + bit("unordered") + bit("future")
Capabilities(bits) == {f \in DOMAIN CapabilityBit : (bits \div CapabilityBit[f]) % 2 = 1}
FieldsOf(terms) == <<terms.version, Bits(terms.capabilities), terms.size>>
TermsOf(fields) == Terms(fields[1], Capabilities(fields[2]), fields[3])

FeatureOf(delivery) == IF delivery = ReliableOrdered THEN "ordered" ELSE "unordered"

EncodeAll(framed) ==
    IF framed.ok THEN EncodePacketWithAcks(Packet(0, 0, 0, framed.value)) ELSE Fails

(* EncodeMessage and the delivery class; reliable messages get an ID. *)
Datagram(reg, outs) ==
    LET id(class) == IF class \in ReliableClasses THEN 1 ELSE 0
    IN  EncodeAll(Repeat(Len(outs), << >>, << >>, LAMBDA n, done, rest :
            Then(EncodeMessage(reg, outs[n].message), LAMBDA framed, more :
                 Got(Append(done, [framed EXCEPT !.delivery = outs[n].delivery,
                                                 !.deliveryID = id(outs[n].delivery)]), more))))

(* The client knows the built-in messages and the game's. *)
ClientRegistry == RegistryOf(BuiltIn \cup GameDefinitions)

KnownLayout(m) == ClientRegistry.byType[m.type].layout

(* A message whose fields, if its type is known, have their Go types. *)
MessageTyped(m) ==
    /\ m = Message(m.type, m.body)
    /\ m.type \in DOMAIN ClientRegistry.byType => BodyTyped(KnownLayout(m), m.body)

(* The capability bits fit a uint64, and a packet size a uint32. *)
ASSUME TermsAssumption ==
    /\ Bits(DOMAIN CapabilityBit) < Power[LongLen]
    /\ LargestPacketSize < Power[WordLen]

(* The client's registry has refused an ID or a type that was taken.  No
   type has the ID of the envelope, which Register would not refuse. *)
ASSUME DefinitionsAssumption ==
    /\ \A d, e \in BuiltIn \cup GameDefinitions : d.id = e.id \/ d.type = e.type => d = e
    /\ \A d \in BuiltIn \cup GameDefinitions :
          /\ d.id \in (0 .. Power[ShortLen] - 1) \ {WireMessageReliable}
          /\ d.delivery \in ReliableClasses \cup {Unreliable}
          /\ LayoutTyped(d.layout)

(* The client sends what is registered, and no values or snapshots. *)
ASSUME ClientPacketsAssumption ==
    \A p \in ClientPackets :
        /\ p \in Seq(Range(p))
        /\ \A i \in DOMAIN p :
              /\ p[i].delivery \in ReliableClasses \cup {Unreliable}
              /\ p[i].message.type \in DOMAIN ClientRegistry.byType
              /\ MessageTyped(p[i].message)
              /\ Range(KnownLayout(p[i].message)) \cap TreeKinds = {}
              /\ p[i].message.type = "ClientHello" => TermsOf(p[i].message.body[3]) \in Hellos

(* Handlers answer with their own messages; what they may have registered
   and answer with, the client knows. *)
ASSUME AnswersAssumption ==
    /\ \A out \in GameResponses :
          /\ out = Outgoing(out.message, out.delivery)
          /\ out.delivery \in ReliableClasses \cup {Unreliable, Unwrapped}
          /\ out.message.type # "Welcome"
          /\ MessageTyped(out.message)
          /\ out.message.type \in {d.type : d \in Offered} =>
                out.message.type \in DOMAIN ClientRegistry.byType
    /\ \A m \in Snapshots :
          m.type \in {"WorldSnapshot", "WorldDeltaSnapshot"} /\ MessageTyped(m)

-----------------------------------------------------------------------------
(* The receive goroutine. *)

(* handleMessage up to the loop over its messages.  What cannot be decoded
   changes nothing; acceptReliableIncomingMessages leaves out reliable
   messages of a class the client has not negotiated. *)
AcceptPacket(p, incoming) ==
    /\ taken' = {[sent |-> p, got |-> incoming]}
    /\ IF incoming.ok
       THEN /\ TakePacket
            /\ inbox' = [i \in {i \in DOMAIN incoming.value :
                                 incoming.value[i].delivery \in ReliableClasses =>
                                    Supports(client', FeatureOf(incoming.value[i].delivery))}
                            |-> incoming.value[i]]
       ELSE UNCHANGED <<handshakeVars, inbox>>
    /\ written' = {}
    /\ UNCHANGED <<registry, copy>>

Receive(p) ==
    /\ inbox = NoMessages
    /\ Datagram(ClientRegistry, p).ok
    /\ AcceptPacket(p, DecodeIncoming(registry, Datagram(ClientRegistry, p).bytes))

(* Mutated: only the server's own limit counts. *)
MutFitsServerOnly(data, to) == Len(data) <= config.MaxPacketSize

(* validateOutboundPacket *)
Fits(data, to) == Len(data) <= NegotiatedMaxPacketSize(to, config)

(* A datagram that cannot be encoded or is above the limit is not written. *)
WriteDatagram(datagram, outs, to, limit) ==
    written' = IF datagram.ok /\ Fits(datagram.bytes, to)
               THEN {[data |-> datagram.bytes, made |-> outs, limit |-> limit]}
               ELSE {}

(* limit is history: what the two sides have agreed on. *)
Write(outs, to, limit) == WriteDatagram(Datagram(registry, outs), outs, to, limit)

(* The class of the wrapper or of the definition, lowered to unreliable if
   the client has not negotiated it. *)
DeliveryOf(out, to) ==
    LET class == IF out.delivery # Unwrapped THEN out.delivery
                 ELSE IF out.message.type \in DOMAIN registry.byType
                      THEN registry.byType[out.message.type].delivery
                      ELSE Unreliable
    IN  IF class \in ReliableClasses /\ ~Supports(to, FeatureOf(class)) THEN Unreliable
        ELSE class

(* sendUDPResponse *)
SendResponse(out, to) ==
    Write(<<[out EXCEPT !.delivery = DeliveryOf(out, to)]>>, to, AgreedSize')

Error == Outgoing(Message("ErrorMessage", <<1, <<33>>>>), Unwrapped)

HelloTerms(m) == TermsOf(m.body[3])

(* handleAuthenticationAttempt.  Whether the handler accepts the hello and
   the ID, the hello's name here, is free depends on the handler and on the
   other clients; an empty ID is refused. *)
HandleHello(m) ==
    LET hello == HelloTerms(m)
    IN  /\ TakeHello(hello)
        /\ \/ SendResponse(Error, client')
           \/ /\ Negotiable(hello) /\ m.body[1] # << >>
              /\ SendResponse(Outgoing(Message("Welcome",
                    <<m.body[1], m.body[1], FieldsOf(WelcomeTerms(client', config))>>),
                    Unwrapped), client')

(* Dispatch to the handler of a game's message type or, for an object
   request, authentication check and HandleRequest: an answer, an error or
   nothing.  Inputs with a tick are only buffered. *)
HandleOther(m) ==
    /\ m.type \notin {"ClientHello", "Ping"}
    /\ UNCHANGED handshakeVars
    /\ \/ /\ \/ m.type \in {d.type : d \in GameDefinitions}
             \/ m.type = "ObjectRequest"
             \/ m.type = "PlayerInput" /\ m.body[2][2] = 0
          /\ \E out \in GameResponses \cup {Error} : SendResponse(out, client)
       \/ written' = {}

HandleMessage(m) ==
    \/ m.type = "ClientHello" /\ HandleHello(m)
    \/ /\ m.type = "Ping" /\ UNCHANGED handshakeVars
       /\ SendResponse(Outgoing(Message("Pong", m.body), Unwrapped), client)
    \/ HandleOther(m)

(* One turn of the loop of handleMessage. *)
HandleNext ==
    /\ \E i \in DOMAIN inbox :
          /\ \A j \in DOMAIN inbox : i <= j
          /\ HandleMessage(inbox[i].message)
          /\ inbox' = [j \in DOMAIN inbox \ {i} |-> inbox[j]]
    /\ taken' = {}
    /\ UNCHANGED <<registry, copy>>

-----------------------------------------------------------------------------
(* RegisterWireMessage by game code; a definition in use is refused. *)
Register(d) ==
    /\ ~Refused(registry, d)
    /\ registry' = Registered(registry, d)
    /\ taken' = {} /\ written' = {}
    /\ UNCHANGED <<handshakeVars, inbox, copy>>

(* The tick goroutine: snapshotClients copies the client, *)
BeginSnapshot ==
    /\ copy = {} /\ client.wireProtocol
    /\ copy' = {[client |-> client, limit |-> AgreedSize]}
    /\ taken' = {} /\ written' = {}
    /\ UNCHANGED <<handshakeVars, registry, inbox>>

(* and a full snapshot, or a delta if the copy takes it, is encoded and
   checked for the copy, whatever the receive goroutine did meanwhile. *)
WriteSnapshot(m) ==
    /\ \E c \in copy :
          /\ m.type = "WorldDeltaSnapshot" => config.EnableDelta /\ Supports(c.client, "delta")
          /\ Write(<<Outgoing(m, Unreliable)>>, c.client, c.limit)
    /\ copy' = {}
    /\ taken' = {}
    /\ UNCHANGED <<handshakeVars, registry, inbox>>

(* removeStaleClients: a packet is handled well within ClientTimeout. *)
Expire ==
    /\ inbox = NoMessages /\ copy = {}
    /\ client # NewClient(config)
    /\ Forget
    /\ taken' = {} /\ written' = {}
    /\ UNCHANGED <<registry, inbox, copy>>

SessionNext ==
    \/ \E p \in ClientPackets : Receive(p)
    \/ HandleNext
    \/ \E d \in Offered : Register(d)
    \/ BeginSnapshot
    \/ \E m \in Snapshots : WriteSnapshot(m)
    \/ Expire

SessionSpec == SessionInit /\ [][SessionNext]_sessionVars

-----------------------------------------------------------------------------
(* Reference: where the encoding of a message ends in a counted run of no
   bytes.  bytes.Reader.Read fails there although nothing is missing. *)
SnapshotEndsEmpty(s) ==
    /\ DOMAIN s # {}
    /\ LET objects == s[Last(SortedStrings(DOMAIN s))]
       IN  DOMAIN objects # {}
             /\ EndsEmpty(ReadForm(objects[Last(SortedStrings(DOMAIN objects))]))

FieldEndsEmpty(kind, v) ==
    \/ kind \in {"string", "chat", "bytes"} /\ v = << >>
    \/ kind = "value" /\ EndsEmpty(ReadForm(v))
    \/ kind = "snapshot" /\ SnapshotEndsEmpty(v)
    \/ kind = "refs" /\ v # {} /\ Last(SetToSortSeq(v, RefLess))[2] = << >>

BodyEndsEmpty(layout, body) ==
    /\ layout # << >>
    /\ IF Last(layout) = "negotiation" /\ Last(body) = NoNegotiation
       THEN FieldEndsEmpty(layout[Len(layout) - 1], body[Len(layout) - 1])
       ELSE FieldEndsEmpty(Last(layout), Last(body))

(* The messages that nothing below promises to come through: one of a type
   the reader knows whose last field is empty, and one without payload that
   is the last of its packet or in an envelope.  Neither is meant to be
   dropped; see UnknownDropsNothing. *)
MayBeDropped(reg, outs, i) ==
    LET d == ClientRegistry.byType[outs[i].message.type]
        payloadEmpty == EncodeBody(d.layout, outs[i].message.body).bytes = << >>
    IN  \/ d.id \in DOMAIN reg.byID /\ BodyEndsEmpty(d.layout, outs[i].message.body)
        \/ payloadEmpty /\ (i = Len(outs) \/ outs[i].delivery \in ReliableClasses)

SeenField(kind, v) ==
    CASE kind = "value" -> ReadForm(v)
      [] kind = "snapshot" -> [t \in DOMAIN v |-> [id \in DOMAIN v[t] |-> ReadForm(v[t][id])]]
      [] OTHER -> v

(* A field is read as it was written, whatever follows it, but for an empty
   one at the end of the data. *)
Written == {Fails} \cup [ok : {TRUE}, bytes : Seq(Byte)]

ReadsBack(kind, v, t) ==
    LET write == EncodeField(kind, v)
    IN  /\ write \in Written
        /\ write.ok =>
             /\ write.bytes = << >> <=> kind = "negotiation" /\ v = NoNegotiation
             /\ DecodeField(kind, write.bytes \o t)
                  = IF FieldEndsEmpty(kind, v) /\ t = << >> THEN Fails ELSE Got(SeenField(kind, v), t)

(* The codec of values reads back what it writes of a message's values,
   snapshots and references, before each of the given runs of bytes. *)
TreesReadBefore(runs, layout, body) ==
    \A j \in DOMAIN layout : layout[j] \in TreeKinds =>
        \A t \in runs : ReadsBack(layout[j], body[j], t)

AnswersReadBefore(runs) ==
    \A m \in Snapshots \cup {out.message : out \in GameResponses} :
        m.type \in DOMAIN ClientRegistry.byType => TreesReadBefore(runs, KnownLayout(m), m.body)

SeenAs(reg, out) ==
    LET d == ClientRegistry.byType[out.message.type]
    IN  IF d.id \in DOMAIN reg.byID
        THEN [message |-> Message(d.type,
                [j \in DOMAIN d.layout |-> SeenField(d.layout[j], out.message.body[j])]),
              delivery |-> out.delivery]
        ELSE [message |-> UnknownWireMessage(d.id, EncodeBody(d.layout, out.message.body).bytes),
              delivery |-> out.delivery]

(* What the receiver reads of a packet is exactly the messages the sender
   encoded, in order, with unknown ones kept as they are; and it does read
   the packet, unless a message in it may be dropped. *)
Faithful(reg, outs, got) ==
    /\ got.ok => got.value = [i \in DOMAIN outs |-> SeenAs(reg, outs[i])]
    /\ (\A i \in DOMAIN outs : ~MayBeDropped(reg, outs, i)) => got.ok

(* The server reads of a packet what the client put into it. *)
ServerReadsWhatWasSent ==
    \A t \in taken : Faithful(registry, t.sent, t.got)

(* The comment on the wire format (wire.go:85): unknown message types are
   preserved so that callers can skip them without dropping the whole packet.
   So a packet is read whenever the messages of the types that the server
   knows can be.  The code breaks it: the last message of a packet is dropped
   with the packet when it has no payload (wire.go:345), known or unknown. *)
UnknownDropsNothing ==
    \A t \in taken :
        (\A i \in DOMAIN t.sent :
            ClientRegistry.byType[t.sent[i].message.type].id \in DOMAIN registry.byID
              => ~MayBeDropped(registry, t.sent, i))
          => t.got.ok

(* What the server writes is bytes, and the client reads of a response or a
   snapshot what the server put into it: maps, structs and lists of values
   included. *)
ClientReadsWhatWasSent ==
    \A w \in written :
        /\ w.data \in Seq(Byte)
        /\ Faithful(ClientRegistry, w.made, DecodeIncoming(ClientRegistry, w.data))

(* No datagram is larger than what client and server have agreed on; for a
   snapshot, than what they had agreed on when its tick copied the client. *)
WithinAgreedSize == \A w \in written : Len(w.data) <= w.limit

(* The Welcome a negotiating client reads states what the server will do:
   the capabilities both have and the lower of the two packet sizes, also
   after earlier hellos, refused ones and forgotten sessions. *)
WelcomeStatesAgreement ==
    \A w \in written :
        w.made[1].message.type = "Welcome" /\ Requested(asked) =>
            LET read == DecodeIncoming(ClientRegistry, w.data)
            IN  read.ok => TermsOf(read.value[1].message.body[3])
                             = Terms(ProtocolVersion, Agreed, AgreedSize)

(* What the server keeps of the client changes only by whole hellos that the
   client has put into a packet, by packets and by expiry: nothing that
   encoding, framing and decoding do is seen above them. *)
ImplementsHandshake == HandshakeSpec
=============================================================================
