---------------------------- MODULE WireRegistry ----------------------------
(***************************************************************************)
(* WireMessageRegistry of network/wire_registry.go: definitions of message *)
(* types by ID and by Go type, and messages encoded and decoded by them.   *)
(* A registry is [byID, byType].                                           *)
(***************************************************************************)
EXTENDS WireMessages

Definition(id, type, layout, delivery) ==
    [id |-> id, type |-> type, layout |-> layout, delivery |-> delivery]

(* Register refuses a definition whose delivery class does not exist or
   whose ID or type is taken.  The ranges of system, engine and game IDs
   leave out none, so the check for them refuses nothing. *)
Refused(registry, d) ==
    \/ d.delivery \notin ReliableClasses \cup {Unreliable}
    \/ d.id \in DOMAIN registry.byID
    \/ d.type \in DOMAIN registry.byType

Registered(registry, d) ==
    [byID |-> With(registry.byID, d.id, d), byType |-> With(registry.byType, d.type, d)]

(* NewDefaultWireMessageRegistry *)
BuiltIn ==
    {Definition(1, "ClientHello", ClientHelloLayout, Unreliable),
     Definition(2, "Welcome", WelcomeLayout, Unreliable),
     Definition(3, "Ping", PingLayout, Unreliable),
     Definition(4, "Pong", PongLayout, Unreliable),
     Definition(5, "ErrorMessage", CodeMessageLayout, Unreliable),
     Definition(6, "DisconnectMessage", CodeMessageLayout, Unreliable),
     Definition(256, "ObjectRequest", ObjectRequestLayout, Unreliable),
     Definition(257, "PlayerInput", PlayerInputLayout, Unreliable),
     Definition(263, "GenericClientInput", GenericClientInputLayout, Unreliable),
     Definition(258, "WorldSnapshot", WorldSnapshotLayout, Unreliable),
     Definition(262, "WorldDeltaSnapshot", WorldDeltaSnapshotLayout, Unreliable),
     Definition(259, "EntitySpawn", EntityLayout, Unreliable),
     Definition(260, "EntityDespawn", EntityDespawnLayout, Unreliable),
     Definition(261, "EntityUpdate", EntityLayout, Unreliable)}

RegistryOf(definitions) ==
    [byID |-> [id \in {d.id : d \in definitions} |->
                  CHOOSE d \in definitions : d.id = id],
     byType |-> [type \in {d.type : d \in definitions} |->
                    CHOOSE d \in definitions : d.type = type]]
DefaultRegistry == RegistryOf(BuiltIn)

(* The validators that ask for more than the codec does. *)
Valid(m) ==
    /\ m.type = "ObjectRequest" => m.body[1] # << >> /\ m.body[2] # << >>
    /\ m.type = "PlayerInput" => m.body[1] # << >>

(* EncodeMessage: yields a framed message as its value. *)
AsFramed(payload, d) ==
    IF payload.ok THEN Got(Framed(d.id, payload.bytes, d.delivery, 0), << >>) ELSE Fails

EncodeMessage(registry, m) ==
    IF m.type \notin DOMAIN registry.byType \/ ~Valid(m) THEN Fails
    ELSE LET d == registry.byType[m.type]
         IN  AsFramed(EncodeBody(d.layout, m.body), d)

UnknownWireMessage(id, payload) == Message("Unknown", <<id, payload>>)

DecodeKnown(d, payload) ==
    Then(DecodeBody(d.layout, payload), LAMBDA body, rest :
        IF Valid(Message(d.type, body)) THEN Got(Message(d.type, body), rest) ELSE Fails)

(* Mutated: a message of unknown type is an error. *)
MutDecodeMessageKnownOnly(registry, framed) ==
    IF framed.id \in DOMAIN registry.byID
    THEN DecodeKnown(registry.byID[framed.id], framed.payload) ELSE Fails

DecodeMessage(registry, framed) ==
    IF framed.id \in DOMAIN registry.byID
    THEN DecodeKnown(registry.byID[framed.id], framed.payload)
    ELSE Got(UnknownWireMessage(framed.id, framed.payload), << >>)

(* decodeUDPWirePacket: one message that cannot be decoded fails the packet. *)
DecodeIncoming(registry, data) ==
    Then(DecodePacket(data), LAMBDA packet, none :
    Repeat(Len(packet.messages), << >>, none, LAMBDA n, done, rest :
        Then(DecodeMessage(registry, packet.messages[n]), LAMBDA message, more :
             Got(Append(done, [message |-> message, delivery |-> packet.messages[n].delivery]),
                 more))))
=============================================================================
