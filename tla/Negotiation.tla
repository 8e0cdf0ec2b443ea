----------------------------- MODULE Negotiation -----------------------------
(***************************************************************************)
(* Configuration and hello/welcome negotiation: Config.Normalized and      *)
(* NegotiateClientHello of network/protocol.go, and what network/udp.go    *)
(* keeps of the result for a client.  Capability bitsets are sets; a hello *)
(* may hold bits this server does not know.                                *)
(***************************************************************************)
EXTENDS Integers, FiniteSets

CONSTANTS DefaultMaxPacketSize, LargestPacketSize

ASSUME PacketSizeAssumption ==
    /\ DefaultMaxPacketSize \in Nat \ {0} /\ LargestPacketSize \in Nat
    /\ DefaultMaxPacketSize <= LargestPacketSize

DefaultWireCapabilities == {"delta", "ordered", "unordered"}
ProtocolVersion == 1

Positive(n, default) == IF n <= 0 THEN default ELSE n
Lower(m, n) == IF m < n THEN m ELSE n

(* Config.Normalized, for the settings a client may bargain over; the rates
   and the limits of the other modules get their defaults in the same way.
   It is not idempotent: a mask of delta snapshots alone is empty when they
   are disabled, and the next call puts the default in its place. *)
Normalized(config) ==
    LET mask == IF config.Capabilities = {} THEN DefaultWireCapabilities
                ELSE config.Capabilities
    IN  [EnableDelta |-> config.EnableDelta,
         Capabilities |-> IF config.EnableDelta THEN mask ELSE mask \ {"delta"},
         MaxPacketSize |->
             Lower(Positive(config.MaxPacketSize, DefaultMaxPacketSize), LargestPacketSize)]

-----------------------------------------------------------------------------
(* A hello's or a welcome's negotiation fields. *)
Terms(version, capabilities, size) ==
    [version |-> version, capabilities |-> capabilities, size |-> size]
NoTerms == Terms(0, {}, 0)

Negotiable(hello) == hello.version \in {0, ProtocolVersion}
Requested(hello) == hello.version # 0 \/ hello.capabilities # {} \/ hello.size # 0

(* Mutated: the server's own limit replaces a lower one of the client. *)
MutNegotiateIgnoresSize(config, hello) ==
    IF ~Requested(hello) THEN NoTerms
    ELSE Terms(ProtocolVersion,
               hello.capabilities \cap Normalized(config).Capabilities,
               Normalized(config).MaxPacketSize)

NegotiateClientHello(config, hello) ==
    IF ~Requested(hello) THEN NoTerms
    ELSE Terms(ProtocolVersion,
               hello.capabilities \cap Normalized(config).Capabilities,
               IF hello.size > 0 THEN Lower(hello.size, Normalized(config).MaxPacketSize)
               ELSE Normalized(config).MaxPacketSize)

-----------------------------------------------------------------------------
(* What UDPClient keeps. *)
NewClient(config) ==
    [wireProtocol |-> FALSE, wireNegotiated |-> FALSE, wireVersion |-> 0,
     wireCapabilities |-> {}, maxPacketSize |-> config.MaxPacketSize]

(* markWireClient, on every wire packet. *)
MarkWireClient(client, config) ==
    [client EXCEPT
        !.wireProtocol = TRUE,
        !.wireCapabilities = IF @ = {} THEN DefaultWireCapabilities ELSE @,
        !.wireVersion = Positive(@, ProtocolVersion),
        !.maxPacketSize = IF @ = 0 THEN config.MaxPacketSize ELSE @]

ApplyClientPacketSize(client, config, size) ==
    [client EXCEPT !.maxPacketSize = IF size > 0 THEN Lower(size, config.MaxPacketSize) ELSE @]

(* Mutated: capabilities are added to the ones a former hello brought. *)
MutApplyAccumulates(client, welcome) ==
    [client EXCEPT
        !.wireNegotiated = welcome.version # 0 \/ welcome.capabilities # {},
        !.wireVersion = IF welcome.version # 0 THEN welcome.version ELSE @,
        !.wireCapabilities = @ \cup welcome.capabilities,
        !.maxPacketSize = IF welcome.size > 0 THEN welcome.size ELSE @]

ApplyNegotiatedWireState(client, welcome) ==
    LET negotiated == welcome.version # 0 \/ welcome.capabilities # {}
    IN  [client EXCEPT
            !.wireNegotiated = negotiated,
            !.wireVersion = IF welcome.version # 0 THEN welcome.version ELSE @,
            !.wireCapabilities = IF negotiated THEN welcome.capabilities ELSE @,
            !.maxPacketSize = IF welcome.size > 0 THEN welcome.size ELSE @]

(* handleAuthenticationAttempt up to the authentication handler: a hello of
   another protocol version changes nothing; the others take effect whether
   or not authentication succeeds. *)
Negotiated(client, config, hello) ==
    IF ~Negotiable(hello) THEN client
    ELSE ApplyNegotiatedWireState(ApplyClientPacketSize(client, config, hello.size),
                                  NegotiateClientHello(config, hello))

NegotiatedMaxPacketSize(client, config) ==
    IF client.maxPacketSize <= 0 THEN config.MaxPacketSize
    ELSE Lower(client.maxPacketSize, config.MaxPacketSize)

(* clientSupportsReliable and clientSupportsDeltaSnapshots *)
Supports(client, feature) ==
    ~client.wireNegotiated \/ feature \in client.wireCapabilities

(* The negotiation fields of the Welcome that answers an authentication. *)
WelcomeTerms(client, config) ==
    IF client.wireNegotiated \/ (client.maxPacketSize > 0 /\ client.maxPacketSize # config.MaxPacketSize)
    THEN Terms(client.wireVersion, client.wireCapabilities, NegotiatedMaxPacketSize(client, config))
    ELSE NoTerms
=============================================================================
