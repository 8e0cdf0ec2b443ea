------------------------------ MODULE Handshake ------------------------------
(***************************************************************************)
(* What a client and the server agree on, without the bytes: the server's  *)
(* record of one client as its wire packets and hellos are handled, in any *)
(* order and number, and as the server forgets it.                         *)
(***************************************************************************)
EXTENDS Negotiation

CONSTANTS Configs, Hellos

(* A setting may be of any sign; the fields of a hello are unsigned. *)
ASSUME ConfigsAssumption == \A c \in Configs : c.MaxPacketSize \in Int
ASSUME HellosAssumption ==
    \A h \in Hellos : /\ h = Terms(h.version, h.capabilities, h.size)
                      /\ h.version \in Nat /\ h.size \in Nat

VARIABLES config,  \* the runtime's configuration, normalized by NewRuntime
          client,  \* the server's record of the client
          asked    \* history: the last hello that took effect, or NoTerms

handshakeVars == <<config, client, asked>>

HandshakeInit ==
    /\ config \in {Normalized(c) : c \in Configs}
    /\ client = NewClient(config)
    /\ asked = NoTerms

(* A wire packet is accepted; its messages are handled one by one. *)
TakePacket ==
    /\ client' = MarkWireClient(client, config)
    /\ UNCHANGED <<config, asked>>

TakeHello(hello) ==
    /\ client' = Negotiated(client, config, hello)
    /\ asked' = IF Negotiable(hello) THEN hello ELSE asked
    /\ UNCHANGED config

(* removeStaleClients; the next packet creates the client afresh. *)
Forget ==
    /\ client' = NewClient(config)
    /\ asked' = NoTerms
    /\ UNCHANGED config

HandshakeNext == TakePacket \/ (\E hello \in Hellos : TakeHello(hello)) \/ Forget
HandshakeSpec == HandshakeInit /\ [][HandshakeNext]_handshakeVars

-----------------------------------------------------------------------------
(* What the last hello and this server have in common. *)
Agreed == asked.capabilities \cap Normalized(config).Capabilities
AgreedSize == IF asked.size > 0 THEN Lower(asked.size, config.MaxPacketSize)
              ELSE config.MaxPacketSize

(* Once a client has negotiated, the server uses a capability toward it just
   when both sides have it.  When they have none in common this holds only
   until the client's next packet: markWireClient takes the empty set for
   one not yet set and puts the default in its place. *)
UsesOnlyAgreed ==
    Requested(asked) /\ Agreed # {} =>
        \A feature \in DefaultWireCapabilities :
            Supports(client, feature) <=> feature \in Agreed

(* The packet limit in force is the lower of the server's and the one the
   client last asked for. *)
LimitIsLower ==
    Requested(asked) => NegotiatedMaxPacketSize(client, config) = AgreedSize

(* The documented rule, without the exception of UsesOnlyAgreed: the server
   enables the intersection and nothing else. *)
OnlyTheIntersection ==
    Requested(asked) =>
        \A feature \in DefaultWireCapabilities : Supports(client, feature) => feature \in Agreed
=============================================================================
