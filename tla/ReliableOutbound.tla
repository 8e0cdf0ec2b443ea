-------------------------- MODULE ReliableOutbound --------------------------
(***************************************************************************)
(* Server-to-client delivery: sendUDPResponse on the receive goroutine and *)
(* retransmitReliable on the tick goroutine (network/udp.go) share one     *)
(* client's retry queue; the C# client receives, dispatches and            *)
(* acknowledges.  Every critical section of server.mu is one action, so    *)
(* the goroutines interleave as the mutex lets them.  Datagrams are lost,  *)
(* duplicated and reordered as in ReliableInbound.                         *)
(***************************************************************************)
EXTENDS PacketWindow, ReliableReceiver, FiniteSets

CONSTANTS ReliableMaxAttempts,  \* Config.ReliableMaxAttempts
          ReliableQueueLimit,   \* Config.ReliableQueueLimit
          Supported,            \* reliable classes negotiated with the client
          Refusals,             \* whether the byte budget may refuse a write
          MaxPackets            \* bound: responses and snapshots the server begins

ASSUME MaxAttemptsAssumption == ReliableMaxAttempts \in Nat \ {0}
ASSUME QueueLimitAssumption == ReliableQueueLimit \in Nat \ {0}
ASSUME RefusalsAssumption == Refusals \in BOOLEAN

VARIABLES
    nextSequence,     \* server.nextSequence, shared by all packets
    nextReliableID,   \* client.nextReliableID, shared by both reliable streams
    reliableOut,      \* client.reliableOut: ID -> queued message
    response,         \* receive goroutine: the response being sent, or Idle
    transmits,        \* tick goroutine: retransmissions collected, not yet written
    toClient, toServer,
    latestPeerSequence, receivedSequences,  \* client window
    clientReceiver,   \* client: reliable receive state
    begun,            \* responses and snapshots begun so far
    streamOf,         \* history: ID -> the class it was given to
    writes,           \* history: ID -> packets written that carried it
    dropped           \* history: IDs dropped at the attempt limit

vars == <<nextSequence, nextReliableID, reliableOut, response, transmits,
          toClient, toServer, latestPeerSequence, receivedSequences,
          clientReceiver, begun, streamOf, writes, dropped>>
clientVars == <<latestPeerSequence, receivedSequences, clientReceiver>>
historyVars == <<streamOf, writes, dropped>>

Idle == [stage |-> "idle"]
Packet(sequence, m) == [sequence |-> sequence, message |-> m]
Queued == DOMAIN reliableOut
With(f, x, y) == [z \in DOMAIN f \cup {x} |-> IF z = x THEN y ELSE f[z]]
Without(f, S) == [x \in DOMAIN f \ S |-> f[x]]

TypeOK ==
    /\ nextSequence \in Nat /\ nextReliableID \in Nat
    /\ Queued \subseteq DOMAIN streamOf
    /\ DOMAIN streamOf = 1 .. nextReliableID
    /\ \A id \in Queued : /\ reliableOut[id].attempts \in 1 .. ReliableMaxAttempts
                          /\ reliableOut[id].sequences \subseteq 1 .. nextSequence
    /\ response.stage \in {"idle", "prepared", "reserved", "queued"}
    /\ \A p \in transmits \cup toClient : p.sequence \in 1 .. nextSequence
    /\ dropped \subseteq DOMAIN streamOf

Init ==
    /\ nextSequence = 0 /\ nextReliableID = 0
    /\ reliableOut = << >> /\ response = Idle /\ transmits = {}
    /\ toClient = {} /\ toServer = {}
    /\ latestPeerSequence = 0 /\ receivedSequences = {}
    /\ clientReceiver = NewReceiver
    /\ begun = 0
    /\ streamOf = << >> /\ writes = << >> /\ dropped = {}

-----------------------------------------------------------------------------
(* The receive goroutine. *)

QueueFull == Cardinality(Queued) >= ReliableQueueLimit

(* prepareReliableMessage: a class the peer did not negotiate becomes
   unreliable, a full queue refuses the response, and otherwise the next ID
   is consumed.  EncodeMessage has succeeded before. *)
PrepareResponse(class) ==
    /\ response = Idle
    /\ begun < MaxPackets
    /\ begun' = begun + 1
    /\ CASE class \notin Supported ->
            /\ response' = [stage |-> "prepared", message |-> Message("unreliable", 0)]
            /\ UNCHANGED <<nextReliableID, streamOf, writes>>
         [] class \in Supported /\ QueueFull ->
            UNCHANGED <<response, nextReliableID, streamOf, writes>>
         [] OTHER ->
            /\ nextReliableID' = nextReliableID + 1
            /\ response' = [stage |-> "prepared",
                            message |-> Message(class, nextReliableID + 1)]
            /\ streamOf' = With(streamOf, nextReliableID + 1, class)
            /\ writes' = With(writes, nextReliableID + 1, 0)
    /\ UNCHANGED <<nextSequence, reliableOut, toClient, toServer, dropped,
                   clientVars, transmits>>

(* The response takes a packet sequence and its bytes from the budget. *)
ReserveResponse ==
    /\ response.stage = "prepared"
    /\ nextSequence' = nextSequence + 1
    /\ response' = [stage |-> "reserved", message |-> response.message,
                    sequence |-> nextSequence + 1]
    /\ UNCHANGED <<nextReliableID, reliableOut, toClient, toServer, begun,
                   clientVars, transmits, historyVars>>

(* validateOutboundPacket or reserveOutboundBudget refuses it: the response
   is dropped after its ID has been consumed. *)
RefuseResponse ==
    /\ Refusals
    /\ response.stage = "prepared"
    /\ nextSequence' = nextSequence + 1
    /\ response' = Idle
    /\ UNCHANGED <<nextReliableID, reliableOut, toClient, toServer, begun,
                   clientVars, transmits, historyVars>>

(* queueReliableOutbound, before the packet is written. *)
QueueResponse ==
    /\ response.stage = "reserved"
    /\ CASE response.message.class = "unreliable" ->
            /\ response' = [response EXCEPT !.stage = "queued"]
            /\ UNCHANGED reliableOut
         [] response.message.class # "unreliable" /\ QueueFull ->
            response' = Idle /\ UNCHANGED reliableOut
         [] OTHER ->
            /\ reliableOut' = With(reliableOut, response.message.id,
                                   [message |-> response.message, attempts |-> 1,
                                    sequences |-> {response.sequence}])
            /\ response' = [response EXCEPT !.stage = "queued"]
    /\ UNCHANGED <<nextSequence, nextReliableID, toClient, toServer, begun,
                   clientVars, transmits, historyVars>>

(* WriteToUDP *)
Write(p) ==
    /\ toClient' = toClient \cup {p}
    /\ writes' = IF p.message.id \in DOMAIN writes
                 THEN [writes EXCEPT ![p.message.id] = @ + 1] ELSE writes

WriteResponse ==
    /\ response.stage = "queued"
    /\ Write(Packet(response.sequence, response.message))
    /\ response' = Idle
    /\ UNCHANGED <<nextSequence, nextReliableID, reliableOut, toServer, begun,
                   clientVars, transmits, streamOf, dropped>>

(* acceptClientRequest on a client packet, a duplicate or an old one too:
   removeAckedReliableLocked. *)
HandleAck ==
    /\ response = Idle
    /\ \E a \in toServer :
          LET acked == {id \in Queued :
                          \E s \in reliableOut[id].sequences :
                             PacketSequenceAcked(a.ack, a.ackBits, s)}
          IN  acked # {} /\ reliableOut' = Without(reliableOut, acked)
    /\ UNCHANGED <<nextSequence, nextReliableID, response, toClient, toServer,
                   begun, clientVars, transmits, historyVars>>

-----------------------------------------------------------------------------
(* The tick goroutine. *)

Exhausted(id) == reliableOut[id].attempts >= ReliableMaxAttempts

(* Mutated: the retry is not counted. *)
MutRetriedUncounted(entry, sequence) == [entry EXCEPT !.sequences = @ \cup {sequence}]

(* A queued message that is sent once more, in the packet sequence. *)
Retried(entry, sequence) ==
    [entry EXCEPT !.attempts = @ + 1, !.sequences = @ \cup {sequence}]

(* Mutated: an exhausted message is skipped and stays in the queue. *)
MutRemainingAll(gone) == Queued

Remaining(gone) == Queued \ gone

(* collectReliableRetransmits under the mutex: the messages whose retry
   interval has passed (any of them) are dropped at the attempt limit, or
   given one more packet sequence each, in map order (any order). *)
CollectRetransmits ==
    /\ transmits = {}
    /\ \E late \in (SUBSET Queued) \ {{}} :
          LET gone == {id \in late : Exhausted(id)}
              again == late \ gone
          IN  \E f \in [again -> nextSequence + 1 .. nextSequence + Cardinality(again)] :
                 /\ \A x, y \in again : f[x] = f[y] => x = y
                 /\ reliableOut' =
                      [id \in Remaining(gone) |->
                         IF id \in again THEN Retried(reliableOut[id], f[id])
                         ELSE reliableOut[id]]
                 /\ transmits' = {Packet(f[id], reliableOut[id].message) : id \in again}
                 /\ nextSequence' = nextSequence + Cardinality(again)
                 /\ dropped' = dropped \cup gone
    /\ UNCHANGED <<nextReliableID, response, toClient, toServer, begun, clientVars, streamOf, writes>>

(* retransmitReliable writes each collected packet in turn, *)
WriteRetransmit ==
    /\ \E p \in transmits : Write(p) /\ transmits' = transmits \ {p}
    /\ UNCHANGED <<nextSequence, nextReliableID, reliableOut, response, toServer,
                   begun, clientVars, streamOf, dropped>>

(* or leaves it out when the budget refuses it. *)
DeferRetransmit ==
    /\ Refusals
    /\ \E p \in transmits : transmits' = transmits \ {p}
    /\ UNCHANGED <<nextSequence, nextReliableID, reliableOut, response, toClient,
                   toServer, begun, clientVars, historyVars>>

(* A snapshot to this client takes a sequence as well; one to another client
   is a sequence this client never sees. *)
SendSnapshot ==
    /\ transmits = {}
    /\ begun < MaxPackets
    /\ begun' = begun + 1
    /\ nextSequence' = nextSequence + 1
    /\ Write(Packet(nextSequence + 1, Message("unreliable", 0)))
    /\ UNCHANGED <<nextReliableID, reliableOut, response, transmits, toServer,
                   clientVars, streamOf, dropped>>

-----------------------------------------------------------------------------
(* The client: HandleDatagram records the packet, dispatches what is in
   turn, and its later packets carry the new window. *)
ClientReceive ==
    /\ \E p \in toClient :
          LET newest == Newest(latestPeerSequence, p.sequence)
              received == PruneReceived(newest, receivedSequences \cup {p.sequence})
          IN  /\ latestPeerSequence' = newest
              /\ receivedSequences' = received
              /\ clientReceiver' = Receive(clientReceiver, p.message)
              /\ toServer' = toServer \cup
                    {[ack |-> newest, ackBits |-> AckBits(newest, received)]}
    /\ UNCHANGED <<nextSequence, nextReliableID, reliableOut, response, toClient,
                   begun, transmits, historyVars>>

Next ==
    \/ \E class \in {"ordered", "unordered"} : PrepareResponse(class)
    \/ ReserveResponse \/ RefuseResponse \/ QueueResponse \/ WriteResponse \/ HandleAck
    \/ CollectRetransmits \/ WriteRetransmit \/ DeferRetransmit \/ SendSnapshot
    \/ ClientReceive

Spec == Init /\ [][Next]_vars

(* The ticker keeps firing, every retry interval passes, and the tick
   goroutine finishes its writes; the network promises nothing. *)
CollectAll == CollectRetransmits /\ \A id \in Queued : id \in Queued' =>
                                        reliableOut'[id] # reliableOut[id]
Fairness ==
    /\ WF_vars(CollectAll)
    /\ WF_vars(WriteRetransmit \/ DeferRetransmit)

FairSpec == Spec /\ Fairness

-----------------------------------------------------------------------------
ClientHas(id) ==
    IF streamOf[id] = "unordered"
    THEN id \in clientReceiver.unordered
    ELSE id \in clientReceiver.received \cup clientReceiver.buffer

(* A message leaves the retry queue unsent-for only at the attempt limit:
   otherwise the client has it, dispatched or waiting for its turn. *)
RemovedMeansDelivered ==
    \A id \in DOMAIN streamOf :
        writes[id] > 0 => id \in Queued \cup dropped \/ ClientHas(id)

(* No message is put on the wire more often than ReliableMaxAttempts, the
   first send included; every packet sequence taken for it is an attempt,
   written or deferred, and the queue never holds more than its limit. *)
AttemptsBounded ==
    /\ \A id \in DOMAIN writes : writes[id] <= ReliableMaxAttempts
    /\ \A id \in Queued :
          LET entry == reliableOut[id]
          IN  /\ writes[id] <= entry.attempts
              /\ entry.attempts = Cardinality(entry.sequences)
              /\ entry.attempts <= ReliableMaxAttempts
    /\ Cardinality(Queued) <= ReliableQueueLimit

(* Every queued message is eventually acknowledged or dropped. *)
QueueDrains ==
    \A id \in 1 .. MaxPackets : id \in Queued ~> id \notin Queued

(* wire-protocol.md: ordered IDs "start at 1 for a connection and increase by
   one for that ordered stream": the ordered IDs on the wire have no gap. *)
OrderedIdsIncreaseByOne ==
    LET onWire == {p.message.id : p \in {q \in toClient : q.message.class = "ordered"}}
    IN  \A id \in onWire : \A k \in 1 .. id - 1 : k \in DOMAIN streamOf /\ streamOf[k] = "ordered"
=============================================================================
