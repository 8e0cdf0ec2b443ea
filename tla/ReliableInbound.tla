-------------------------- MODULE ReliableInbound --------------------------
(***************************************************************************)
(* Client-to-server delivery: the C# client's sender (EnservaUdpClient.cs) *)
(* and the server's receive path (network/udp.go), over a network that     *)
(* loses, duplicates and reorders datagrams.                               *)
(*                                                                         *)
(* The client puts one message in a packet.  Its SendMessageAsync and      *)
(* UpdateAsync await the socket between sending a packet and recording the *)
(* packet's sequence, and its receive loop runs meanwhile: the two halves  *)
(* are separate actions.  A datagram stays in the network once sent: it    *)
(* may be taken never (loss), late (reordering) or again (duplication).    *)
(* Encoding or sending a packet may also fail on the client.               *)
(*                                                                         *)
(* The server's receive goroutine handles one datagram at a time, in two   *)
(* critical sections of server.mu: it records the packet, which the tick   *)
(* goroutine may acknowledge from then on, and takes in its message.       *)
(***************************************************************************)
EXTENDS PacketWindow, ReliableReceiver, FiniteSets

CONSTANTS Scenarios,    \* bounds: how many messages of each class the client sends,
                        \* how often the server forgets the client, and how often
                        \* a send of the client fails
          MaxAttempts,  \* PendingReliableMessage.MaxAttempts
          Supported     \* the reliable classes the server negotiated

ASSUME ScenariosAssumption ==
    Scenarios \subseteq [quota : [Classes -> Nat], expiries : Nat, faults : Nat]
ASSUME MaxAttemptsAssumption == MaxAttempts \in Nat \ {0}
ASSUME SupportedAssumption == Supported \subseteq Classes

VARIABLES
    scenario,            \* the bounds of this behaviour
    nextPacketSequence,  \* client: sequence of the next packet
    created,             \* client: messages created, per class
    sending,             \* client: reliable packets sent but not yet tracked
    pending,             \* client: pendingReliable, by message
    due,                 \* client: messages this UpdateAsync still has to resend
    resending,           \* client: packet resent but not yet recorded (a set of at most one)
    toServer, toClient,  \* datagrams in the network
    ack, ackBits, receivedSeqs,  \* server: receive window of the client
    accepting,           \* server: message recorded but not yet taken in (at most one)
    receiver,            \* server: reliable receive state of the client
    dispatched,          \* history: class -> IDs dispatched in this server session
    arrived,             \* history: messages this session was handed
    held,                \* history: reliable messages any session took in
    abandoned,           \* history: messages given up after MaxAttempts
    refused,             \* history: reliable messages whose SendMessageAsync threw
    faults,              \* how often a send has failed
    expiries             \* how often the server has forgotten the client

clientVars == <<scenario, nextPacketSequence, created, sending, pending, due, resending,
                abandoned, refused, faults>>
serverVars == <<ack, ackBits, receivedSeqs, accepting, receiver, dispatched, arrived, held,
                expiries>>
vars == <<clientVars, serverVars, toServer, toClient>>

Reliable == {"ordered", "unordered"}
Quota == scenario.quota
ReliableMessages ==
    UNION {{Message(class, id) : id \in 1 .. s.quota[class]} : s \in Scenarios, class \in Reliable}
Packet(sequence, m) == [sequence |-> sequence, message |-> m]
NothingYet == [class \in Classes |-> << >>]

Init ==
    /\ scenario \in Scenarios
    /\ nextPacketSequence = 1
    /\ created = [class \in Classes |-> 0]
    /\ sending = {} /\ pending = << >> /\ due = {} /\ resending = {}
    /\ toServer = {} /\ toClient = {}
    /\ ack = 0 /\ ackBits = {} /\ receivedSeqs = {}
    /\ accepting = {} /\ receiver = NewReceiver
    /\ dispatched = NothingYet /\ arrived = {} /\ held = {}
    /\ abandoned = {} /\ refused = {}
    /\ expiries = 0 /\ faults = 0

-----------------------------------------------------------------------------
(* The client. *)

(* SendPacketAsync *)
SendPacket(m) ==
    /\ toServer' = toServer \cup {Packet(nextPacketSequence, m)}
    /\ nextPacketSequence' = nextPacketSequence + 1

(* SendPacketAsync when EncodePacket or the socket throws: the sequence is
   used up and no packet leaves. *)
SendPacketFails ==
    /\ faults < scenario.faults
    /\ faults' = faults + 1
    /\ nextPacketSequence' = nextPacketSequence + 1
    /\ UNCHANGED toServer

(* CreateOutgoingMessage: each reliable class numbers its messages from 1,
   and the number is used up before the message is sent. *)
CreateOutgoingMessage(class) ==
    Message(class, IF class \in Reliable THEN created[class] + 1 ELSE 0)

Creates(class) ==
    /\ created[class] < Quota[class]
    /\ created' = [created EXCEPT ![class] = @ + 1]

(* The first half of SendMessageAsync, *)
SendMessage(class) ==
    /\ Creates(class)
    /\ LET m == CreateOutgoingMessage(class)
       IN  /\ SendPacket(m)
           /\ sending' = IF class \in Reliable
                         THEN sending \cup {Packet(nextPacketSequence, m)}
                         ELSE sending
    /\ UNCHANGED <<scenario, pending, due, resending, abandoned, refused, faults, toClient,
                   serverVars>>

(* or all of it: the exception passes TrackReliableMessage by and reaches
   the caller. *)
SendMessageFails(class) ==
    /\ Creates(class)
    /\ SendPacketFails
    /\ refused' = IF class \in Reliable
                  THEN refused \cup {CreateOutgoingMessage(class)} ELSE refused
    /\ UNCHANGED <<scenario, sending, pending, due, resending, abandoned, toClient,
                   serverVars>>

(* The second half: TrackReliableMessage. *)
TrackMessage ==
    /\ \E p \in sending :
          /\ sending' = sending \ {p}
          /\ pending' = [m \in DOMAIN pending \cup {p.message} |->
                           IF m = p.message
                           THEN [attempts |-> 1, sequences |-> {p.sequence}]
                           ELSE pending[m]]
    /\ UNCHANGED <<scenario, nextPacketSequence, created, due, resending, abandoned,
                   refused, faults, toServer, toClient, serverVars>>

Without(f, S) == [x \in DOMAIN f \ S |-> f[x]]

(* Mutated: an exhausted message is skipped and stays in the list. *)
MutDropExhaustedKeeps(exhausted) == UNCHANGED pending

DropExhausted(exhausted) == pending' = Without(pending, exhausted)

(* UpdateAsync under its lock: drops the exhausted messages and collects
   those whose retry time has come, any of the others. *)
UpdateBegin ==
    /\ due = {} /\ resending = {}
    /\ LET exhausted == {m \in DOMAIN pending : pending[m].attempts >= MaxAttempts}
       IN  /\ DropExhausted(exhausted)
           /\ abandoned' = abandoned \cup exhausted
           /\ due' \in SUBSET (DOMAIN pending \ exhausted)
           /\ exhausted # {} \/ due' # {}
    /\ UNCHANGED <<scenario, nextPacketSequence, created, sending, resending, refused,
                   faults, toServer, toClient, serverVars>>

(* The resend loop of UpdateAsync: send, *)
ResendBegin ==
    /\ resending = {}
    /\ \E m \in due :
          /\ SendPacket(m)
          /\ resending' = {Packet(nextPacketSequence, m)}
          /\ due' = due \ {m}
    /\ UNCHANGED <<scenario, created, sending, pending, abandoned, refused, faults, toClient,
                   serverVars>>

(* or fail: no attempt is counted, and the exception ends UpdateAsync, with
   it the messages that were still due; *)
ResendFails ==
    /\ resending = {} /\ due # {}
    /\ SendPacketFails
    /\ due' = {}
    /\ UNCHANGED <<scenario, created, sending, pending, resending, abandoned, refused,
                   toClient, serverVars>>

(* then record the attempt; the message may have been acknowledged since,
   and the record that is updated is then no longer in the list. *)
ResendEnd ==
    /\ \E p \in resending :
          pending' = IF p.message \in DOMAIN pending
                     THEN [pending EXCEPT
                             ![p.message].attempts = @ + 1,
                             ![p.message].sequences = @ \cup {p.sequence}]
                     ELSE pending
    /\ resending' = {}
    /\ UNCHANGED <<scenario, nextPacketSequence, created, sending, due, abandoned, refused,
                   faults, toServer, toClient, serverVars>>

(* HandleDatagram on a server packet: RemoveAckedReliableMessages. *)
ClientReceive ==
    /\ \E a \in toClient :
          LET acked == {m \in DOMAIN pending :
                          \E s \in pending[m].sequences :
                             PacketSequenceAcked(a.ack, a.ackBits, s)}
          IN  acked # {} /\ pending' = Without(pending, acked)
    /\ UNCHANGED <<scenario, nextPacketSequence, created, sending, due, resending, abandoned,
                   refused, faults, toServer, toClient, serverVars>>

-----------------------------------------------------------------------------
(* The server. *)

(* acceptClientRequest lets a packet through once. *)
Acceptable(p) == p.sequence \notin receivedSeqs /\ ~TooOld(ack, p.sequence)

RecordPacket(p) ==
    LET newAck == Newest(ack, p.sequence)
        received == receivedSeqs \cup {p.sequence}
    IN  /\ ack' = newAck
        /\ ackBits' = AckBits(newAck, received)
        /\ receivedSeqs' = PruneReceived(newAck, received)

(* acceptClientRequest: the packet is recorded, and from here on every
   packet to the client, a snapshot or a retransmission of the tick goroutine
   included, carries the new window.  The network may hold such a packet back
   for ever, so sending it is part of this action. *)
AcceptPacket ==
    /\ accepting = {}
    /\ \E p \in toServer :
          /\ Acceptable(p)
          /\ RecordPacket(p)
          /\ accepting' = {[message |-> p.message, session |-> expiries]}
    /\ toClient' = toClient \cup {[ack |-> ack', ackBits |-> ackBits']}
    /\ UNCHANGED <<receiver, dispatched, arrived, held, expiries, clientVars, toServer>>

(* acceptReliableIncomingMessages, for the client that was found then: a
   session removed meanwhile takes its last message in and is not seen
   again.  A reliable class that was not negotiated is dropped. *)
TakeIn ==
    /\ \E t \in accepting :
          LET m == t.message
              negotiated == m.class \in Supported \cup {"unreliable"}
          IN  /\ accepting' = accepting \ {t}
              /\ held' = IF negotiated THEN held \cup {m} ELSE held
              /\ arrived' = IF t.session = expiries THEN arrived \cup {m} ELSE arrived
              /\ IF negotiated /\ t.session = expiries
                 THEN /\ receiver' = Receive(receiver, m)
                      /\ dispatched' = [dispatched EXCEPT ![m.class] =
                                           @ \o Dispatches(receiver, m)]
                 ELSE UNCHANGED <<receiver, dispatched>>
    /\ UNCHANGED <<ack, ackBits, receivedSeqs, expiries, clientVars, toServer, toClient>>

(* removeStaleClients: a client silent for ClientTimeout is deleted; its
   next datagram creates it afresh.  The client is not told. *)
Expire ==
    /\ expiries < scenario.expiries
    /\ ack > 0
    /\ ack' = 0 /\ ackBits' = {} /\ receivedSeqs' = {}
    /\ receiver' = NewReceiver
    /\ dispatched' = NothingYet /\ arrived' = {}
    /\ expiries' = expiries + 1
    /\ UNCHANGED <<accepting, held, clientVars, toServer, toClient>>

-----------------------------------------------------------------------------
Next ==
    \/ \E class \in Classes : SendMessage(class) \/ SendMessageFails(class)
    \/ TrackMessage \/ UpdateBegin \/ ResendBegin \/ ResendFails \/ ResendEnd \/ ClientReceive
    \/ AcceptPacket \/ TakeIn \/ Expire

Spec == Init /\ [][Next]_vars

(* The game calls UpdateAsync once per frame and awaits complete.  A send
   fails at most scenario.faults times, so the socket works again sooner or
   later; nothing is assumed of the network or of the server. *)
Fairness ==
    /\ WF_vars(TrackMessage)
    /\ WF_vars(UpdateBegin)
    /\ WF_vars(ResendBegin)
    /\ WF_vars(ResendEnd)

FairSpec == Spec /\ Fairness

-----------------------------------------------------------------------------
(* Ordered messages reach the runtime in ID order, from 1, with no gap and
   no repetition, however packets are lost, duplicated and reordered. *)
OrderedInOrder ==
    dispatched["ordered"] = [i \in 1 .. receiver.next - 1 |-> i]

(* An unordered message is dispatched at most once in a session although
   every retransmission is a new packet. *)
UnorderedOnce ==
    \A i, j \in DOMAIN dispatched["unordered"] :
        dispatched["unordered"][i] = dispatched["unordered"][j] => i = j

(* No ordered message waits for one that is there: when 1..k have arrived
   (in any order) all of them have been dispatched, if the class was
   negotiated. *)
NothingDispatchableWaits ==
    "ordered" \in Supported => \A k \in 1 .. Quota["ordered"] :
        (\A j \in 1 .. k : Message("ordered", j) \in arrived) => k < receiver.next

Underway == {t.message : t \in accepting}

(* The client keeps a reliable message, of a class that was negotiated, for
   retransmission unless the server has taken it in or is about to, every
   attempt has been used, or the caller was told by an exception that it was
   not sent. *)
NoSilentLoss ==
    \A m \in {n \in ReliableMessages : n.class \in Supported} :
        \/ m.id > created[m.class]
        \/ m \in {p.message : p \in sending} \cup DOMAIN pending
        \/ m \in held \cup Underway \cup abandoned \cup refused

(* Every tracked message is eventually acknowledged or given up, although
   resends may fail for a while: once they succeed the retry list drains even
   if the server is never heard again. *)
PendingDrains ==
    \A m \in ReliableMessages : m \in DOMAIN pending ~> m \notin DOMAIN pending
=============================================================================
