----------------------- MODULE ReliableOutboundProofs -----------------------
(***************************************************************************)
(* Server-to-client delivery, for every window, attempt limit and queue    *)
(* limit, and any number of packets: a message is written at most          *)
(* ReliableMaxAttempts times, and one that left the retry queue before     *)
(* that has reached the client.                                            *)
(***************************************************************************)
EXTENDS ReliableOutbound, ReliableReceiverProofs

Packets == [sequence : Nat, message : Messages]
Entries == [message : Messages, attempts : Nat, sequences : SUBSET Nat]
Acks == [ack : Nat, ackBits : SUBSET Nat]
Prepared == [stage : {"prepared"}, message : Messages]
Numbered == [stage : {"reserved", "queued"}, message : Messages, sequence : Nat]

Given == 1 .. nextReliableID

(* The receive goroutine has a sequence, or is about to write its packet. *)
Numbering == response.stage \in {"reserved", "queued"}
Queuing == response.stage = "queued"

(* A message as prepareReliableMessage leaves it: without an ID, or with one
   of the class it was given to. *)
Carried(m) ==
    \/ m.class = "unreliable" /\ m.id = 0
    \/ m.id \in Given /\ m.class = streamOf[m.id]

Typed ==
    /\ nextSequence \in Nat /\ nextReliableID \in Nat
    /\ streamOf \in [Given -> {"ordered", "unordered"}] /\ writes \in [Given -> Nat]
    /\ dropped \subseteq Given
    /\ Queued \subseteq Given /\ reliableOut \in [Queued -> Entries]
    /\ response \in {Idle} \cup Prepared \cup Numbered
    /\ response # Idle => Carried(response.message)
    /\ Numbering => response.sequence \in 1 .. nextSequence
    /\ transmits \subseteq Packets /\ toClient \subseteq Packets
    /\ \A p \in transmits \cup toClient : Carried(p.message) /\ p.sequence \in 1 .. nextSequence
    /\ toServer \subseteq Acks

EntryOK(id) ==
    LET entry == reliableOut[id]
    IN  /\ entry.message.id = id /\ entry.message.class = streamOf[id]
        /\ entry.sequences \subseteq 1 .. nextSequence /\ IsFiniteSet(entry.sequences)
        /\ entry.attempts = Cardinality(entry.sequences)
        /\ entry.attempts \in 1 .. ReliableMaxAttempts

EntriesOK == \A id \in Queued : EntryOK(id)

(* An ID that was given out but not yet queued has not been sent. *)
NotYetQueued ==
    response.stage \in {"prepared", "reserved"} /\ response.message.id \in Given =>
        /\ response.message.id \notin Queued
        /\ writes[response.message.id] = 0
        /\ \A p \in transmits : p.message.id # response.message.id

(* Packets about to be written, by message: one of each goroutine at most. *)
Collecting(id) == \E p \in transmits : p.message.id = id
Responding(id) == Queuing /\ response.message.id = id
ToWrite(id) ==
    (IF Collecting(id) THEN 1 ELSE 0) + (IF Responding(id) THEN 1 ELSE 0)

OneEach == \A p, q \in transmits : p.message.id = q.message.id => p = q

(* Written or about to be, a message has used an attempt for it. *)
WritesCounted ==
    \A id \in Given :
        writes[id] + ToWrite(id) <=
            IF id \in Queued THEN reliableOut[id].attempts ELSE ReliableMaxAttempts

CountInv == EntriesOK /\ NotYetQueued /\ OneEach /\ WritesCounted
                /\ Cardinality(Queued) <= ReliableQueueLimit

-----------------------------------------------------------------------------
Sent == {p.sequence : p \in toClient}

(* Every packet has a sequence of its own. *)
SequencesFresh ==
    /\ \A p \in transmits : p.sequence \notin Sent
    /\ \A p, q \in transmits : p.sequence = q.sequence => p = q
    /\ \A p, q \in toClient : p.sequence = q.sequence => p = q
    /\ Numbering =>
          /\ response.sequence \notin Sent
          /\ \A p \in transmits : p.sequence # response.sequence

(* A sequence recorded for a queued message is that of a packet with it. *)
SequencesCarry ==
    \A id \in Queued : \A s \in reliableOut[id].sequences :
        /\ \A p \in transmits \cup toClient : p.sequence = s => p.message.id = id
        /\ Numbering /\ response.sequence = s =>
              response.stage = "queued" /\ response.message.id = id

Has(m) ==
    \/ m.class = "unreliable"
    \/ m.class = "unordered" /\ m.id \in clientReceiver.unordered
    \/ m.class = "ordered" /\ m.id \in clientReceiver.received \cup clientReceiver.buffer

ReceiverOK == ReceiverInv(clientReceiver)

(* The client's window names packets it has taken, and so does every
   acknowledgement it ever sent. *)
WindowOK ==
    /\ latestPeerSequence \in Nat /\ receivedSequences \subseteq Sent
    /\ latestPeerSequence # 0 => latestPeerSequence \in receivedSequences
    /\ \A p \in toClient : p.sequence \in receivedSequences => Has(p.message)
    /\ \A a \in toServer, s \in Nat :
          PacketSequenceAcked(a.ack, a.ackBits, s) =>
             s \in Sent /\ \A p \in toClient : p.sequence = s => Has(p.message)

(* What is written, or about to be, is in the queue, dropped or delivered. *)
Accounted ==
    \A id \in Given :
        writes[id] + ToWrite(id) > 0 => id \in Queued \cup dropped \/ ClientHas(id)

DeliveryInv == SequencesFresh /\ SequencesCarry /\ ReceiverOK /\ WindowOK /\ Accounted

IInv == Typed /\ CountInv /\ DeliveryInv

-----------------------------------------------------------------------------
(* Types. *)

LEMMA CarriedKept ==
    ASSUME Typed, NEW m, Carried(m),
           nextReliableID' \in Nat, nextReliableID <= nextReliableID',
           \A id \in Given : streamOf'[id] = streamOf[id]
    PROVE  Carried(m)'
  BY DEF Carried, Given, Typed

LEMMA InitTyped == Init => Typed
<1> SUFFICES ASSUME Init PROVE Typed
  OBVIOUS
<1>1. Given = {}
  BY DEF Init, Given
<1>2. Queued = {} /\ reliableOut \in [Queued -> Entries]
  BY DEF Init, Queued
<1>3. streamOf \in [Given -> {"ordered", "unordered"}] /\ writes \in [Given -> Nat]
  BY <1>1 DEF Init
<1> QED
  BY <1>1, <1>2, <1>3 DEF Init, Typed, Idle, Numbering

(* prepareReliableMessage in its three cases. *)
LEMMA PrepareEffect ==
    ASSUME Typed, NEW class \in {"ordered", "unordered"}, PrepareResponse(class)
    PROVE  /\ response = Idle
           /\ UNCHANGED <<nextSequence, reliableOut, toClient, toServer, dropped, clientVars, transmits>>
           /\ \/ UNCHANGED <<response, nextReliableID, streamOf, writes>>
              \/ /\ UNCHANGED <<nextReliableID, streamOf, writes>>
                 /\ response' \in Prepared /\ response'.message.class = "unreliable"
                 /\ response'.message.id = 0
              \/ /\ ~QueueFull
                 /\ nextReliableID' = nextReliableID + 1
                 /\ response' \in Prepared /\ response'.message.class = class
                 /\ response'.message.id = nextReliableID'
                 /\ streamOf' \in [Given' -> {"ordered", "unordered"}]
                 /\ writes' \in [Given' -> Nat]
                 /\ streamOf'[nextReliableID'] = class /\ writes'[nextReliableID'] = 0
                 /\ \A id \in Given : streamOf'[id] = streamOf[id] /\ writes'[id] = writes[id]
<1>1. CASE class \notin Supported
  BY <1>1 DEF PrepareResponse, Prepared, Messages, Message, Classes
<1>2. CASE class \in Supported /\ QueueFull
  BY <1>2 DEF PrepareResponse
<1>3. CASE class \in Supported /\ ~QueueFull
  <2>1. /\ nextReliableID' = nextReliableID + 1
        /\ response' = [stage |-> "prepared", message |-> Message(class, nextReliableID + 1)]
        /\ streamOf' = With(streamOf, nextReliableID + 1, class)
        /\ writes' = With(writes, nextReliableID + 1, 0)
    BY <1>3 DEF PrepareResponse
  <2>2. /\ nextReliableID' \in Nat /\ Given' = Given \cup {nextReliableID'}
        /\ nextReliableID' \notin Given
        /\ DOMAIN streamOf = Given /\ DOMAIN writes = Given
    BY <2>1 DEF Typed, Given
  <2>3. /\ streamOf' \in [Given' -> {"ordered", "unordered"}]
        /\ streamOf'[nextReliableID'] = class
        /\ \A id \in Given : streamOf'[id] = streamOf[id]
    BY <2>1, <2>2 DEF With, Typed
  <2>4. /\ writes' \in [Given' -> Nat]
        /\ writes'[nextReliableID'] = 0
        /\ \A id \in Given : writes'[id] = writes[id]
    BY <2>1, <2>2 DEF With, Typed
  <2>5. /\ response' \in Prepared /\ response'.message.class = class
        /\ response'.message.id = nextReliableID'
    BY <2>1, <2>2 DEF Prepared, Messages, Message, Classes
  <2> QED
    BY <1>3, <2>1, <2>3, <2>4, <2>5 DEF PrepareResponse
<1> QED
  BY <1>1, <1>2, <1>3

LEMMA PrepareTyped ==
    ASSUME Typed, NEW class \in {"ordered", "unordered"}, PrepareResponse(class)
    PROVE  Typed'
<1>1. UNCHANGED <<nextSequence, reliableOut, toClient, toServer, dropped, transmits>>
  BY PrepareEffect
<1>2. CASE UNCHANGED <<response, nextReliableID, streamOf, writes>>
  BY <1>1, <1>2 DEF Typed, Given, Queued, Carried, Numbering
<1>3. CASE /\ UNCHANGED <<nextReliableID, streamOf, writes>>
           /\ response' \in Prepared /\ response'.message.class = "unreliable"
           /\ response'.message.id = 0
  <2>1. ~Numbering' /\ Carried(response.message)'
    BY <1>3 DEF Prepared, Carried, Numbering
  <2> QED
    BY <1>1, <1>3, <2>1 DEF Typed, Given, Queued, Carried
<1>4. CASE /\ nextReliableID' = nextReliableID + 1
           /\ response' \in Prepared /\ response'.message.class = class
           /\ response'.message.id = nextReliableID'
           /\ streamOf' \in [Given' -> {"ordered", "unordered"}]
           /\ writes' \in [Given' -> Nat]
           /\ streamOf'[nextReliableID'] = class
           /\ \A id \in Given : streamOf'[id] = streamOf[id]
  <2>1. /\ nextReliableID' \in Nat /\ nextReliableID <= nextReliableID'
        /\ Given \subseteq Given' /\ nextReliableID' \in Given'
    BY <1>4 DEF Typed, Given
  <2>2. ~Numbering' /\ Carried(response.message)'
    BY <1>4, <2>1 DEF Prepared, Carried, Numbering
  <2>3. \A p \in transmits \cup toClient : Carried(p.message)'
    BY <1>4, <2>1, CarriedKept DEF Typed
  <2> QED
    BY <1>1, <1>4, <2>1, <2>2, <2>3 DEF Typed, Queued
<1> QED
  BY <1>2, <1>3, <1>4, PrepareEffect

(* Which kind of record the receive goroutine holds. *)
LEMMA ResponseShape ==
    ASSUME Typed
    PROVE  /\ response = Idle => response.stage = "idle"
           /\ response.stage = "prepared" => response \in Prepared /\ response # Idle
           /\ Numbering => response \in Numbered /\ response # Idle
  BY DEF Typed, Idle, Prepared, Numbered, Numbering

(* The next sequence is taken for the response, or wasted. *)
LEMMA ReserveEffect ==
    ASSUME Typed, ReserveResponse \/ RefuseResponse
    PROVE  /\ response \in Prepared /\ response.stage = "prepared"
           /\ nextSequence' = nextSequence + 1
           /\ UNCHANGED <<nextReliableID, reliableOut, toClient, toServer, clientVars, transmits, historyVars>>
           /\ \/ response' = Idle
              \/ /\ response' \in Numbered /\ response'.stage = "reserved"
                 /\ response'.message = response.message
                 /\ response'.sequence = nextSequence'
<1>1. response.stage = "prepared" /\ response \in Prepared
  BY ResponseShape DEF ReserveResponse, RefuseResponse
<1>2. response.message \in Messages /\ nextSequence + 1 \in Nat
  BY <1>1 DEF Prepared, Typed
<1> QED
  BY <1>1, <1>2 DEF ReserveResponse, RefuseResponse, Numbered

(* queueReliableOutbound: nothing to queue, no room, or queued. *)
LEMMA QueueEffect ==
    ASSUME Typed, QueueResponse
    PROVE  /\ response \in Numbered /\ response.stage = "reserved"
           /\ UNCHANGED <<nextSequence, nextReliableID, toClient, toServer, clientVars, transmits, historyVars>>
           /\ \/ response' = Idle /\ UNCHANGED reliableOut
              \/ /\ response' \in Numbered /\ response'.stage = "queued"
                 /\ response'.message = response.message /\ response'.sequence = response.sequence
                 /\ \/ response.message.class = "unreliable" /\ UNCHANGED reliableOut
                    \/ /\ ~QueueFull /\ response.message.class # "unreliable"
                       /\ response.message.id \in Given
                       /\ Queued' = Queued \cup {response.message.id}
                       /\ reliableOut' \in [Queued' -> Entries]
                       /\ reliableOut'[response.message.id] =
                             [message |-> response.message, attempts |-> 1,
                              sequences |-> {response.sequence}]
                       /\ \A id \in Queued \ {response.message.id} :
                             reliableOut'[id] = reliableOut[id]
<1>1. response.stage = "reserved" /\ response \in Numbered /\ response # Idle
  BY ResponseShape DEF QueueResponse, Numbering
<1>2. response.message \in Messages /\ response.sequence \in Nat /\ Carried(response.message)
  BY <1>1 DEF Numbered, Typed
<1>3. UNCHANGED <<nextSequence, nextReliableID, toClient, toServer, clientVars, transmits, historyVars>>
  BY DEF QueueResponse
<1> DEFINE r == [response EXCEPT !.stage = "queued"]
<1>4. /\ r \in Numbered /\ r.stage = "queued"
      /\ r.message = response.message /\ r.sequence = response.sequence
  BY <1>1 DEF Numbered
<1>5. CASE response.message.class = "unreliable"
  BY <1>1, <1>3, <1>4, <1>5 DEF QueueResponse
<1>6. CASE response.message.class # "unreliable" /\ QueueFull
  BY <1>1, <1>3, <1>6 DEF QueueResponse
<1>7. CASE response.message.class # "unreliable" /\ ~QueueFull
  <2> DEFINE id == response.message.id
             e == [message |-> response.message, attempts |-> 1, sequences |-> {response.sequence}]
  <2>1. id \in Given /\ e \in Entries
    BY <1>2, <1>7 DEF Carried, Entries
  <2>2. reliableOut' = With(reliableOut, id, e) /\ response' = r
    BY <1>7 DEF QueueResponse
  <2> HIDE DEF e, r
  <2>3. /\ Queued' = Queued \cup {id} /\ reliableOut' \in [Queued' -> Entries]
        /\ reliableOut'[id] = e
        /\ \A j \in Queued \ {id} : reliableOut'[j] = reliableOut[j]
    BY <2>1, <2>2 DEF With, Queued, Typed
  <2> QED
    BY <1>1, <1>3, <1>4, <1>7, <2>1, <2>2, <2>3 DEF e
<1> QED
  BY <1>5, <1>6, <1>7

(* WriteToUDP, and the count of writes. *)
LEMMA WriteEffect ==
    ASSUME Typed, NEW p, Carried(p.message), Write(p)
    PROVE  /\ toClient' = toClient \cup {p}
           /\ writes' \in [Given -> Nat]
           /\ \A id \in Given : writes'[id] = IF id = p.message.id THEN writes[id] + 1 ELSE writes[id]
  BY DEF Write, Typed

(* removeAckedReliableLocked takes out what the acknowledgement names. *)
LEMMA AckEffect ==
    ASSUME Typed, HandleAck
    PROVE  /\ UNCHANGED <<nextSequence, nextReliableID, response, toClient, toServer, clientVars,
                          transmits, historyVars>>
           /\ response = Idle
           /\ Queued' \subseteq Queued /\ reliableOut' \in [Queued' -> Entries]
           /\ \A id \in Queued' : reliableOut'[id] = reliableOut[id]
           /\ \A id \in Queued \ Queued' :
                 \E a \in toServer, s \in reliableOut[id].sequences :
                    PacketSequenceAcked(a.ack, a.ackBits, s)
<1>1. PICK a \in toServer :
          reliableOut' = Without(reliableOut,
                           {id \in Queued : \E s \in reliableOut[id].sequences :
                                              PacketSequenceAcked(a.ack, a.ackBits, s)})
  BY DEF HandleAck
<1> DEFINE acked == {id \in Queued : \E s \in reliableOut[id].sequences :
                                        PacketSequenceAcked(a.ack, a.ackBits, s)}
<1>2. reliableOut' = [id \in Queued \ acked |-> reliableOut[id]]
  BY <1>1 DEF Without, Queued
<1>3. \A id \in acked : \E s \in reliableOut[id].sequences : PacketSequenceAcked(a.ack, a.ackBits, s)
  OBVIOUS
<1> HIDE DEF acked
<1>4. Queued' = Queued \ acked
  BY <1>2 DEF Queued
<1>5. reliableOut' \in [Queued' -> Entries] /\ \A id \in Queued' : reliableOut'[id] = reliableOut[id]
  BY <1>2, <1>4 DEF Typed
<1> QED
  BY <1>3, <1>4, <1>5 DEF HandleAck

LEMMA QueuedFinite ==
    ASSUME Typed
    PROVE  /\ IsFiniteSet(Queued)
           /\ \A S \in SUBSET Queued : IsFiniteSet(S) /\ Cardinality(S) \in Nat
<1>1. IsFiniteSet(Given)
  BY FS_Interval DEF Typed, Given
<1> QED
  BY <1>1, FS_Subset, FS_CardinalityType DEF Typed

(* What one pass over the queue does to it: gone and again are the exhausted
   and the retried messages, f the sequences of the latter. *)
Collected(gone, again, f) ==
    /\ gone \subseteq Queued /\ again \subseteq Queued \ gone
    /\ \A id \in again : reliableOut[id].attempts < ReliableMaxAttempts
    /\ nextSequence' \in Nat /\ nextSequence <= nextSequence'
    /\ f \in [again -> nextSequence + 1 .. nextSequence']
    /\ \A x, y \in again : f[x] = f[y] => x = y
    /\ Queued' = Queued \ gone /\ reliableOut' \in [Queued' -> Entries]
    /\ \A id \in Queued' \ again : reliableOut'[id] = reliableOut[id]
    /\ \A id \in again : /\ reliableOut'[id].message = reliableOut[id].message
                         /\ reliableOut'[id].attempts = reliableOut[id].attempts + 1
                         /\ reliableOut'[id].sequences = reliableOut[id].sequences \cup {f[id]}
    /\ transmits' = {Packet(f[id], reliableOut[id].message) : id \in again}
    /\ dropped' = dropped \cup gone

LEMMA RetriedEntry ==
    ASSUME NEW e \in Entries, NEW s \in Nat
    PROVE  /\ Retried(e, s) \in Entries
           /\ Retried(e, s).message = e.message
           /\ Retried(e, s).attempts = e.attempts + 1
           /\ Retried(e, s).sequences = e.sequences \cup {s}
<1>1. e.attempts + 1 \in Nat /\ e.sequences \cup {s} \in SUBSET Nat
  BY DEF Entries
<1> DEFINE n == e.attempts + 1
           S == e.sequences \cup {s}
<1>2. Retried(e, s) = [e EXCEPT !.attempts = n, !.sequences = S]
  BY DEF Retried, Entries
<1> HIDE DEF n, S
<1>3. [e EXCEPT !.attempts = n, !.sequences = S] \in Entries
  BY <1>1 DEF Entries, n, S
<1>4. /\ [e EXCEPT !.attempts = n, !.sequences = S].message = e.message
      /\ [e EXCEPT !.attempts = n, !.sequences = S].attempts = n
      /\ [e EXCEPT !.attempts = n, !.sequences = S].sequences = S
  BY DEF Entries
<1> QED
  BY <1>2, <1>3, <1>4 DEF n, S

LEMMA CollectEffect ==
    ASSUME Typed, CollectRetransmits
    PROVE  /\ transmits = {}
           /\ UNCHANGED <<nextReliableID, response, toClient, toServer, clientVars, streamOf, writes>>
           /\ \E gone, again \in SUBSET Queued :
                 \E f \in [again -> nextSequence + 1 .. nextSequence'] : Collected(gone, again, f)
<1>1. PICK late \in (SUBSET Queued) \ {{}} :
          LET gone == {id \in late : Exhausted(id)}
              again == late \ gone
          IN  \E f \in [again -> nextSequence + 1 .. nextSequence + Cardinality(again)] :
                 /\ \A x, y \in again : f[x] = f[y] => x = y
                 /\ reliableOut' =
                      [id \in Remaining(gone) |->
                         IF id \in again THEN Retried(reliableOut[id], f[id])
                         ELSE reliableOut[id]]
                 /\ transmits' = {Packet(f[id], reliableOut[id].message) : id \in again}
                 /\ nextSequence' = nextSequence + Cardinality(again)
                 /\ dropped' = dropped \cup gone
  BY DEF CollectRetransmits
<1> DEFINE gone == {id \in late : Exhausted(id)}
           again == late \ gone
<1>2. /\ gone \subseteq Queued /\ again \subseteq Queued \ gone
      /\ \A id \in again : ~Exhausted(id)
  OBVIOUS
<1>3. PICK f \in [again -> nextSequence + 1 .. nextSequence + Cardinality(again)] :
         /\ \A x, y \in again : f[x] = f[y] => x = y
         /\ reliableOut' = [id \in Remaining(gone) |->
                              IF id \in again THEN Retried(reliableOut[id], f[id])
                              ELSE reliableOut[id]]
         /\ transmits' = {Packet(f[id], reliableOut[id].message) : id \in again}
         /\ nextSequence' = nextSequence + Cardinality(again)
         /\ dropped' = dropped \cup gone
  BY <1>1
<1> HIDE DEF gone, again
<1>4. Cardinality(again) \in Nat
  BY <1>2, QueuedFinite
<1>5. nextSequence' \in Nat /\ nextSequence <= nextSequence' /\ nextSequence \in Nat
  BY <1>3, <1>4 DEF Typed
<1>6. f \in [again -> nextSequence + 1 .. nextSequence']
  BY <1>3
<1>7. \A id \in again : f[id] \in Nat
  BY <1>5, <1>6
<1>8. \A id \in again :
         /\ reliableOut[id].attempts < ReliableMaxAttempts
         /\ Retried(reliableOut[id], f[id]) \in Entries
         /\ Retried(reliableOut[id], f[id]).message = reliableOut[id].message
         /\ Retried(reliableOut[id], f[id]).attempts = reliableOut[id].attempts + 1
         /\ Retried(reliableOut[id], f[id]).sequences = reliableOut[id].sequences \cup {f[id]}
  <2> SUFFICES ASSUME NEW id \in again
               PROVE  /\ reliableOut[id].attempts < ReliableMaxAttempts
                      /\ Retried(reliableOut[id], f[id]) \in Entries
                      /\ Retried(reliableOut[id], f[id]).message = reliableOut[id].message
                      /\ Retried(reliableOut[id], f[id]).attempts = reliableOut[id].attempts + 1
                      /\ Retried(reliableOut[id], f[id]).sequences
                            = reliableOut[id].sequences \cup {f[id]}
    OBVIOUS
  <2>1. reliableOut[id] \in Entries
    BY <1>2 DEF Typed
  <2>2. reliableOut[id].attempts < ReliableMaxAttempts
    BY <1>2, <2>1, MaxAttemptsAssumption DEF Exhausted, Entries
  <2> QED
    BY <1>7, <2>1, <2>2, RetriedEntry
<1>9. Queued' = Queued \ gone
  BY <1>3 DEF Queued, Remaining
<1>10. /\ reliableOut' \in [Queued' -> Entries]
       /\ \A id \in Queued' \ again : reliableOut'[id] = reliableOut[id]
       /\ \A id \in again : reliableOut'[id] = Retried(reliableOut[id], f[id])
  <2>1. Remaining(gone) = Queued \ gone
    BY DEF Remaining
  <2> QED
    BY <1>2, <1>3, <1>8, <1>9, <2>1 DEF Typed
<1>11. Collected(gone, again, f)
  BY <1>2, <1>3, <1>5, <1>6, <1>8, <1>9, <1>10 DEF Collected
<1> QED
  BY <1>2, <1>6, <1>11 DEF CollectRetransmits

(* A packet that is written comes from the receive goroutine, from the tick
   goroutine's retransmissions, or is a snapshot with a sequence of its own. *)
LEMMA WrittenPacket ==
    ASSUME Typed, WriteResponse \/ WriteRetransmit \/ SendSnapshot
    PROVE  \E p \in Packets :
              /\ Write(p) /\ Carried(p.message) /\ p.sequence \in 1 .. nextSequence'
              /\ nextSequence' \in Nat /\ nextSequence <= nextSequence'
              /\ UNCHANGED <<nextReliableID, reliableOut, toServer, clientVars, streamOf, dropped>>
              /\ \/ /\ Queuing /\ p.message = response.message /\ p.sequence = response.sequence
                    /\ response' = Idle /\ UNCHANGED <<nextSequence, transmits>>
                 \/ /\ p \in transmits /\ transmits' = transmits \ {p}
                    /\ UNCHANGED <<nextSequence, response>>
                 \/ /\ p.message.class = "unreliable" /\ p.message.id = 0
                    /\ p.sequence = nextSequence + 1 /\ nextSequence' = nextSequence + 1
                    /\ UNCHANGED <<response, transmits>>
<1>1. CASE WriteResponse
  <2> DEFINE p == Packet(response.sequence, response.message)
  <2>1. Queuing /\ Numbering /\ response \in Numbered /\ response # Idle
    BY <1>1, ResponseShape DEF WriteResponse, Queuing, Numbering
  <2>2. /\ p \in Packets /\ p.message = response.message /\ p.sequence = response.sequence
        /\ Carried(p.message) /\ p.sequence \in 1 .. nextSequence
    BY <2>1 DEF Packet, Packets, Numbered, Typed
  <2>3. /\ Write(p) /\ response' = Idle
        /\ UNCHANGED <<nextSequence, nextReliableID, reliableOut, toServer,
                       clientVars, transmits, streamOf, dropped>>
    BY <1>1 DEF WriteResponse
  <2> HIDE DEF p
  <2> QED
    BY <2>1, <2>2, <2>3 DEF Typed
<1>2. CASE WriteRetransmit
  <2>1. PICK p \in transmits : Write(p) /\ transmits' = transmits \ {p}
    BY <1>2 DEF WriteRetransmit
  <2>2. p \in Packets /\ Carried(p.message) /\ p.sequence \in 1 .. nextSequence
    BY DEF Typed
  <2>3. UNCHANGED <<nextSequence, nextReliableID, reliableOut, response, toServer,
                    clientVars, streamOf, dropped>>
    BY <1>2 DEF WriteRetransmit
  <2> QED
    BY <2>1, <2>2, <2>3 DEF Typed
<1>3. CASE SendSnapshot
  <2> DEFINE p == Packet(nextSequence + 1, Message("unreliable", 0))
  <2>1. /\ p \in Packets /\ p.message.class = "unreliable" /\ p.message.id = 0
        /\ p.sequence = nextSequence + 1 /\ Carried(p.message)
    BY DEF Packet, Packets, Messages, Message, Classes, Typed, Carried
  <2>2. /\ Write(p) /\ nextSequence' = nextSequence + 1
        /\ UNCHANGED <<nextReliableID, reliableOut, response, transmits, toServer,
                       clientVars, streamOf, dropped>>
    BY <1>3 DEF SendSnapshot
  <2> HIDE DEF p
  <2>3. /\ nextSequence' \in Nat /\ nextSequence <= nextSequence'
        /\ p.sequence \in 1 .. nextSequence'
    BY <2>1, <2>2 DEF Typed
  <2> QED
    BY <2>1, <2>2, <2>3
<1> QED
  BY <1>1, <1>2, <1>3

LEMMA WriteTyped ==
    ASSUME Typed, WriteResponse \/ WriteRetransmit \/ SendSnapshot
    PROVE  Typed'
<1>1. PICK p \in Packets :
              /\ Write(p) /\ Carried(p.message) /\ p.sequence \in 1 .. nextSequence'
              /\ nextSequence' \in Nat /\ nextSequence <= nextSequence'
              /\ UNCHANGED <<nextReliableID, reliableOut, toServer, clientVars, streamOf, dropped>>
              /\ \/ response' = Idle /\ UNCHANGED <<nextSequence, transmits>>
                 \/ transmits' = transmits \ {p} /\ UNCHANGED <<nextSequence, response>>
                 \/ UNCHANGED <<response, transmits>>
  BY WrittenPacket
<1>2. toClient' = toClient \cup {p} /\ writes' \in [Given -> Nat]
  BY <1>1, WriteEffect
<1>3. Given' = Given /\ \A m : Carried(m)' <=> Carried(m)
  BY <1>1 DEF Given, Carried
<1>4. /\ response' \in {Idle} \cup Prepared \cup Numbered
      /\ response' # Idle => Carried(response'.message)
      /\ Numbering' => response'.sequence \in 1 .. nextSequence'
  BY <1>1 DEF Typed, Idle, Numbering
<1>5. transmits' \subseteq transmits
  BY <1>1
<1>6. \A q \in transmits' \cup toClient' : Carried(q.message) /\ q.sequence \in 1 .. nextSequence'
  BY <1>1, <1>2, <1>5 DEF Typed
<1> QED
  BY <1>1, <1>2, <1>3, <1>4, <1>5, <1>6 DEF Typed, Queued

(* The sequence is taken: reserved or refused. *)
LEMMA ReserveTyped ==
    ASSUME Typed, ReserveResponse \/ RefuseResponse
    PROVE  Typed'
<1>1. /\ response \in Prepared /\ response.stage = "prepared"
      /\ nextSequence' = nextSequence + 1
      /\ UNCHANGED <<nextReliableID, reliableOut, toClient, toServer, transmits, historyVars>>
      /\ \/ response' = Idle
         \/ /\ response' \in Numbered /\ response'.message = response.message
            /\ response'.sequence = nextSequence'
  BY ReserveEffect
<1>2. /\ nextSequence' \in Nat /\ 1 .. nextSequence \subseteq 1 .. nextSequence'
      /\ nextSequence' \in 1 .. nextSequence'
  BY <1>1 DEF Typed
<1>3. response # Idle
  BY <1>1, ResponseShape
<1>4. Given' = Given /\ \A m : Carried(m)' <=> Carried(m)
  BY <1>1 DEF Given, Carried, historyVars
<1>5. /\ response' \in {Idle} \cup Prepared \cup Numbered
      /\ response' # Idle => Carried(response'.message)
      /\ Numbering' => response'.sequence \in 1 .. nextSequence'
  BY <1>1, <1>2, <1>3 DEF Typed, Idle, Numbering
<1> QED
  BY <1>1, <1>2, <1>4, <1>5 DEF Typed, Queued, historyVars

LEMMA QueueTyped ==
    ASSUME Typed, QueueResponse
    PROVE  Typed'
<1>1. /\ response \in Numbered /\ response.stage = "reserved"
      /\ UNCHANGED <<nextSequence, nextReliableID, toClient, toServer, transmits, historyVars>>
      /\ \/ response' = Idle
         \/ /\ response' \in Numbered
            /\ response'.message = response.message /\ response'.sequence = response.sequence
      /\ \/ UNCHANGED reliableOut
         \/ /\ response.message.id \in Given
            /\ Queued' = Queued \cup {response.message.id}
            /\ reliableOut' \in [Queued' -> Entries]
  BY QueueEffect
<1>2. response # Idle /\ Numbering
  BY <1>1, ResponseShape DEF Numbering
<1>3. Given' = Given /\ \A m : Carried(m)' <=> Carried(m)
  BY <1>1 DEF Given, Carried, historyVars
<1>4. /\ response' \in {Idle} \cup Prepared \cup Numbered
      /\ response' # Idle => Carried(response'.message)
      /\ Numbering' => response'.sequence \in 1 .. nextSequence'
  BY <1>1, <1>2 DEF Typed, Idle, Numbering
<1>5. Queued' \subseteq Given' /\ reliableOut' \in [Queued' -> Entries]
  BY <1>1, <1>3 DEF Typed, Queued
<1> QED
  BY <1>1, <1>3, <1>4, <1>5 DEF Typed, historyVars

LEMMA CollectTyped ==
    ASSUME Typed, EntriesOK, CollectRetransmits
    PROVE  Typed'
<1>1. UNCHANGED <<nextReliableID, response, toClient, toServer, streamOf, writes>>
  BY CollectEffect
<1>2. PICK gone \in SUBSET Queued, again \in SUBSET Queued :
         \E f \in [again -> nextSequence + 1 .. nextSequence'] : Collected(gone, again, f)
  BY CollectEffect
<1>3. PICK f \in [again -> nextSequence + 1 .. nextSequence'] : Collected(gone, again, f)
  BY <1>2
<1>4. /\ nextSequence' \in Nat /\ nextSequence <= nextSequence'
      /\ Queued' = Queued \ gone /\ reliableOut' \in [Queued' -> Entries]
      /\ transmits' = {Packet(f[id], reliableOut[id].message) : id \in again}
      /\ dropped' = dropped \cup gone
  BY <1>3 DEF Collected
<1>5. Given' = Given /\ \A m : Carried(m)' <=> Carried(m)
  BY <1>1 DEF Given, Carried
<1>6. 1 .. nextSequence \subseteq 1 .. nextSequence' /\ nextSequence \in Nat
  BY <1>4 DEF Typed
<1>7. ASSUME NEW id \in again
      PROVE  /\ Packet(f[id], reliableOut[id].message) \in Packets
             /\ Packet(f[id], reliableOut[id].message).sequence \in 1 .. nextSequence'
             /\ Carried(Packet(f[id], reliableOut[id].message).message)
  <2>1. f[id] \in 1 .. nextSequence' /\ f[id] \in Nat
    BY <1>6
  <2>2. id \in Given /\ reliableOut[id].message \in Messages
    BY DEF Typed, Entries
  <2>3. Carried(reliableOut[id].message)
    BY <2>2 DEF EntriesOK, EntryOK, Carried
  <2> QED
    BY <2>1, <2>2, <2>3 DEF Packet, Packets
<1>8. \A p \in transmits' : /\ p \in Packets /\ Carried(p.message)
                           /\ p.sequence \in 1 .. nextSequence'
  BY <1>4, <1>7
<1>9. \A p \in toClient : Carried(p.message) /\ p.sequence \in 1 .. nextSequence'
  BY <1>6 DEF Typed
<1>10. Queued' \subseteq Given' /\ dropped' \subseteq Given'
  BY <1>4, <1>5 DEF Typed
<1> QED
  BY <1>1, <1>4, <1>5, <1>6, <1>8, <1>9, <1>10 DEF Typed, Numbering

LEMMA AckTyped ==
    ASSUME Typed, HandleAck
    PROVE  Typed'
<1>1. /\ UNCHANGED <<nextSequence, nextReliableID, response, toClient, toServer,
                     transmits, historyVars>>
      /\ Queued' \subseteq Queued /\ reliableOut' \in [Queued' -> Entries]
  BY AckEffect
<1>2. Given' = Given /\ \A m : Carried(m)' <=> Carried(m)
  BY <1>1 DEF Given, Carried, historyVars
<1>3. Queued' \subseteq Given'
  BY <1>1, <1>2 DEF Typed
<1> QED
  BY <1>1, <1>2, <1>3 DEF Typed, Numbering, historyVars

LEMMA DeferTyped ==
    ASSUME Typed, DeferRetransmit
    PROVE  Typed'
<1>1. /\ UNCHANGED <<nextSequence, nextReliableID, reliableOut, response, toClient,
                     toServer, historyVars>>
      /\ transmits' \subseteq transmits
  BY DEF DeferRetransmit
<1>2. Given' = Given /\ \A m : Carried(m)' <=> Carried(m)
  BY <1>1 DEF Given, Carried, historyVars
<1>3. \A p \in transmits' \cup toClient : Carried(p.message) /\ p.sequence \in 1 .. nextSequence
  BY <1>1 DEF Typed
<1> QED
  BY <1>1, <1>2, <1>3 DEF Typed, Numbering, Queued, historyVars

LEMMA ClientReceiveTyped ==
    ASSUME Typed, latestPeerSequence \in Nat, ClientReceive
    PROVE  Typed'
<1>1. PICK p \in toClient :
         LET newest == Newest(latestPeerSequence, p.sequence)
             received == PruneReceived(newest, receivedSequences \cup {p.sequence})
         IN  toServer' = toServer \cup {[ack |-> newest, ackBits |-> AckBits(newest, received)]}
  BY DEF ClientReceive
<1> DEFINE newest == Newest(latestPeerSequence, p.sequence)
           bits == AckBits(newest, PruneReceived(newest, receivedSequences \cup {p.sequence}))
<1>2. p.sequence \in Nat /\ newest \in Nat
  BY DEF Typed, Packets, Newest
<1>3. bits \in SUBSET Nat
  BY WindowAssumption DEF AckBits
<1>4. toServer' = toServer \cup {[ack |-> newest, ackBits |-> bits]}
  BY <1>1
<1> HIDE DEF newest, bits
<1>5. toServer' \subseteq Acks
  <2>1. [ack |-> newest, ackBits |-> bits] \in Acks
    BY <1>2, <1>3 DEF Acks
  <2> QED
    BY <1>4, <2>1 DEF Typed
<1>6. UNCHANGED <<nextSequence, nextReliableID, reliableOut, response, toClient,
                  transmits, historyVars>>
  BY DEF ClientReceive
<1>7. Given' = Given /\ \A m : Carried(m)' <=> Carried(m)
  BY <1>6 DEF Given, Carried, historyVars
<1> QED
  BY <1>5, <1>6, <1>7 DEF Typed, Numbering, Queued, historyVars

(* Every step keeps the types; those of the client's acknowledgements need
   its newest sequence, those of the retransmissions the queued messages. *)
LEMMA NextTyped ==
    ASSUME Typed, EntriesOK, latestPeerSequence \in Nat, [Next]_vars
    PROVE  Typed'
<1>1. CASE UNCHANGED vars
  BY <1>1 DEF vars, Typed, Given, Queued, Carried, Numbering
<1>2. CASE Next
  BY <1>2, PrepareTyped, ReserveTyped, QueueTyped, WriteTyped, AckTyped, CollectTyped,
     DeferTyped, ClientReceiveTyped DEF Next
<1> QED
  BY <1>1, <1>2

-----------------------------------------------------------------------------
(* Attempts. *)

LEMMA InitCount == Init => CountInv
<1> SUFFICES ASSUME Init PROVE CountInv
  OBVIOUS
<1>1. Queued = {} /\ Given = {} /\ transmits = {} /\ response.stage = "idle"
  BY DEF Init, Queued, Given, Idle
<1>2. Cardinality(Queued) <= ReliableQueueLimit
  BY <1>1, FS_EmptySet, QueueLimitAssumption
<1> QED
  BY <1>1, <1>2 DEF CountInv, EntriesOK, NotYetQueued, OneEach, WritesCounted

(* The IDs of packets underway were given out, or are 0. *)
LEMMA IdsUnderway ==
    ASSUME Typed
    PROVE  /\ 0 \notin Given /\ nextReliableID + 1 \notin Given /\ nextReliableID + 1 # 0
           /\ \A p \in transmits : p.message.id = 0 \/ p.message.id \in Given
  BY DEF Typed, Given, Carried

(* A queued message is as it was when nothing touched it. *)
LEMMA EntryKept ==
    ASSUME Typed, NEW id \in Queued, EntryOK(id), reliableOut'[id] = reliableOut[id],
           streamOf'[id] = streamOf[id], nextSequence' \in Nat, nextSequence <= nextSequence'
    PROVE  EntryOK(id)'
<1>1. 1 .. nextSequence \subseteq 1 .. nextSequence'
  BY DEF Typed
<1> QED
  BY <1>1 DEF EntryOK

LEMMA PrepareCount ==
    ASSUME Typed, CountInv, NEW class \in {"ordered", "unordered"}, PrepareResponse(class)
    PROVE  CountInv'
<1>1. /\ response = Idle
      /\ UNCHANGED <<nextSequence, reliableOut, transmits>>
  BY PrepareEffect
<1>2. Queued' = Queued /\ ~Queuing
  BY <1>1, ResponseShape DEF Queued, Queuing
<1>3. CASE UNCHANGED <<response, nextReliableID, streamOf, writes>>
  BY <1>1, <1>2, <1>3 DEF CountInv, EntriesOK, EntryOK, NotYetQueued, OneEach, WritesCounted, Given,
       ToWrite, Collecting, Responding, Queuing
<1>4. CASE /\ UNCHANGED <<nextReliableID, streamOf, writes>>
           /\ response' \in Prepared /\ response'.message.id = 0
  <2>1. ~Queuing' /\ Given' = Given /\ 0 \notin Given
    BY <1>4, IdsUnderway DEF Prepared, Queuing, Given
  <2> QED
    BY <1>1, <1>2, <1>4, <2>1 DEF CountInv, EntriesOK, EntryOK, NotYetQueued, OneEach, WritesCounted,
       ToWrite, Collecting, Responding
<1>5. CASE /\ nextReliableID' = nextReliableID + 1
           /\ response' \in Prepared /\ response'.message.id = nextReliableID'
           /\ writes'[nextReliableID'] = 0
           /\ \A id \in Given : streamOf'[id] = streamOf[id] /\ writes'[id] = writes[id]
  <2> DEFINE n == nextReliableID'
  <2>1. /\ ~Queuing' /\ Given' = Given \cup {n} /\ n \notin Given /\ n \notin Queued
        /\ \A p \in transmits : p.message.id # n
    BY <1>5, IdsUnderway DEF Prepared, Queuing, Given, Typed
  <2>2. EntriesOK'
    BY <1>1, <1>2, <1>5, EntryKept DEF CountInv, EntriesOK, Typed
  <2>3. NotYetQueued'
    BY <1>1, <1>2, <1>5, <2>1 DEF NotYetQueued
  <2>4. ASSUME NEW id \in Given'
        PROVE  (writes[id] + ToWrite(id) <=
                  IF id \in Queued THEN reliableOut[id].attempts ELSE ReliableMaxAttempts)'
    <3>1. CASE id = n
      BY <1>1, <1>2, <1>5, <2>1, <3>1, MaxAttemptsAssumption DEF ToWrite, Collecting, Responding
    <3>2. CASE id \in Given
      <4>1. ToWrite(id)' = ToWrite(id)
        BY <1>1, <1>2, <2>1 DEF ToWrite, Collecting, Responding
      <4> QED
        BY <1>1, <1>2, <1>5, <3>2, <4>1 DEF CountInv, WritesCounted
    <3> QED
      BY <2>1, <3>1, <3>2
  <2> QED
    BY <1>1, <1>2, <2>2, <2>3, <2>4 DEF CountInv, OneEach, WritesCounted
<1> QED
  BY <1>3, <1>4, <1>5, PrepareEffect

LEMMA ReserveCount ==
    ASSUME Typed, CountInv, ReserveResponse \/ RefuseResponse
    PROVE  CountInv'
<1>1. /\ response.stage = "prepared"
      /\ nextSequence' = nextSequence + 1
      /\ UNCHANGED <<nextReliableID, reliableOut, transmits, historyVars>>
      /\ \/ response' = Idle
         \/ response'.stage = "reserved" /\ response'.message = response.message
  BY ReserveEffect
<1>2. /\ Queued' = Queued /\ Given' = Given /\ ~Queuing /\ ~Queuing'
  BY <1>1 DEF Queued, Given, Queuing, Idle
<1>3. EntriesOK'
  BY <1>1, <1>2, EntryKept DEF CountInv, EntriesOK, Typed, historyVars
<1>4. NotYetQueued'
  BY <1>1, <1>2 DEF CountInv, NotYetQueued, historyVars, Idle
<1>5. \A id : ToWrite(id)' = ToWrite(id)
  BY <1>1, <1>2 DEF ToWrite, Collecting, Responding
<1> QED
  BY <1>1, <1>2, <1>3, <1>4, <1>5 DEF CountInv, OneEach, WritesCounted, historyVars

LEMMA QueueCount ==
    ASSUME Typed, CountInv, QueueResponse
    PROVE  CountInv'
<1>1. /\ response \in Numbered /\ response.stage = "reserved"
      /\ UNCHANGED <<nextSequence, nextReliableID, transmits, historyVars>>
  BY QueueEffect
<1>2. Given' = Given /\ ~Queuing /\ (\A id : Collecting(id)' <=> Collecting(id)) /\ OneEach'
  BY <1>1 DEF Given, Queuing, Collecting, CountInv, OneEach
<1>3. CASE response' = Idle /\ UNCHANGED reliableOut
  <2>1. Queued' = Queued /\ ~Queuing' /\ NotYetQueued'
    BY <1>1, <1>3 DEF Queued, Queuing, NotYetQueued, Idle
  <2>2. EntriesOK'
    BY <1>1, <1>3, <2>1 DEF CountInv, EntriesOK, EntryOK, historyVars
  <2> QED
    BY <1>1, <1>2, <1>3, <2>1, <2>2 DEF CountInv, WritesCounted, ToWrite, Responding, historyVars
<1>4. CASE /\ response'.stage = "queued" /\ response'.message = response.message
           /\ response.message.class = "unreliable" /\ UNCHANGED reliableOut
  <2>1. response.message.id \notin Given
    BY <1>1, <1>4, IdsUnderway, ResponseShape DEF Typed, Carried, Numbering
  <2>2. Queued' = Queued /\ NotYetQueued'
    BY <1>4 DEF Queued, NotYetQueued
  <2>3. EntriesOK'
    BY <1>1, <1>4, <2>2 DEF CountInv, EntriesOK, EntryOK, historyVars
  <2>4. \A id \in Given : ToWrite(id)' = ToWrite(id)
    BY <1>2, <1>4, <2>1 DEF ToWrite, Responding
  <2> QED
    BY <1>1, <1>2, <1>4, <2>2, <2>3, <2>4 DEF CountInv, WritesCounted, historyVars
<1>5. CASE /\ response'.stage = "queued" /\ response'.message = response.message
           /\ ~QueueFull
           /\ response.message.id \in Given
           /\ Queued' = Queued \cup {response.message.id}
           /\ reliableOut'[response.message.id] =
                  [message |-> response.message, attempts |-> 1,
                   sequences |-> {response.sequence}]
           /\ \A id \in Queued \ {response.message.id} : reliableOut'[id] = reliableOut[id]
  <2> DEFINE n == response.message.id
  <2>1. n \notin Queued /\ writes[n] = 0 /\ ~Collecting(n)
    BY <1>1, <1>5 DEF CountInv, NotYetQueued, Collecting
  <2>2. response # Idle /\ Numbering
    BY <1>1, ResponseShape DEF Numbering
  <2>3. response.message.class = streamOf[n] /\ response.sequence \in 1 .. nextSequence
    BY <1>5, <2>2, IdsUnderway DEF Typed, Carried
  <2>4. EntryOK(n)'
    <3>1. IsFiniteSet({response.sequence}) /\ Cardinality({response.sequence}) = 1
      BY FS_Singleton
    <3> QED
      BY <1>1, <1>5, <2>3, <3>1, MaxAttemptsAssumption DEF EntryOK, historyVars
  <2>5. EntriesOK'
    <3>1. ASSUME NEW id \in Queued PROVE EntryOK(id)'
      BY <1>1, <1>5, <2>1, <3>1, EntryKept DEF CountInv, EntriesOK, Typed, historyVars
    <3> QED
      BY <1>5, <2>4, <3>1 DEF EntriesOK
  <2>6. NotYetQueued'
    BY <1>5 DEF NotYetQueued
  <2>7. Cardinality(Queued') <= ReliableQueueLimit
    <3>1. Cardinality(Queued') = Cardinality(Queued) + 1 /\ Cardinality(Queued) \in Nat
      BY <1>5, <2>1, QueuedFinite, FS_AddElement
    <3> QED
      BY <1>5, <3>1, QueueLimitAssumption DEF QueueFull
  <2>8. ASSUME NEW id \in Given
        PROVE  (writes[id] + ToWrite(id) <=
                  IF id \in Queued THEN reliableOut[id].attempts ELSE ReliableMaxAttempts)'
    <3>1. CASE id = n
      BY <1>1, <1>2, <1>5, <2>1, <3>1 DEF ToWrite, Responding, historyVars
    <3>2. CASE id # n
      <4>1. ToWrite(id)' = ToWrite(id)
        BY <1>2, <1>5, <3>2 DEF ToWrite, Responding
      <4> QED
        BY <1>1, <1>5, <3>2, <4>1 DEF CountInv, WritesCounted, historyVars
    <3> QED
      BY <3>1, <3>2
  <2> QED
    BY <1>2, <2>5, <2>6, <2>7, <2>8 DEF CountInv, WritesCounted
<1> QED
  BY <1>3, <1>4, <1>5, QueueEffect

(* A packet that is written is no longer to be written. *)
LEMMA WriteMoves ==
    ASSUME Typed, CountInv, WriteResponse \/ WriteRetransmit \/ SendSnapshot
    PROVE  \A id \in Given : writes'[id] + ToWrite(id)' = writes[id] + ToWrite(id)
<1>1. PICK p \in Packets :
         /\ Write(p) /\ Carried(p.message)
         /\ \/ /\ Queuing /\ p.message = response.message
               /\ response' = Idle /\ UNCHANGED transmits
            \/ /\ p \in transmits /\ transmits' = transmits \ {p} /\ UNCHANGED response
            \/ p.message.id = 0 /\ UNCHANGED <<response, transmits>>
  BY WrittenPacket
<1> DEFINE n == p.message.id
<1>2. \A id \in Given : writes'[id] = IF id = n THEN writes[id] + 1 ELSE writes[id]
  BY <1>1, WriteEffect
<1>3. ASSUME NEW id \in Given
      PROVE  writes'[id] + ToWrite(id)' = writes[id] + ToWrite(id)
  <2>1. CASE id # n
    <3>1. Collecting(id)' <=> Collecting(id)
      BY <1>1, <2>1 DEF Collecting
    <3>2. Responding(id)' <=> Responding(id)
      BY <1>1, <2>1 DEF Responding, Queuing, Idle
    <3> QED
      BY <1>2, <2>1, <3>1, <3>2 DEF ToWrite
  <2>2. CASE id = n
    <3>1. writes'[id] = writes[id] + 1 /\ writes[id] \in Nat
      BY <1>2, <2>2 DEF Typed
    <3>2. \/ Responding(id) /\ ~Responding(id)' /\ (Collecting(id)' <=> Collecting(id))
          \/ Collecting(id) /\ ~Collecting(id)' /\ (Responding(id)' <=> Responding(id))
      BY <1>1, <2>2, IdsUnderway DEF Responding, Collecting, Queuing, Idle, CountInv, OneEach
    <3> QED
      BY <3>1, <3>2 DEF ToWrite
  <2> QED
    BY <2>1, <2>2
<1> QED
  BY <1>3

LEMMA WriteCount ==
    ASSUME Typed, CountInv, WriteResponse \/ WriteRetransmit \/ SendSnapshot
    PROVE  CountInv'
<1>1. PICK p \in Packets :
         /\ Write(p) /\ Carried(p.message)
         /\ nextSequence' \in Nat /\ nextSequence <= nextSequence'
         /\ UNCHANGED <<nextReliableID, reliableOut, streamOf>>
         /\ \/ /\ Queuing /\ p.message = response.message
               /\ response' = Idle /\ UNCHANGED transmits
            \/ /\ p \in transmits /\ transmits' = transmits \ {p} /\ UNCHANGED response
            \/ p.message.id = 0 /\ UNCHANGED <<response, transmits>>
  BY WrittenPacket
<1> DEFINE n == p.message.id
<1>2. \A id \in Given : writes'[id] = IF id = n THEN writes[id] + 1 ELSE writes[id]
  BY <1>1, WriteEffect
<1>3. Given' = Given /\ Queued' = Queued /\ transmits' \subseteq transmits
  BY <1>1 DEF Given, Queued
<1>4. EntriesOK'
  BY <1>1, <1>3, EntryKept DEF CountInv, EntriesOK
<1>5. OneEach'
  BY <1>3 DEF CountInv, OneEach
<1>6. NotYetQueued'
  <2> SUFFICES ASSUME response'.stage \in {"prepared", "reserved"}, response'.message.id \in Given
               PROVE  /\ response'.message.id \notin Queued
                      /\ writes'[response'.message.id] = 0
                      /\ \A q \in transmits' : q.message.id # response'.message.id
    BY <1>3 DEF NotYetQueued
  <2>1. response' = response
    BY <1>1 DEF Idle
  <2>2. n # response.message.id
    BY <1>1, <2>1, IdsUnderway DEF CountInv, NotYetQueued, Idle
  <2> QED
    BY <1>2, <1>3, <2>1, <2>2 DEF CountInv, NotYetQueued
<1>7. \A id \in Given : writes'[id] + ToWrite(id)' = writes[id] + ToWrite(id)
  BY WriteMoves
<1> QED
  BY <1>1, <1>3, <1>4, <1>5, <1>6, <1>7 DEF CountInv, WritesCounted

LEMMA AckCount ==
    ASSUME Typed, CountInv, HandleAck
    PROVE  CountInv'
<1>1. /\ UNCHANGED <<nextSequence, nextReliableID, response, transmits, historyVars>>
      /\ response = Idle
      /\ Queued' \subseteq Queued
      /\ \A id \in Queued' : reliableOut'[id] = reliableOut[id]
  BY AckEffect
<1>2. Given' = Given /\ NotYetQueued' /\ OneEach' /\ \A id : ToWrite(id)' = ToWrite(id)
  BY <1>1 DEF Given, NotYetQueued, OneEach, ToWrite, Collecting, Responding, Queuing, Idle, CountInv
<1>3. EntriesOK'
  BY <1>1, EntryKept DEF CountInv, EntriesOK, Typed, historyVars
<1>4. Cardinality(Queued') <= ReliableQueueLimit
  <2>1. /\ Cardinality(Queued') <= Cardinality(Queued)
        /\ Cardinality(Queued') \in Nat /\ Cardinality(Queued) \in Nat
    BY <1>1, QueuedFinite, FS_Subset
  <2> QED
    BY <2>1, QueueLimitAssumption DEF CountInv
<1>5. ASSUME NEW id \in Given
      PROVE  (writes[id] + ToWrite(id) <=
                IF id \in Queued THEN reliableOut[id].attempts ELSE ReliableMaxAttempts)'
  <2>1. writes[id] \in Nat /\ ToWrite(id) \in Nat
    BY DEF Typed, ToWrite
  <2>2. id \in Queued => reliableOut[id].attempts \in 1 .. ReliableMaxAttempts
    BY DEF CountInv, EntriesOK, EntryOK
  <2> QED
    BY <1>1, <1>2, <2>1, <2>2, MaxAttemptsAssumption DEF CountInv, WritesCounted, historyVars
<1> QED
  BY <1>2, <1>3, <1>4, <1>5 DEF CountInv, WritesCounted

(* A retried message counts the packet collected for it. *)
LEMMA CollectCount ==
    ASSUME Typed, CountInv, CollectRetransmits
    PROVE  CountInv'
<1>1. /\ transmits = {}
      /\ UNCHANGED <<nextReliableID, response, streamOf, writes>>
  BY CollectEffect
<1>2. PICK gone \in SUBSET Queued, again \in SUBSET Queued :
         \E f \in [again -> nextSequence + 1 .. nextSequence'] : Collected(gone, again, f)
  BY CollectEffect
<1>3. PICK f \in [again -> nextSequence + 1 .. nextSequence'] : Collected(gone, again, f)
  BY <1>2
<1>4. Given' = Given /\ Queued' = Queued \ gone /\ again \subseteq Queued'
  BY <1>1, <1>3 DEF Given, Collected
<1>5. \A id \in Queued : EntryOK(id) /\ id \in Given
  BY DEF CountInv, EntriesOK, Typed
<1>6. ASSUME NEW q \in transmits'
      PROVE  q.message.id \in again /\ q = Packet(f[q.message.id], reliableOut[q.message.id].message)
  <2>1. PICK id \in again : q = Packet(f[id], reliableOut[id].message)
    BY <1>6, <1>3 DEF Collected
  <2>2. q.message.id = id
    BY <1>5, <2>1 DEF EntryOK, Packet
  <2> QED
    BY <2>1, <2>2
<1>7. OneEach'
  BY <1>6 DEF OneEach
<1>8. NotYetQueued'
  BY <1>1, <1>4, <1>6 DEF NotYetQueued, CountInv
<1>9. ASSUME NEW id \in again PROVE EntryOK(id)'
  <2> DEFINE e == reliableOut[id]
  <2>1. /\ e.message.id = id /\ e.message.class = streamOf[id]
        /\ e.sequences \subseteq 1 .. nextSequence /\ IsFiniteSet(e.sequences)
        /\ e.attempts = Cardinality(e.sequences) /\ e.attempts \in 1 .. ReliableMaxAttempts
    BY <1>5 DEF EntryOK
  <2>2. /\ reliableOut'[id].message = e.message
        /\ reliableOut'[id].attempts = e.attempts + 1
        /\ reliableOut'[id].sequences = e.sequences \cup {f[id]}
        /\ e.attempts < ReliableMaxAttempts
        /\ nextSequence' \in Nat /\ nextSequence <= nextSequence'
    BY <1>3 DEF Collected
  <2>3. f[id] \notin e.sequences /\ f[id] \in 1 .. nextSequence'
        /\ 1 .. nextSequence \subseteq 1 .. nextSequence'
    BY <2>1, <2>2 DEF Typed
  <2>4. /\ IsFiniteSet(e.sequences \cup {f[id]})
        /\ Cardinality(e.sequences \cup {f[id]}) = Cardinality(e.sequences) + 1
    BY <2>1, <2>3, FS_AddElement
  <2> HIDE DEF e
  <2> QED
    BY <1>1, <2>1, <2>2, <2>3, <2>4, MaxAttemptsAssumption DEF EntryOK
<1>10. EntriesOK'
  <2>1. ASSUME NEW id \in Queued' \ again PROVE EntryOK(id)'
    BY <1>1, <1>3, <1>4, <1>5, EntryKept DEF Collected
  <2> QED
    BY <1>9, <2>1 DEF EntriesOK
<1>11. Cardinality(Queued') <= ReliableQueueLimit
  <2>1. /\ Cardinality(Queued') <= Cardinality(Queued)
        /\ Cardinality(Queued') \in Nat /\ Cardinality(Queued) \in Nat
    BY <1>4, QueuedFinite, FS_Subset
  <2> QED
    BY <2>1, QueueLimitAssumption DEF CountInv
<1>12. ASSUME NEW id \in Given
       PROVE  (writes[id] + ToWrite(id) <=
                 IF id \in Queued THEN reliableOut[id].attempts ELSE ReliableMaxAttempts)'
  <2>1. writes[id] \in Nat /\ ~Collecting(id) /\ (Responding(id)' <=> Responding(id))
    BY <1>1 DEF Typed, Collecting, Responding, Queuing
  <2>2. id \in Queued => reliableOut[id].attempts \in 1 .. ReliableMaxAttempts
    BY DEF CountInv, EntriesOK, EntryOK
  <2>3. writes[id] + ToWrite(id) <=
           IF id \in Queued THEN reliableOut[id].attempts ELSE ReliableMaxAttempts
    BY DEF CountInv, WritesCounted
  <2>4. CASE id \in again
    <3>1. reliableOut'[id].attempts = reliableOut[id].attempts + 1 /\ id \in Queued'
      BY <1>3, <1>4, <2>4 DEF Collected
    <3> QED
      BY <1>1, <2>1, <2>2, <2>3, <2>4, <3>1 DEF ToWrite
  <2>5. CASE id \notin again
    <3>1. ~Collecting(id)'
      BY <1>6, <2>5 DEF Collecting
    <3>2. id \in Queued' => reliableOut'[id] = reliableOut[id]
      BY <1>3, <2>5 DEF Collected
    <3> QED
      BY <1>1, <1>4, <2>1, <2>2, <2>3, <3>1, <3>2, MaxAttemptsAssumption DEF ToWrite
  <2> QED
    BY <2>4, <2>5
<1> QED
  BY <1>4, <1>7, <1>8, <1>10, <1>11, <1>12 DEF CountInv, WritesCounted

LEMMA DeferCount ==
    ASSUME Typed, CountInv, DeferRetransmit
    PROVE  CountInv'
<1>1. /\ UNCHANGED <<nextSequence, nextReliableID, reliableOut, response, historyVars>>
      /\ transmits' \subseteq transmits
  BY DEF DeferRetransmit
<1>2. Given' = Given /\ Queued' = Queued /\ NotYetQueued' /\ OneEach'
  BY <1>1 DEF Given, Queued, NotYetQueued, OneEach, CountInv, historyVars
<1>3. EntriesOK'
  BY <1>1, <1>2 DEF CountInv, EntriesOK, EntryOK, historyVars
<1>4. ASSUME NEW id \in Given
      PROVE  (writes[id] + ToWrite(id) <=
                IF id \in Queued THEN reliableOut[id].attempts ELSE ReliableMaxAttempts)'
  <2>1. writes[id] \in Nat /\ (Collecting(id)' => Collecting(id)) /\ (Responding(id)' <=> Responding(id))
    BY <1>1 DEF Typed, Collecting, Responding, Queuing
  <2>2. id \in Queued => reliableOut[id].attempts \in 1 .. ReliableMaxAttempts
    BY DEF CountInv, EntriesOK, EntryOK
  <2> QED
    BY <1>1, <1>2, <2>1, <2>2, MaxAttemptsAssumption
       DEF CountInv, WritesCounted, ToWrite, historyVars
<1> QED
  BY <1>1, <1>2, <1>3, <1>4 DEF CountInv, WritesCounted

LEMMA NextCount ==
    ASSUME Typed, CountInv, [Next]_vars
    PROVE  CountInv'
<1>1. ASSUME UNCHANGED <<nextSequence, nextReliableID, reliableOut, response, transmits, historyVars>>
      PROVE  CountInv'
  BY <1>1 DEF CountInv, EntriesOK, EntryOK, NotYetQueued, OneEach, WritesCounted, Given, Queued,
       ToWrite, Collecting, Responding, Queuing, historyVars
<1>2. CASE UNCHANGED vars
  BY <1>1, <1>2 DEF vars, historyVars
<1>3. CASE ClientReceive
  BY <1>1, <1>3 DEF ClientReceive
<1>4. CASE Next /\ ~ClientReceive
  BY <1>4, PrepareCount, ReserveCount, QueueCount, WriteCount, AckCount, CollectCount, DeferCount
     DEF Next
<1> QED
  BY <1>2, <1>3, <1>4

(* No message is written, or given a sequence, more often than the attempt
   limit: collectReliableRetransmits counts an attempt before the packet is
   written, and sendUDPResponse queues the message before its first write. *)
LEMMA CountBounds ==
    ASSUME Typed, CountInv
    PROVE  AttemptsBounded
<1>1. ASSUME NEW id \in Given
      PROVE  /\ writes[id] <= ReliableMaxAttempts
             /\ id \in Queued => writes[id] <= reliableOut[id].attempts
  <2>1. writes[id] \in Nat /\ ToWrite(id) \in Nat
    BY DEF Typed, ToWrite
  <2>2. id \in Queued => reliableOut[id].attempts \in 1 .. ReliableMaxAttempts
    BY DEF CountInv, EntriesOK, EntryOK
  <2> QED
    BY <2>1, <2>2, MaxAttemptsAssumption DEF CountInv, WritesCounted
<1>2. DOMAIN writes = Given /\ Queued \subseteq Given
  BY DEF Typed
<1>3. \A id \in Queued : EntryOK(id)
  BY DEF CountInv, EntriesOK
<1>4. \A id \in Queued : reliableOut[id].attempts <= ReliableMaxAttempts
  BY <1>3, MaxAttemptsAssumption DEF EntryOK
<1> QED
  BY <1>1, <1>2, <1>3, <1>4 DEF AttemptsBounded, EntryOK, CountInv

-----------------------------------------------------------------------------
(* Delivery. *)

LEMMA InitDelivery == Init => DeliveryInv
<1> SUFFICES ASSUME Init PROVE DeliveryInv
  OBVIOUS
<1>1. /\ Queued = {} /\ Given = {} /\ transmits = {} /\ toClient = {} /\ Sent = {} /\ ~Numbering
      /\ toServer = {} /\ latestPeerSequence = 0 /\ receivedSequences = {}
  BY DEF Init, Queued, Given, Sent, Idle, Numbering
<1>2. ReceiverOK
  BY NewReceiverInv DEF Init, ReceiverOK
<1> QED
  BY <1>1, <1>2 DEF DeliveryInv, SequencesFresh, SequencesCarry, WindowOK, Accounted

(* Sequences in use are not above nextSequence. *)
LEMMA SequencesUsed ==
    ASSUME Typed, EntriesOK
    PROVE  /\ \A p \in transmits \cup toClient : p.sequence \in 1 .. nextSequence
           /\ Sent \subseteq 1 .. nextSequence
           /\ Numbering => response.sequence \in 1 .. nextSequence
           /\ \A id \in Queued : reliableOut[id].sequences \subseteq 1 .. nextSequence
           /\ nextSequence + 1 \notin 1 .. nextSequence
  BY DEF Typed, EntriesOK, EntryOK, Sent

(* What the client has of a message it has of the message's ID. *)
LEMMA HasId ==
    ASSUME Typed, NEW m, Carried(m), m.id \in Given
    PROVE  Has(m) <=> ClientHas(m.id)
<1>1. m.class = streamOf[m.id] /\ streamOf[m.id] \in {"ordered", "unordered"}
  BY IdsUnderway DEF Carried, Typed
<1> QED
  BY <1>1 DEF Has, ClientHas

(* The client's part is untouched, and so is what was sent to it. *)
LEMMA ClientKept ==
    ASSUME ReceiverOK, WindowOK, UNCHANGED <<clientVars, toClient, toServer>>
    PROVE  ReceiverOK' /\ WindowOK'
  BY DEF ReceiverOK, WindowOK, clientVars, Has, Sent

LEMMA PrepareDelivery ==
    ASSUME IInv, NEW class \in {"ordered", "unordered"}, PrepareResponse(class)
    PROVE  DeliveryInv'
<1>1. Typed /\ CountInv /\ DeliveryInv
  BY DEF IInv
<1>2. /\ response = Idle /\ response.stage = "idle"
      /\ UNCHANGED <<nextSequence, reliableOut, toClient, toServer, dropped, clientVars, transmits>>
  BY <1>1, PrepareEffect, ResponseShape
<1>3. ReceiverOK' /\ WindowOK'
  BY <1>1, <1>2, ClientKept DEF DeliveryInv
<1>4. /\ response' = response \/ response' \in Prepared
      /\ nextReliableID' = nextReliableID \/ nextReliableID' = nextReliableID + 1
      /\ \A id \in Given : streamOf'[id] = streamOf[id] /\ writes'[id] = writes[id]
      /\ nextReliableID' = nextReliableID + 1 => writes'[nextReliableID'] = 0
  BY <1>1, PrepareEffect DEF Typed
<1>5. ~Numbering' /\ ~Queuing' /\ ~Queuing
  BY <1>2, <1>4 DEF Prepared, Numbering, Queuing
<1>6. SequencesFresh' /\ SequencesCarry'
  BY <1>1, <1>2, <1>5 DEF DeliveryInv, SequencesFresh, SequencesCarry, Sent, Queued
<1>7. ASSUME NEW id \in Given', writes'[id] + ToWrite(id)' > 0
      PROVE  (id \in Queued \cup dropped \/ ClientHas(id))'
  <2>1. ToWrite(id)' = ToWrite(id)
    BY <1>2, <1>5 DEF ToWrite, Collecting, Responding
  <2>2. CASE id \in Given
    <3>1. id \in Queued \cup dropped \/ ClientHas(id)
      BY <1>1, <1>4, <1>7, <2>1, <2>2 DEF DeliveryInv, Accounted
    <3> QED
      BY <1>2, <1>4, <2>2, <3>1 DEF ClientHas, Queued, clientVars
  <2>3. CASE id \notin Given
    <3>1. id = nextReliableID' /\ nextReliableID' = nextReliableID + 1
      BY <1>1, <1>4, <2>3 DEF Given, Typed
    <3>2. ~Collecting(id)
      BY <1>1, <2>3, <3>1, IdsUnderway DEF Collecting
    <3> QED
      BY <1>4, <1>5, <1>7, <2>1, <3>1, <3>2 DEF ToWrite, Responding
  <2> QED
    BY <2>2, <2>3
<1> QED
  BY <1>3, <1>6, <1>7 DEF DeliveryInv, Accounted

LEMMA ReserveDelivery ==
    ASSUME IInv, ReserveResponse \/ RefuseResponse
    PROVE  DeliveryInv'
<1>1. Typed /\ CountInv /\ DeliveryInv /\ EntriesOK
  BY DEF IInv, CountInv
<1>2. /\ response.stage = "prepared"
      /\ nextSequence' = nextSequence + 1
      /\ UNCHANGED <<nextReliableID, reliableOut, toClient, toServer, clientVars, transmits, historyVars>>
      /\ \/ response' = Idle
         \/ response'.stage = "reserved" /\ response'.sequence = nextSequence'
  BY <1>1, ReserveEffect
<1>3. ReceiverOK' /\ WindowOK'
  BY <1>1, <1>2, ClientKept DEF DeliveryInv
<1>4. /\ Queued' = Queued /\ Given' = Given /\ ~Queuing /\ ~Queuing' /\ Sent' = Sent
      /\ Numbering' => response'.sequence = nextSequence + 1
  BY <1>2 DEF Queued, Given, Queuing, Idle, Sent, Numbering
<1>5. SequencesFresh' /\ SequencesCarry'
  BY <1>1, <1>2, <1>4, SequencesUsed DEF DeliveryInv, SequencesFresh, SequencesCarry
<1>6. \A id : ToWrite(id)' = ToWrite(id)
  BY <1>2, <1>4 DEF ToWrite, Collecting, Responding
<1>7. Accounted'
  BY <1>1, <1>2, <1>4, <1>6 DEF DeliveryInv, Accounted, ClientHas, clientVars, historyVars
<1> QED
  BY <1>3, <1>5, <1>7 DEF DeliveryInv

LEMMA QueueDelivery ==
    ASSUME IInv, QueueResponse
    PROVE  DeliveryInv'
<1>1. Typed /\ CountInv /\ DeliveryInv /\ EntriesOK
  BY DEF IInv, CountInv
<1>2. /\ response \in Numbered /\ response.stage = "reserved"
      /\ UNCHANGED <<nextSequence, nextReliableID, toClient, toServer, clientVars, transmits, historyVars>>
  BY <1>1, QueueEffect
<1>3. ReceiverOK' /\ WindowOK'
  BY <1>1, <1>2, ClientKept DEF DeliveryInv
<1>4. Given' = Given /\ ~Queuing /\ Numbering /\ Sent' = Sent /\ \A id : Collecting(id)' <=> Collecting(id)
  BY <1>2 DEF Given, Queuing, Sent, Numbering, Collecting
<1>5. CASE response' = Idle /\ UNCHANGED reliableOut
  <2>1. Queued' = Queued /\ ~Queuing' /\ ~Numbering'
    BY <1>5 DEF Queued, Queuing, Idle, Numbering
  <2>2. SequencesFresh' /\ SequencesCarry'
    BY <1>1, <1>2, <1>4, <1>5, <2>1 DEF DeliveryInv, SequencesFresh, SequencesCarry
  <2>3. \A id : ToWrite(id)' = ToWrite(id)
    BY <1>4, <2>1 DEF ToWrite, Responding
  <2>4. Accounted'
    BY <1>1, <1>2, <1>4, <2>1, <2>3 DEF DeliveryInv, Accounted, ClientHas, clientVars, historyVars
  <2> QED
    BY <1>3, <2>2, <2>4 DEF DeliveryInv
<1>6. CASE /\ response'.stage = "queued" /\ response'.message = response.message
           /\ response'.sequence = response.sequence
           /\ response.message.class = "unreliable" /\ UNCHANGED reliableOut
  <2>1. response.message.id \notin Given
    BY <1>1, <1>2, <1>6, IdsUnderway, ResponseShape DEF Typed, Carried, Numbering
  <2>2. Queued' = Queued /\ Numbering'
    BY <1>6 DEF Queued, Numbering
  <2>3. SequencesFresh'
    BY <1>1, <1>2, <1>4, <1>6 DEF DeliveryInv, SequencesFresh
  <2>4. SequencesCarry'
    BY <1>1, <1>2, <1>4, <1>6, <2>2 DEF DeliveryInv, SequencesCarry
  <2>5. \A id \in Given : ToWrite(id)' = ToWrite(id)
    BY <1>4, <1>6, <2>1 DEF ToWrite, Responding
  <2>6. Accounted'
    BY <1>1, <1>2, <1>4, <2>2, <2>5 DEF DeliveryInv, Accounted, ClientHas, clientVars, historyVars
  <2> QED
    BY <1>3, <2>3, <2>4, <2>6 DEF DeliveryInv
<1>7. CASE /\ response'.stage = "queued" /\ response'.message = response.message
           /\ response'.sequence = response.sequence
           /\ response.message.id \in Given
           /\ Queued' = Queued \cup {response.message.id}
           /\ reliableOut'[response.message.id] =
                  [message |-> response.message, attempts |-> 1,
                   sequences |-> {response.sequence}]
           /\ \A id \in Queued \ {response.message.id} : reliableOut'[id] = reliableOut[id]
  <2> DEFINE n == response.message.id
  <2>1. n \notin Queued
    BY <1>1, <1>2, <1>7 DEF CountInv, NotYetQueued
  <2>2. SequencesFresh'
    BY <1>1, <1>2, <1>4, <1>7 DEF DeliveryInv, SequencesFresh
  <2>3. SequencesCarry'
    <3> SUFFICES ASSUME NEW id \in Queued', NEW s \in reliableOut'[id].sequences
                 PROVE  /\ \A p \in transmits \cup toClient : p.sequence = s => p.message.id = id
                        /\ response'.sequence = s => response'.message.id = id
      BY <1>2, <1>7 DEF SequencesCarry
    <3>1. CASE id = n
      <4>1. s = response.sequence
        BY <1>7, <3>1
      <4>2. \A p \in transmits \cup toClient : p.sequence # s
        BY <1>1, <1>4, <4>1 DEF DeliveryInv, SequencesFresh, Sent
      <4> QED
        BY <1>7, <3>1, <4>2
    <3>2. CASE id # n
      <4>1. id \in Queued /\ s \in reliableOut[id].sequences
        BY <1>7, <3>2
      <4> QED
        BY <1>1, <1>2, <1>4, <1>7, <4>1 DEF DeliveryInv, SequencesCarry
    <3> QED
      BY <3>1, <3>2
  <2>4. \A id \in Given \ {n} : ToWrite(id)' = ToWrite(id)
    BY <1>4, <1>7 DEF ToWrite, Responding
  <2>5. Accounted'
    BY <1>1, <1>2, <1>4, <1>7, <2>4 DEF DeliveryInv, Accounted, ClientHas, clientVars, historyVars
  <2> QED
    BY <1>3, <2>2, <2>3, <2>5 DEF DeliveryInv
<1> QED
  BY <1>1, <1>5, <1>6, <1>7, QueueEffect

(* A packet goes out under a sequence no other packet has. *)
LEMMA WriteDelivery ==
    ASSUME IInv, WriteResponse \/ WriteRetransmit \/ SendSnapshot
    PROVE  DeliveryInv'
<1>1. Typed /\ CountInv /\ DeliveryInv /\ EntriesOK
  BY DEF IInv, CountInv
<1>2. PICK p \in Packets :
         /\ Write(p) /\ Carried(p.message)
         /\ UNCHANGED <<nextReliableID, reliableOut, toServer, clientVars, streamOf, dropped>>
         /\ \/ /\ Queuing /\ p.message = response.message /\ p.sequence = response.sequence
               /\ response' = Idle /\ UNCHANGED transmits
            \/ /\ p \in transmits /\ transmits' = transmits \ {p} /\ UNCHANGED response
            \/ p.sequence = nextSequence + 1 /\ UNCHANGED <<response, transmits>>
  BY <1>1, WrittenPacket
<1>3. toClient' = toClient \cup {p} /\ Sent' = Sent \cup {p.sequence}
  BY <1>1, <1>2, WriteEffect DEF Sent
<1>4. /\ Given' = Given /\ Queued' = Queued /\ transmits' \subseteq transmits
      /\ Queuing => Numbering
      /\ Numbering' => response' = response /\ Numbering
  BY <1>2 DEF Given, Queued, Queuing, Numbering, Idle
<1>5. /\ p.sequence \notin Sent
      /\ \A q \in transmits' : q.sequence # p.sequence
      /\ Numbering' => response'.sequence # p.sequence
  <2>1. CASE Queuing /\ p.sequence = response.sequence /\ response' = Idle /\ UNCHANGED transmits
    BY <1>1, <1>4, <2>1 DEF DeliveryInv, SequencesFresh, Idle, Numbering
  <2>2. CASE p \in transmits /\ transmits' = transmits \ {p} /\ UNCHANGED response
    BY <1>1, <1>4, <2>2 DEF DeliveryInv, SequencesFresh
  <2>3. CASE p.sequence = nextSequence + 1 /\ UNCHANGED <<response, transmits>>
    BY <1>1, <1>4, <2>3, SequencesUsed
  <2> QED
    BY <1>2, <2>1, <2>2, <2>3
<1>6. SequencesFresh'
  <2>1. \A q \in toClient : q.sequence # p.sequence
    BY <1>5 DEF Sent
  <2>2. \A q, r \in toClient' : q.sequence = r.sequence => q = r
    BY <1>1, <1>3, <2>1 DEF DeliveryInv, SequencesFresh
  <2> QED
    BY <1>1, <1>3, <1>4, <1>5, <2>2 DEF DeliveryInv, SequencesFresh
<1>7. SequencesCarry'
  <2> SUFFICES ASSUME NEW id \in Queued, NEW s \in reliableOut[id].sequences
               PROVE  /\ \A q \in transmits' \cup toClient' : q.sequence = s => q.message.id = id
                      /\ Numbering' /\ response'.sequence = s =>
                            response'.stage = "queued" /\ response'.message.id = id
    BY <1>2, <1>4 DEF SequencesCarry
  <2>1. p.sequence = s => p.message.id = id
    BY <1>1, <1>2, <1>4, SequencesUsed DEF DeliveryInv, SequencesCarry
  <2> QED
    BY <1>1, <1>3, <1>4, <2>1 DEF DeliveryInv, SequencesCarry
<1>8. ReceiverOK' /\ \A m : Has(m)' <=> Has(m)
  BY <1>1, <1>2 DEF DeliveryInv, ReceiverOK, Has, clientVars
<1>9. WindowOK'
  <2>1. /\ latestPeerSequence' \in Nat /\ receivedSequences' \subseteq Sent'
        /\ latestPeerSequence' # 0 => latestPeerSequence' \in receivedSequences'
    BY <1>1, <1>2, <1>3 DEF DeliveryInv, WindowOK, clientVars
  <2>2. \A q \in toClient' : q.sequence \in receivedSequences' => Has(q.message)'
    BY <1>1, <1>2, <1>3, <1>5, <1>8 DEF DeliveryInv, WindowOK, clientVars
  <2>3. ASSUME NEW a \in toServer, NEW s \in Nat, PacketSequenceAcked(a.ack, a.ackBits, s)
        PROVE  s \in Sent' /\ \A q \in toClient' : q.sequence = s => Has(q.message)'
    <3>1. s \in Sent /\ \A q \in toClient : q.sequence = s => Has(q.message)
      BY <1>1, <2>3 DEF DeliveryInv, WindowOK
    <3> QED
      BY <1>3, <1>5, <1>8, <3>1
  <2> QED
    BY <1>2, <2>1, <2>2, <2>3 DEF WindowOK
<1>10. Accounted'
  <2>1. \A id \in Given : writes'[id] + ToWrite(id)' = writes[id] + ToWrite(id)
    BY <1>1, WriteMoves
  <2> QED
    BY <1>1, <1>2, <1>4, <2>1 DEF DeliveryInv, Accounted, ClientHas, clientVars
<1> QED
  BY <1>6, <1>7, <1>8, <1>9, <1>10 DEF DeliveryInv

(* An acknowledged sequence carried the message to the client. *)
LEMMA AckDelivery ==
    ASSUME IInv, HandleAck
    PROVE  DeliveryInv'
<1>1. Typed /\ CountInv /\ DeliveryInv /\ EntriesOK
  BY DEF IInv, CountInv
<1>2. /\ UNCHANGED <<nextSequence, nextReliableID, response, toClient, toServer, clientVars,
                     transmits, historyVars>>
      /\ Queued' \subseteq Queued
      /\ \A id \in Queued' : reliableOut'[id] = reliableOut[id]
      /\ \A id \in Queued \ Queued' :
            \E a \in toServer, s \in reliableOut[id].sequences :
               PacketSequenceAcked(a.ack, a.ackBits, s)
  BY <1>1, AckEffect
<1>3. ReceiverOK' /\ WindowOK'
  BY <1>1, <1>2, ClientKept DEF DeliveryInv
<1>4. /\ Given' = Given /\ Sent' = Sent /\ (Numbering' <=> Numbering)
      /\ \A id : ToWrite(id)' = ToWrite(id) /\ (ClientHas(id)' <=> ClientHas(id))
  BY <1>2 DEF Given, Sent, Numbering, ToWrite, Collecting, Responding, Queuing, ClientHas,
       clientVars, historyVars
<1>5. SequencesFresh' /\ SequencesCarry'
  BY <1>1, <1>2, <1>4 DEF DeliveryInv, SequencesFresh, SequencesCarry
<1>6. ASSUME NEW id \in Queued \ Queued'
      PROVE  ClientHas(id)
  <2>1. PICK a \in toServer, s \in reliableOut[id].sequences :
            PacketSequenceAcked(a.ack, a.ackBits, s)
    BY <1>2, <1>6
  <2>2. s \in Nat /\ id \in Given
    BY <1>1 DEF Typed, Entries
  <2>3. PICK p \in toClient : p.sequence = s
    BY <1>1, <2>1, <2>2 DEF DeliveryInv, WindowOK, Sent
  <2>4. Has(p.message) /\ Carried(p.message)
    BY <1>1, <2>1, <2>2, <2>3 DEF DeliveryInv, WindowOK, Typed
  <2>5. p.message.id = id
    BY <1>1, <2>3 DEF DeliveryInv, SequencesCarry
  <2> QED
    BY <1>1, <2>2, <2>4, <2>5, HasId
<1>7. Accounted'
  BY <1>1, <1>2, <1>4, <1>6 DEF DeliveryInv, Accounted, historyVars
<1> QED
  BY <1>3, <1>5, <1>7 DEF DeliveryInv

LEMMA CollectDelivery ==
    ASSUME IInv, CollectRetransmits
    PROVE  DeliveryInv'
<1>1. Typed /\ CountInv /\ DeliveryInv /\ EntriesOK
  BY DEF IInv, CountInv
<1>2. /\ transmits = {}
      /\ UNCHANGED <<nextReliableID, response, toClient, toServer, clientVars, streamOf, writes>>
  BY <1>1, CollectEffect
<1>3. PICK gone \in SUBSET Queued, again \in SUBSET Queued :
         \E f \in [again -> nextSequence + 1 .. nextSequence'] : Collected(gone, again, f)
  BY <1>1, CollectEffect
<1>4. PICK f \in [again -> nextSequence + 1 .. nextSequence'] : Collected(gone, again, f)
  BY <1>3
<1>5. /\ Queued' = Queued \ gone /\ again \subseteq Queued' /\ dropped' = dropped \cup gone
      /\ \A x, y \in again : f[x] = f[y] => x = y
      /\ \A id \in Queued' \ again : reliableOut'[id] = reliableOut[id]
      /\ \A id \in again : reliableOut'[id].sequences = reliableOut[id].sequences \cup {f[id]}
      /\ transmits' = {Packet(f[id], reliableOut[id].message) : id \in again}
  BY <1>4 DEF Collected
<1>6. \A id \in again : f[id] \notin 1 .. nextSequence
  BY <1>1 DEF Typed
<1>7. ASSUME NEW q \in transmits'
      PROVE  q.message.id \in again /\ q.sequence = f[q.message.id]
             /\ q = Packet(f[q.message.id], reliableOut[q.message.id].message)
  <2>1. PICK id \in again : q = Packet(f[id], reliableOut[id].message)
    BY <1>5, <1>7
  <2>2. q.message.id = id
    BY <1>1, <2>1 DEF EntriesOK, EntryOK, Packet
  <2> QED
    BY <2>1, <2>2 DEF Packet
<1>8. ReceiverOK' /\ WindowOK'
  BY <1>1, <1>2, ClientKept DEF DeliveryInv
<1>9. Given' = Given /\ Sent' = Sent /\ (Numbering' <=> Numbering)
  BY <1>2 DEF Given, Sent, Numbering
<1>10. SequencesFresh'
  <2>1. \A q \in transmits' : q.sequence \notin Sent
    BY <1>1, <1>6, <1>7, SequencesUsed
  <2>2. \A p, q \in transmits' : p.sequence = q.sequence => p = q
    BY <1>5, <1>7
  <2>3. Numbering => response.sequence \notin Sent /\ \A q \in transmits' : q.sequence # response.sequence
    BY <1>1, <1>6, <1>7, SequencesUsed DEF DeliveryInv, SequencesFresh
  <2> QED
    BY <1>1, <1>2, <1>9, <2>1, <2>2, <2>3 DEF DeliveryInv, SequencesFresh
<1>11. SequencesCarry'
  <2> SUFFICES ASSUME NEW id \in Queued', NEW s \in reliableOut'[id].sequences
               PROVE  /\ \A q \in transmits' \cup toClient : q.sequence = s => q.message.id = id
                      /\ Numbering /\ response.sequence = s =>
                            response.stage = "queued" /\ response.message.id = id
    BY <1>2, <1>9 DEF SequencesCarry
  <2>1. CASE s \in reliableOut[id].sequences
    <3>1. id \in Queued /\ s \in 1 .. nextSequence
      BY <1>1, <1>5, <2>1, SequencesUsed
    <3>2. \A q \in transmits' : q.sequence # s
      BY <1>6, <1>7, <3>1
    <3> QED
      BY <1>1, <2>1, <3>1, <3>2 DEF DeliveryInv, SequencesCarry
  <2>2. CASE id \in again /\ s = f[id]
    BY <1>1, <1>5, <1>6, <1>7, <2>2, SequencesUsed
  <2> QED
    BY <1>5, <2>1, <2>2
<1>12. ASSUME NEW id \in Given, writes'[id] + ToWrite(id)' > 0
       PROVE  (id \in Queued \cup dropped \/ ClientHas(id))'
  <2>1. CASE id \in Queued
    BY <1>5, <2>1
  <2>2. CASE id \notin Queued
    <3>1. ToWrite(id)' = ToWrite(id)
      BY <1>2, <1>7, <2>2 DEF ToWrite, Collecting, Responding, Queuing
    <3> QED
      BY <1>1, <1>2, <1>5, <1>12, <2>2, <3>1 DEF DeliveryInv, Accounted, ClientHas, clientVars
  <2> QED
    BY <2>1, <2>2
<1> QED
  BY <1>8, <1>9, <1>10, <1>11, <1>12 DEF DeliveryInv, Accounted

LEMMA DeferDelivery ==
    ASSUME IInv, DeferRetransmit
    PROVE  DeliveryInv'
<1>1. Typed /\ DeliveryInv
  BY DEF IInv
<1>2. /\ UNCHANGED <<nextSequence, nextReliableID, reliableOut, response, toClient, toServer,
                     clientVars, historyVars>>
      /\ transmits' \subseteq transmits
  BY DEF DeferRetransmit
<1>3. ReceiverOK' /\ WindowOK'
  BY <1>1, <1>2, ClientKept DEF DeliveryInv
<1>4. Given' = Given /\ Queued' = Queued /\ Sent' = Sent /\ (Numbering' <=> Numbering)
  BY <1>2 DEF Given, Queued, Sent, Numbering
<1>5. SequencesFresh' /\ SequencesCarry'
  BY <1>1, <1>2, <1>4 DEF DeliveryInv, SequencesFresh, SequencesCarry
<1>6. ASSUME NEW id \in Given, writes'[id] + ToWrite(id)' > 0
      PROVE  (id \in Queued \cup dropped \/ ClientHas(id))'
  <2>1. /\ Collecting(id)' => Collecting(id)
        /\ (Responding(id)' <=> Responding(id)) /\ writes'[id] = writes[id] /\ writes[id] \in Nat
    BY <1>1, <1>2 DEF Collecting, Responding, Queuing, historyVars, Typed
  <2>2. writes[id] + ToWrite(id) > 0
    BY <1>6, <2>1 DEF ToWrite
  <2> QED
    BY <1>1, <1>2, <1>4, <2>2 DEF DeliveryInv, Accounted, ClientHas, clientVars, historyVars
<1> QED
  BY <1>3, <1>4, <1>5, <1>6 DEF DeliveryInv, Accounted

(* The client takes the message before it acknowledges the packet. *)
LEMMA ClientReceiveDelivery ==
    ASSUME IInv, ClientReceive
    PROVE  DeliveryInv'
<1>1. Typed /\ DeliveryInv
  BY DEF IInv
<1>2. PICK p \in toClient :
         LET newest == Newest(latestPeerSequence, p.sequence)
             received == PruneReceived(newest, receivedSequences \cup {p.sequence})
         IN  /\ latestPeerSequence' = newest
             /\ receivedSequences' = received
             /\ clientReceiver' = Receive(clientReceiver, p.message)
             /\ toServer' = toServer \cup {[ack |-> newest, ackBits |-> AckBits(newest, received)]}
  BY DEF ClientReceive
<1> DEFINE newest == Newest(latestPeerSequence, p.sequence)
           taken == receivedSequences \cup {p.sequence}
<1>3. /\ latestPeerSequence' = newest /\ receivedSequences' = PruneReceived(newest, taken)
      /\ clientReceiver' = Receive(clientReceiver, p.message)
      /\ toServer' = toServer \cup
            {[ack |-> newest, ackBits |-> AckBits(newest, PruneReceived(newest, taken))]}
  BY <1>2
<1>4. UNCHANGED <<nextSequence, nextReliableID, reliableOut, response, toClient, transmits, historyVars>>
  BY DEF ClientReceive
<1>5. /\ Given' = Given /\ Queued' = Queued /\ Sent' = Sent /\ (Numbering' <=> Numbering)
      /\ \A id : ToWrite(id)' = ToWrite(id)
  BY <1>4 DEF Given, Queued, Sent, Numbering, ToWrite, Collecting, Responding, Queuing
<1>6. SequencesFresh' /\ SequencesCarry'
  BY <1>1, <1>4, <1>5 DEF DeliveryInv, SequencesFresh, SequencesCarry
<1>7. p \in Packets /\ p.message \in Messages /\ Carried(p.message) /\ p.sequence \in Nat
  BY <1>1 DEF Typed, Packets
<1>8. p.message.class # "unreliable" => p.message.id # 0
  BY <1>1, <1>7, IdsUnderway DEF Carried
<1>9. /\ ReceiverOK'
      /\ clientReceiver.unordered \subseteq clientReceiver'.unordered
      /\ clientReceiver.received \cup clientReceiver.buffer
            \subseteq clientReceiver'.received \cup clientReceiver'.buffer
      /\ p.message.class = "unordered" => p.message.id \in clientReceiver'.unordered
      /\ p.message.class = "ordered" =>
            p.message.id \in clientReceiver'.received \cup clientReceiver'.buffer
  BY <1>1, <1>3, <1>7, <1>8, ReceiveKeeps DEF DeliveryInv, ReceiverOK
<1>10. (\A m : Has(m) => Has(m)') /\ \A id \in Given : ClientHas(id) => ClientHas(id)'
  BY <1>4, <1>9 DEF Has, ClientHas, historyVars
<1>11. Has(p.message)'
  BY <1>7, <1>9 DEF Has, Messages, Classes
<1>12. /\ newest \in Nat /\ taken \subseteq Sent /\ taken \in SUBSET Nat
       /\ newest # 0 => newest \in taken
  BY <1>1, <1>7 DEF Newest, DeliveryInv, WindowOK, Sent, Typed, Packets
<1> HIDE DEF newest, taken
<1>13. PruneReceived(newest, taken) \subseteq taken /\ (newest # 0 => newest \in PruneReceived(newest, taken))
  BY <1>12, WindowAssumption DEF PruneReceived
<1>14. \A q \in toClient : q.sequence \in taken => Has(q.message)'
  <2> SUFFICES ASSUME NEW q \in toClient, q.sequence \in taken PROVE Has(q.message)'
    OBVIOUS
  <2>1. CASE q.sequence \in receivedSequences
    BY <1>1, <1>10, <2>1 DEF DeliveryInv, WindowOK
  <2>2. CASE q.sequence = p.sequence
    BY <1>1, <1>11, <2>2 DEF DeliveryInv, SequencesFresh
  <2> QED
    BY <2>1, <2>2 DEF taken
<1>15. WindowOK'
  <2>1. /\ latestPeerSequence' \in Nat /\ receivedSequences' \subseteq Sent'
        /\ latestPeerSequence' # 0 => latestPeerSequence' \in receivedSequences'
    BY <1>3, <1>5, <1>12, <1>13
  <2>2. \A q \in toClient' : q.sequence \in receivedSequences' => Has(q.message)'
    BY <1>3, <1>4, <1>13, <1>14
  <2>3. ASSUME NEW a \in toServer', NEW s \in Nat, PacketSequenceAcked(a.ack, a.ackBits, s)
        PROVE  s \in Sent /\ \A q \in toClient : q.sequence = s => Has(q.message)'
    <3>1. CASE a \in toServer
      BY <1>1, <1>10, <2>3, <3>1 DEF DeliveryInv, WindowOK
    <3>2. CASE a.ack = newest /\ a.ackBits = AckBits(newest, PruneReceived(newest, taken))
      <4>1. s \in PruneReceived(newest, taken)
        BY <1>12, <1>13, <2>3, <3>2, WindowNames
      <4> QED
        BY <1>12, <1>13, <1>14, <4>1
    <3> QED
      BY <1>3, <2>3, <3>1, <3>2
  <2> QED
    BY <1>4, <1>5, <2>1, <2>2, <2>3 DEF WindowOK
<1>16. Accounted'
  BY <1>1, <1>4, <1>5, <1>10 DEF DeliveryInv, Accounted, historyVars
<1> QED
  BY <1>6, <1>9, <1>15, <1>16 DEF DeliveryInv

-----------------------------------------------------------------------------
LEMMA InitIInv == Init => IInv
  BY InitTyped, InitCount, InitDelivery DEF IInv

LEMMA NextIInv ==
    ASSUME IInv, [Next]_vars
    PROVE  IInv'
<1>1. Typed /\ CountInv /\ DeliveryInv /\ EntriesOK /\ latestPeerSequence \in Nat
  BY DEF IInv, CountInv, DeliveryInv, WindowOK
<1>2. Typed' /\ CountInv'
  BY <1>1, NextTyped, NextCount
<1>3. DeliveryInv'
  <2>1. CASE UNCHANGED vars
    BY <1>1, <2>1 DEF vars, DeliveryInv, SequencesFresh, SequencesCarry, ReceiverOK, WindowOK,
         Accounted, Given, Queued, Sent, Numbering, ToWrite, Collecting, Responding, Queuing,
         Has, ClientHas
  <2>2. CASE Next
    BY <2>2, PrepareDelivery, ReserveDelivery, QueueDelivery, WriteDelivery, AckDelivery,
       CollectDelivery, DeferDelivery, ClientReceiveDelivery DEF Next
  <2> QED
    BY <2>1, <2>2
<1> QED
  BY <1>2, <1>3 DEF IInv

LEMMA Invariance == Spec => []IInv
<1>1. IInv /\ [Next]_vars => IInv'
  BY NextIInv
<1> QED
  BY <1>1, InitIInv, PTL DEF Spec

(* The retry queue, the packets underway and the history have the types
   TypeOK states, in every state of sendUDPResponse and retransmitReliable
   against any network. *)
THEOREM TypesCorrect == Spec => []TypeOK
<1>1. ASSUME IInv PROVE TypeOK
  <2>1. Typed /\ EntriesOK
    BY <1>1 DEF IInv, CountInv
  <2>2. DOMAIN streamOf = 1 .. nextReliableID /\ Queued \subseteq DOMAIN streamOf
        /\ dropped \subseteq DOMAIN streamOf
    BY <2>1 DEF Typed, Given
  <2>3. response.stage \in {"idle", "prepared", "reserved", "queued"}
    BY <2>1 DEF Typed, Idle, Prepared, Numbered
  <2> QED
    BY <2>1, <2>2, <2>3 DEF Typed, EntriesOK, EntryOK, TypeOK
<1> QED
  BY <1>1, Invariance, PTL

(* collectReliableRetransmits never sends a message more often than
   ReliableMaxAttempts, however its passes interleave with responses,
   acknowledgements and refused writes, and queueReliableOutbound never
   fills the queue beyond ReliableQueueLimit. *)
THEOREM AttemptLimit == Spec => []AttemptsBounded
<1>1. IInv => AttemptsBounded
  BY CountBounds DEF IInv
<1> QED
  BY <1>1, Invariance, PTL

(* removeAckedReliableLocked removes only what the client has: a message
   that was written is queued, was dropped at the attempt limit, or has been
   taken by the client, whatever was lost, repeated or reordered. *)
THEOREM Delivered == Spec => []RemovedMeansDelivered
<1>1. ASSUME IInv PROVE RemovedMeansDelivered
  <2>1. Typed /\ Accounted /\ DOMAIN streamOf = Given
    BY <1>1 DEF IInv, DeliveryInv, Typed
  <2>2. \A id \in Given : writes[id] \in Nat /\ ToWrite(id) \in Nat
    BY <2>1 DEF Typed, ToWrite
  <2>3. \A id \in Given : writes[id] > 0 => writes[id] + ToWrite(id) > 0
    BY <2>2
  <2> QED
    BY <2>1, <2>3 DEF Accounted, RemovedMeansDelivered
<1> QED
  BY <1>1, Invariance, PTL
=============================================================================
