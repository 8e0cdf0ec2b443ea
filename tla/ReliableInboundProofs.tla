------------------------ MODULE ReliableInboundProofs ------------------------
(***************************************************************************)
(* Client-to-server delivery, for every window, attempt limit, number of   *)
(* messages and of expired sessions, and any network: the server           *)
(* dispatches ordered messages in order and without delay, unordered ones  *)
(* once, and the client gives up no message silently.                      *)
(***************************************************************************)
EXTENDS ReliableInbound, ReliableReceiverProofs

Packets == [sequence : Nat, message : Messages]
Tracked == [attempts : Nat, sequences : SUBSET Nat]
Acks == [ack : Nat, ackBits : SUBSET Nat]
Numbered == {m \in Messages : m.class \in Reliable /\ m.id # 0}

-----------------------------------------------------------------------------
(* The session on the server. *)

AllArrivedKept ==
    "ordered" \in Supported =>
        \A m \in arrived : m.class = "ordered" => m.id \in receiver.received \cup receiver.buffer

UnorderedKnown ==
    \A i \in DOMAIN dispatched["unordered"] : dispatched["unordered"][i] \in receiver.unordered

SessionInv ==
    /\ ReceiverInv(receiver)
    /\ dispatched \in [Classes -> Seq(Nat)]
    /\ OrderedInOrder
    /\ UnorderedOnce /\ UnorderedKnown
    /\ AllArrivedKept

(* The client and the packets it sent. *)

ClientTyped ==
    /\ nextPacketSequence \in Nat \ {0} /\ created \in [Classes -> Nat]
    /\ toServer \subseteq Packets
    /\ \A p \in toServer : /\ p.sequence \in 1 .. nextPacketSequence - 1
                           /\ p.message.class \in Reliable => p.message.id # 0
    /\ sending \subseteq toServer /\ resending \subseteq toServer
    /\ \A p \in sending \cup resending : p.message \in Numbered
    /\ due \subseteq Numbered
    /\ DOMAIN pending \subseteq Numbered /\ pending \in [DOMAIN pending -> Tracked]

(* A packet has a sequence of its own, and a sequence tracked for a message
   is that of a packet with it. *)
SequencesCarry ==
    /\ \A p, q \in toServer : p.sequence = q.sequence => p = q
    /\ \A m \in DOMAIN pending : \A s \in pending[m].sequences : Packet(s, m) \in toServer

(* Messages of negotiated classes that a session has taken in or is about to. *)
Taken == {m \in held \cup Underway : m.class \in Supported}

UnderwayTyped ==
    Underway \subseteq {m \in Messages : m.class \in Reliable => m.id # 0}

(* The packet with sequence s reached the server, and its message was taken
   in, or is about to be, if its class was negotiated. *)
Took(s) ==
    \E p \in toServer :
        p.sequence = s /\ (p.message.class \in Supported => p.message \in Taken)

WindowInv ==
    /\ ack \in Nat /\ receivedSeqs \subseteq Nat /\ (ack # 0 => ack \in receivedSeqs)
    /\ \A s \in receivedSeqs : Took(s)
    /\ toClient \subseteq Acks
    /\ \A a \in toClient, s \in Nat : PacketSequenceAcked(a.ack, a.ackBits, s) => Took(s)

(* NoSilentLoss for every message that was created. *)
AllKept ==
    \A m \in Numbered :
        m.class \in Supported /\ m.id <= created[m.class] =>
            m \in {p.message : p \in sending} \cup DOMAIN pending \cup Taken \cup abandoned
                     \cup refused

TransferInv == ClientTyped /\ SequencesCarry /\ UnderwayTyped /\ WindowInv /\ AllKept

IInv == SessionInv /\ TransferInv

-----------------------------------------------------------------------------
(* Sessions. *)

LEMMA FreshSession ==
    ASSUME receiver = NewReceiver, dispatched = NothingYet, arrived = {}
    PROVE  SessionInv
<1>1. ReceiverInv(receiver)
  BY NewReceiverInv
<1>2. dispatched \in [Classes -> Seq(Nat)] /\ \A class \in Classes : dispatched[class] = << >>
  BY DEF NothingYet
<1>3. dispatched["ordered"] = << >> /\ dispatched["unordered"] = << >> /\ receiver.next = 1
  BY <1>2 DEF Classes, NewReceiver
<1>4. OrderedInOrder
  BY <1>3 DEF OrderedInOrder
<1>5. UnorderedOnce /\ UnorderedKnown
  BY <1>3 DEF UnorderedOnce, UnorderedKnown
<1> QED
  BY <1>1, <1>2, <1>4, <1>5 DEF SessionInv, AllArrivedKept

(* Appending the IDs from n + 1 on to those up to n. *)
LEMMA CountOn ==
    ASSUME NEW n \in Nat, NEW t \in Seq(Nat), \A i \in 1 .. Len(t) : t[i] = n + i
    PROVE  [i \in 1 .. n |-> i] \o t = [i \in 1 .. n + Len(t) |-> i]
<1> DEFINE s == [i \in 1 .. n |-> i]
           u == [i \in 1 .. n + Len(t) |-> i]
<1>1. s \in Seq(Nat) /\ Len(s) = n /\ \A i \in 1 .. n : s[i] = i
  OBVIOUS
<1>2. Len(t) \in Nat
  BY LenProperties
<1>3. u \in Seq(Nat) /\ Len(u) = n + Len(t) /\ \A i \in 1 .. n + Len(t) : u[i] = i
  BY <1>2
<1> HIDE DEF s, u
<1>4. /\ s \o t \in Seq(Nat) /\ Len(s \o t) = n + Len(t)
      /\ \A i \in 1 .. n + Len(t) : (s \o t)[i] = IF i <= n THEN s[i] ELSE t[i - n]
  BY <1>1, ConcatProperties
<1>5. ASSUME NEW i \in 1 .. n + Len(t)
      PROVE  (s \o t)[i] = u[i]
  <2>1. u[i] = i
    BY <1>3
  <2>2. CASE i <= n
    <3>1. i \in 1 .. n
      BY <2>2
    <3> QED
      BY <1>1, <1>4, <2>1, <2>2, <3>1
  <2>3. CASE ~(i <= n)
    <3>1. i - n \in 1 .. Len(t) /\ n + (i - n) = i
      BY <1>2, <2>3
    <3>2. (s \o t)[i] = t[i - n]
      BY <1>4, <2>3
    <3>3. t[i - n] = n + (i - n)
      BY <3>1
    <3> QED
      BY <2>1, <3>1, <3>2, <3>3
  <2> QED
    BY <2>2, <2>3
<1>6. s \o t = u
  BY <1>3, <1>4, <1>5, SeqEqual
<1> QED
  BY <1>6 DEF s, u

(* Appending an ID that was not there yet. *)
LEMMA AppendNew ==
    ASSUME NEW s \in Seq(Nat), NEW n \in Nat, NEW S,
           \A i, j \in DOMAIN s : s[i] = s[j] => i = j,
           \A i \in DOMAIN s : s[i] \in S, n \notin S
    PROVE  /\ s \o <<n>> \in Seq(Nat)
           /\ \A i, j \in DOMAIN (s \o <<n>>) : (s \o <<n>>)[i] = (s \o <<n>>)[j] => i = j
           /\ \A i \in DOMAIN (s \o <<n>>) : (s \o <<n>>)[i] \in S \cup {n}
<1>1. Len(s) \in Nat /\ DOMAIN s = 1 .. Len(s)
  BY LenProperties
<1>2. <<n>> \in Seq(Nat) /\ Len(<<n>>) = 1 /\ <<n>>[1] = n
  OBVIOUS
<1> DEFINE t == s \o <<n>>
<1>3. t \in Seq(Nat) /\ Len(t) = Len(s) + 1
      /\ \A i \in 1 .. Len(s) + 1 : t[i] = IF i <= Len(s) THEN s[i] ELSE <<n>>[i - Len(s)]
  BY <1>2, ConcatProperties
<1> HIDE DEF t
<1>4. DOMAIN t = 1 .. Len(s) + 1
  BY <1>3, LenProperties
<1>5. \A i \in 1 .. Len(s) + 1 : i \in 1 .. Len(s) \/ i = Len(s) + 1
  BY <1>1
<1>6. t[Len(s) + 1] = n /\ \A i \in 1 .. Len(s) : t[i] = s[i]
  BY <1>1, <1>2, <1>3
<1>7. \A i \in DOMAIN t : t[i] \in S \cup {n}
  BY <1>1, <1>4, <1>5, <1>6
<1>8. \A i, j \in DOMAIN t : t[i] = t[j] => i = j
  BY <1>1, <1>4, <1>5, <1>6
<1> QED
  BY <1>3, <1>7, <1>8 DEF t

(* acceptReliableIncomingMessages on a message of a negotiated class. *)
LEMMA TakeMessage ==
    ASSUME SessionInv, NEW m \in Messages, m.class \in Reliable => m.id # 0,
           receiver' = Receive(receiver, m),
           dispatched' = [dispatched EXCEPT ![m.class] = @ \o Dispatches(receiver, m)],
           arrived' = arrived \cup {m}
    PROVE  SessionInv'
<1>1. ReceiverInv(receiver) /\ dispatched \in [Classes -> Seq(Nat)] /\ m.class \in Classes
      /\ m.id \in Nat /\ receiver.next \in Nat /\ receiver.next >= 1
  BY DEF SessionInv, Messages, ReceiverInv, Receivers
<1>2. /\ ReceiverInv(receiver') /\ receiver.next <= receiver'.next
      /\ receiver.unordered \subseteq receiver'.unordered
      /\ receiver.received \cup receiver.buffer \subseteq receiver'.received \cup receiver'.buffer
      /\ m.class = "ordered" /\ m.id # 0 => m.id \in receiver'.received \cup receiver'.buffer
      /\ m.class # "ordered" => receiver'.next = receiver.next
      /\ m.class # "unordered" => receiver'.unordered = receiver.unordered
  BY <1>1, ReceiveKeeps
<1> HIDE DEF ReceiverInv
<1>3. \A class \in Classes \ {m.class} : dispatched'[class] = dispatched[class]
  BY <1>1
<1>4. dispatched'[m.class] = dispatched[m.class] \o Dispatches(receiver, m)
  BY <1>1
<1>5. Dispatches(receiver, m) \in Seq(Nat)
  <2>1. CASE m.class = "ordered"
    BY <1>1, <2>1, DispatchesOrdered
  <2>2. CASE m.class = "unordered"
    <3>1. Dispatches(receiver, m) \in {<< >>, <<m.id>>}
      BY <1>1, <2>2, DispatchesUnordered
    <3>2. <<m.id>> \in Seq(Nat) /\ << >> \in Seq(Nat)
      BY <1>1
    <3> QED
      BY <3>1, <3>2
  <2>3. CASE m.class = "unreliable"
    <3>1. Dispatches(receiver, m) = <<m.id>>
      BY <2>3 DEF Dispatches, Ignores, InTurn
    <3>2. <<m.id>> \in Seq(Nat)
      BY <1>1
    <3> QED
      BY <3>1, <3>2
  <2> QED
    BY <1>1, <2>1, <2>2, <2>3 DEF Classes
<1>6. dispatched' \in [Classes -> Seq(Nat)]
  BY <1>1, <1>5, ConcatProperties
<1>7. OrderedInOrder'
  <2>1. CASE m.class = "ordered"
    <3> DEFINE t == Dispatches(receiver, m)
               n == receiver.next - 1
    <3>1. Len(t) = receiver'.next - receiver.next /\ \A i \in 1 .. Len(t) : t[i] = receiver.next + i - 1
      BY <1>1, <2>1, DispatchesOrdered
    <3>2. receiver'.next \in Nat
      BY <1>2 DEF ReceiverInv, Receivers
    <3> HIDE DEF t
    <3>3. n \in Nat /\ n + Len(t) = receiver'.next - 1 /\ \A i \in 1 .. Len(t) : t[i] = n + i
      BY <1>1, <3>1, <3>2
    <3>4. dispatched["ordered"] = [i \in 1 .. n |-> i]
      BY DEF SessionInv, OrderedInOrder
    <3> HIDE DEF n
    <3>5. [i \in 1 .. n |-> i] \o t = [i \in 1 .. n + Len(t) |-> i]
      BY <1>5, <3>3, CountOn DEF t
    <3> QED
      BY <1>4, <2>1, <3>3, <3>4, <3>5 DEF OrderedInOrder, t
  <2>2. CASE m.class # "ordered"
    BY <1>2, <1>3, <2>2 DEF SessionInv, OrderedInOrder, Classes
  <2> QED
    BY <2>1, <2>2
<1>8. UnorderedOnce' /\ UnorderedKnown'
  <2>1. CASE m.class # "unordered" \/ Dispatches(receiver, m) = << >>
    <3>1. dispatched'["unordered"] = dispatched["unordered"]
      BY <1>1, <1>3, <1>4, <2>1, ConcatEmptySeq DEF Classes
    <3> QED
      BY <1>2, <3>1 DEF SessionInv, UnorderedOnce, UnorderedKnown
  <2>2. CASE m.class = "unordered" /\ Dispatches(receiver, m) # << >>
    <3> DEFINE s == dispatched["unordered"]
    <3>1. /\ Dispatches(receiver, m) = <<m.id>> /\ m.id \notin receiver.unordered
          /\ receiver'.unordered = receiver.unordered \cup {m.id}
      BY <1>1, <2>2, DispatchesUnordered
    <3>2. dispatched'["unordered"] = s \o <<m.id>> /\ s \in Seq(Nat)
      BY <1>1, <1>4, <2>2, <3>1
    <3>3. (\A i, j \in DOMAIN s : s[i] = s[j] => i = j) /\ \A i \in DOMAIN s : s[i] \in receiver.unordered
      BY DEF SessionInv, UnorderedOnce, UnorderedKnown
    <3> HIDE DEF s
    <3> DEFINE t == s \o <<m.id>>
    <3>4. /\ \A i, j \in DOMAIN t : t[i] = t[j] => i = j
          /\ \A i \in DOMAIN t : t[i] \in receiver.unordered \cup {m.id}
      BY <1>1, <3>1, <3>2, <3>3, AppendNew
    <3> HIDE DEF t
    <3>5. dispatched'["unordered"] = t
      BY <3>2 DEF t
    <3>6. UnorderedOnce'
      BY <3>4, <3>5, Zenon DEF UnorderedOnce
    <3>7. UnorderedKnown'
      BY <3>1, <3>4, <3>5, Zenon DEF UnorderedKnown
    <3> QED
      BY <3>6, <3>7
  <2> QED
    BY <2>1, <2>2
<1>9. AllArrivedKept'
  BY <1>2 DEF SessionInv, AllArrivedKept, Reliable
<1> QED
  BY <1>2, <1>6, <1>7, <1>8, <1>9 DEF SessionInv

LEMMA SessionKept ==
    ASSUME SessionInv, UNCHANGED <<receiver, dispatched, arrived>>
    PROVE  SessionInv'
  BY DEF SessionInv, OrderedInOrder, UnorderedOnce, UnorderedKnown, AllArrivedKept

LEMMA TakeInSession ==
    ASSUME SessionInv, UnderwayTyped, TakeIn
    PROVE  SessionInv'
<1>1. PICK t \in accepting :
         LET m == t.message
             negotiated == m.class \in Supported \cup {"unreliable"}
         IN  /\ arrived' = IF t.session = expiries THEN arrived \cup {m} ELSE arrived
             /\ IF negotiated /\ t.session = expiries
                THEN /\ receiver' = Receive(receiver, m)
                     /\ dispatched' = [dispatched EXCEPT ![m.class] =
                                          @ \o Dispatches(receiver, m)]
                ELSE UNCHANGED <<receiver, dispatched>>
  BY DEF TakeIn
<1> DEFINE m == t.message
           negotiated == m.class \in Supported \cup {"unreliable"}
<1>2. m \in Messages /\ (m.class \in Reliable => m.id # 0)
  BY DEF UnderwayTyped, Underway
<1>3. CASE negotiated /\ t.session = expiries
  BY <1>1, <1>2, <1>3, TakeMessage
<1>4. CASE ~negotiated /\ t.session = expiries
  <2>1. UNCHANGED <<receiver, dispatched>> /\ arrived' = arrived \cup {m}
    BY <1>1, <1>4
  <2>2. AllArrivedKept'
    BY <1>4, <2>1 DEF SessionInv, AllArrivedKept
  <2> QED
    BY <2>1, <2>2 DEF SessionInv, OrderedInOrder, UnorderedOnce, UnorderedKnown
<1>5. CASE t.session # expiries
  BY <1>1, <1>5, SessionKept
<1> QED
  BY <1>3, <1>4, <1>5

LEMMA ExpireSession ==
    ASSUME Expire
    PROVE  SessionInv'
<1>1. receiver' = NewReceiver /\ dispatched' = NothingYet /\ arrived' = {}
  BY DEF Expire
<1>2. ReceiverInv(receiver')
  BY <1>1, NewReceiverInv
<1>3. dispatched' \in [Classes -> Seq(Nat)] /\ \A class \in Classes : dispatched'[class] = << >>
  BY <1>1 DEF NothingYet
<1>4. dispatched'["ordered"] = << >> /\ dispatched'["unordered"] = << >> /\ receiver'.next = 1
  BY <1>1, <1>3 DEF Classes, NewReceiver
<1>5. OrderedInOrder' /\ UnorderedOnce' /\ UnorderedKnown'
  BY <1>4 DEF OrderedInOrder, UnorderedOnce, UnorderedKnown
<1> QED
  BY <1>1, <1>2, <1>3, <1>5 DEF SessionInv, AllArrivedKept

-----------------------------------------------------------------------------
(* The transfer. *)

LEMMA InitTransfer == Init => TransferInv
<1> SUFFICES ASSUME Init PROVE TransferInv
  OBVIOUS
<1>1. ClientTyped
  <2>1. DOMAIN pending = {} /\ pending \in [DOMAIN pending -> Tracked]
    BY DEF Init
  <2> QED
    BY <2>1 DEF Init, ClientTyped
<1>2. SequencesCarry /\ UnderwayTyped /\ WindowInv
  BY <1>1 DEF Init, SequencesCarry, WindowInv, UnderwayTyped, Underway
<1>3. AllKept
  <2>1. \A m \in Numbered : m.id \in Nat /\ m.id # 0 /\ m.class \in Classes
    BY DEF Numbered, Messages
  <2>2. \A class \in Classes : created[class] = 0
    BY DEF Init
  <2> QED
    BY <2>1, <2>2 DEF AllKept
<1> QED
  BY <1>1, <1>2, <1>3 DEF TransferInv

(* What the server took stays taken while packets are added. *)
LEMMA TookKept ==
    ASSUME NEW s, Took(s), toServer \subseteq toServer',
           Taken \subseteq Taken'
    PROVE  Took(s)'
  BY DEF Took

LEMMA WindowKept ==
    ASSUME WindowInv, UNCHANGED <<ack, receivedSeqs, toClient>>, toServer \subseteq toServer',
           Taken \subseteq Taken'
    PROVE  WindowInv'
  BY TookKept DEF WindowInv

(* A packet with the next sequence. *)
LEMMA PacketAdded ==
    ASSUME ClientTyped, SequencesCarry, NEW m \in Messages, SendPacket(m)
    PROVE  LET p == Packet(nextPacketSequence, m)
           IN  /\ p \in Packets /\ p.message = m /\ p.sequence = nextPacketSequence
               /\ toServer' = toServer \cup {p}
               /\ nextPacketSequence' \in Nat \ {0}
               /\ p.sequence \in 1 .. nextPacketSequence' - 1
               /\ \A q \in toServer : q.sequence \in 1 .. nextPacketSequence' - 1
               /\ \A q, r \in toServer' : q.sequence = r.sequence => q = r
<1> DEFINE p == Packet(nextPacketSequence, m)
<1>1. /\ p \in Packets /\ p.message = m /\ p.sequence = nextPacketSequence
      /\ toServer' = toServer \cup {p} /\ nextPacketSequence' = nextPacketSequence + 1
      /\ nextPacketSequence \in Nat \ {0}
  BY DEF ClientTyped, Packets, Packet, SendPacket
<1> HIDE DEF p
<1>2. /\ nextPacketSequence' \in Nat \ {0} /\ p.sequence \in 1 .. nextPacketSequence' - 1
  BY <1>1
<1>3. \A q \in toServer : q.sequence \in 1 .. nextPacketSequence' - 1 /\ q.sequence # p.sequence
  BY <1>1 DEF ClientTyped
<1>4. \A q, r \in toServer' : q.sequence = r.sequence => q = r
  BY <1>1, <1>3 DEF SequencesCarry
<1> QED
  BY <1>1, <1>2, <1>3, <1>4 DEF p

LEMMA SendTransfer ==
    ASSUME TransferInv, NEW class \in Classes, SendMessage(class)
    PROVE  TransferInv'
<1>1. ClientTyped /\ SequencesCarry /\ UnderwayTyped /\ WindowInv /\ AllKept
  BY DEF TransferInv
<1> DEFINE m == CreateOutgoingMessage(class)
           p == Packet(nextPacketSequence, m)
<1>2. /\ SendPacket(m)
      /\ sending' = IF class \in Reliable THEN sending \cup {p} ELSE sending
      /\ created' = [created EXCEPT ![class] = @ + 1]
      /\ UNCHANGED <<pending, due, resending, abandoned, toClient, ack, receivedSeqs, Underway, Taken, refused>>
  BY DEF SendMessage, Creates, serverVars, Underway, Taken
<1>3. created[class] \in Nat
  BY <1>1 DEF ClientTyped
<1>4. /\ m \in Messages /\ m.class = class /\ (class \in Reliable => m \in Numbered)
      /\ (class \in Reliable => m.id = created[class] + 1)
  BY <1>3 DEF Messages, CreateOutgoingMessage, Message, Numbered
<1> HIDE DEF m
<1>5. /\ p \in Packets /\ p.message = m
      /\ toServer' = toServer \cup {p}
      /\ nextPacketSequence' \in Nat \ {0}
      /\ p.sequence \in 1 .. nextPacketSequence' - 1
      /\ \A q \in toServer : q.sequence \in 1 .. nextPacketSequence' - 1
      /\ \A q, r \in toServer' : q.sequence = r.sequence => q = r
  BY <1>1, <1>2, <1>4, PacketAdded
<1> HIDE DEF p
<1>6. created' \in [Classes -> Nat] /\ created'[class] = created[class] + 1
      /\ \A c \in Classes \ {class} : created'[c] = created[c]
  BY <1>1, <1>2, <1>3 DEF ClientTyped
<1>7. ClientTyped'
  <2>1. \A q \in toServer' : /\ q.sequence \in 1 .. nextPacketSequence' - 1
                            /\ q.message.class \in Reliable => q.message.id # 0
    BY <1>1, <1>4, <1>5 DEF ClientTyped, Numbered
  <2>2. /\ sending' \subseteq toServer' /\ resending' \subseteq toServer'
        /\ \A q \in sending' \cup resending' : q.message \in Numbered
    BY <1>1, <1>2, <1>4, <1>5 DEF ClientTyped
  <2>3. toServer' \subseteq Packets
    BY <1>1, <1>5 DEF ClientTyped
  <2> QED
    BY <1>1, <1>2, <1>5, <1>6, <2>1, <2>2, <2>3 DEF ClientTyped
<1>8. SequencesCarry'
  BY <1>1, <1>2, <1>5 DEF SequencesCarry
<1>9. WindowInv'
  BY <1>1, <1>2, <1>5, WindowKept
<1>10. AllKept'
  <2> SUFFICES ASSUME NEW n \in Numbered, n.class \in Supported, n.id <= created'[n.class]
               PROVE  n \in {q.message : q \in sending'} \cup DOMAIN pending' \cup Taken' \cup abandoned'
                              \cup refused'
    BY DEF AllKept
  <2>1. n \in Messages /\ n.class \in Classes /\ n.id \in Nat /\ n.class \in Reliable
    BY DEF Numbered, Messages
  <2>2. CASE n.id <= created[n.class]
    BY <1>1, <1>2, <2>2 DEF AllKept
  <2>3. CASE ~(n.id <= created[n.class])
    <3>1. n.class = class /\ n.id = created[class] + 1
      BY <1>3, <1>6, <2>1, <2>3
    <3>2. n = m
      BY <1>4, <2>1, <3>1 DEF Messages
    <3> QED
      BY <1>2, <1>5, <2>1, <3>1, <3>2
  <2> QED
    BY <2>2, <2>3
<1>11. UnderwayTyped'
  BY <1>1, <1>2 DEF UnderwayTyped
<1> QED
  BY <1>7, <1>8, <1>9, <1>10, <1>11 DEF TransferInv

(* A failed send uses up a sequence and sends nothing. *)
LEMMA NothingSent ==
    ASSUME ClientTyped, SequencesCarry, WindowInv, UnderwayTyped, SendPacketFails,
           created' \in [Classes -> Nat], due' \subseteq due,
           UNCHANGED <<sending, pending, resending, toClient, serverVars>>
    PROVE  ClientTyped' /\ SequencesCarry' /\ UnderwayTyped' /\ WindowInv' /\ Taken' = Taken
<1>1. nextPacketSequence' = nextPacketSequence + 1 /\ toServer' = toServer
  BY DEF SendPacketFails
<1>2. Taken' = Taken /\ Underway' = Underway /\ UNCHANGED <<ack, receivedSeqs>>
  BY DEF serverVars, Taken, Underway
<1>3. nextPacketSequence' \in Nat \ {0}
      /\ \A p \in toServer : p.sequence \in 1 .. nextPacketSequence' - 1
  BY <1>1 DEF ClientTyped
<1>4. ClientTyped'
  BY <1>1, <1>3 DEF ClientTyped
<1>5. SequencesCarry' /\ UnderwayTyped'
  BY <1>1, <1>2 DEF SequencesCarry, UnderwayTyped
<1> QED
  BY <1>1, <1>2, <1>4, <1>5, WindowKept

LEMMA SendFailsTransfer ==
    ASSUME TransferInv, NEW class \in Classes, SendMessageFails(class)
    PROVE  TransferInv'
<1>1. ClientTyped /\ SequencesCarry /\ UnderwayTyped /\ WindowInv /\ AllKept
  BY DEF TransferInv
<1> DEFINE m == CreateOutgoingMessage(class)
<1>2. /\ SendPacketFails
      /\ refused' = IF class \in Reliable THEN refused \cup {m} ELSE refused
      /\ created' = [created EXCEPT ![class] = @ + 1]
      /\ UNCHANGED <<sending, pending, due, resending, abandoned, toClient, serverVars>>
  BY DEF SendMessageFails, Creates
<1>3. created[class] \in Nat
  BY <1>1 DEF ClientTyped
<1>4. class \in Reliable => m = Message(class, created[class] + 1)
  BY DEF CreateOutgoingMessage
<1> HIDE DEF m
<1>5. created' \in [Classes -> Nat] /\ created'[class] = created[class] + 1
      /\ \A c \in Classes \ {class} : created'[c] = created[c]
  BY <1>1, <1>2, <1>3 DEF ClientTyped
<1>6. ClientTyped' /\ SequencesCarry' /\ UnderwayTyped' /\ WindowInv' /\ Taken' = Taken
  BY <1>1, <1>2, <1>5, NothingSent
<1>7. AllKept'
  <2> SUFFICES ASSUME NEW n \in Numbered, n.class \in Supported, n.id <= created'[n.class]
               PROVE  n \in {q.message : q \in sending'} \cup DOMAIN pending' \cup Taken' \cup abandoned'
                              \cup refused'
    BY DEF AllKept
  <2>1. n \in Messages /\ n.class \in Classes /\ n.id \in Nat /\ n.class \in Reliable
    BY DEF Numbered, Messages
  <2>2. CASE n.id <= created[n.class]
    BY <1>1, <1>2, <1>6, <2>2 DEF AllKept
  <2>3. CASE ~(n.id <= created[n.class])
    <3>1. n.class = class /\ n.id = created[class] + 1
      BY <1>3, <1>5, <2>1, <2>3
    <3>2. n = m
      BY <1>4, <2>1, <3>1 DEF Messages, Message
    <3> QED
      BY <1>2, <2>1, <3>1, <3>2
  <2> QED
    BY <2>2, <2>3
<1> QED
  BY <1>6, <1>7 DEF TransferInv

LEMMA ResendFailsTransfer ==
    ASSUME TransferInv, ResendFails
    PROVE  TransferInv'
<1>1. ClientTyped /\ SequencesCarry /\ UnderwayTyped /\ WindowInv /\ AllKept
  BY DEF TransferInv
<1>2. /\ SendPacketFails /\ due' = {}
      /\ UNCHANGED <<created, sending, pending, resending, abandoned, refused, toClient, serverVars>>
  BY DEF ResendFails
<1>3. created' \in [Classes -> Nat] /\ due' \subseteq due
  BY <1>1, <1>2 DEF ClientTyped
<1>4. ClientTyped' /\ SequencesCarry' /\ UnderwayTyped' /\ WindowInv' /\ Taken' = Taken
  BY <1>1, <1>2, <1>3, NothingSent
<1>5. AllKept'
  BY <1>1, <1>2, <1>4 DEF AllKept
<1> QED
  BY <1>4, <1>5 DEF TransferInv

LEMMA TrackTransfer ==
    ASSUME TransferInv, TrackMessage
    PROVE  TransferInv'
<1>1. ClientTyped /\ SequencesCarry /\ UnderwayTyped /\ WindowInv /\ AllKept
  BY DEF TransferInv
<1>2. PICK p \in sending :
         /\ sending' = sending \ {p}
         /\ pending' = [m \in DOMAIN pending \cup {p.message} |->
                          IF m = p.message THEN [attempts |-> 1, sequences |-> {p.sequence}]
                          ELSE pending[m]]
  BY DEF TrackMessage
<1>3. UNCHANGED <<nextPacketSequence, created, due, resending, abandoned, toServer, toClient,
                  ack, receivedSeqs, Underway, Taken, refused>>
  BY DEF TrackMessage, serverVars, Underway, Taken
<1>4. p \in toServer /\ p \in Packets /\ p.message \in Numbered /\ p.sequence \in Nat
  BY <1>1 DEF ClientTyped, Packets
<1> DEFINE e == [attempts |-> 1, sequences |-> {p.sequence}]
<1>5. e \in Tracked /\ e.sequences = {p.sequence}
  BY <1>4 DEF Tracked
<1>6. DOMAIN pending' = DOMAIN pending \cup {p.message}
  BY <1>2
<1>7. /\ pending'[p.message] = e
      /\ \A m \in DOMAIN pending \ {p.message} : pending'[m] = pending[m]
  BY <1>2
<1> HIDE DEF e
<1>8. pending' \in [DOMAIN pending' -> Tracked]
  <2>1. \A m \in DOMAIN pending' : pending'[m] \in Tracked
    BY <1>1, <1>5, <1>6, <1>7 DEF ClientTyped
  <2>2. pending' = [m \in DOMAIN pending' |-> pending'[m]]
    BY <1>2
  <2> QED
    BY <2>1, <2>2
<1>9. ClientTyped'
  BY <1>1, <1>2, <1>3, <1>4, <1>6, <1>8 DEF ClientTyped
<1>10. SequencesCarry'
  <2>1. Packet(p.sequence, p.message) = p
    BY <1>4 DEF Packet, Packets
  <2>2. ASSUME NEW m \in DOMAIN pending', NEW s \in pending'[m].sequences
        PROVE  Packet(s, m) \in toServer
    BY <1>1, <1>4, <1>5, <1>6, <1>7, <2>1, <2>2 DEF SequencesCarry
  <2> QED
    BY <1>1, <1>3, <2>2 DEF SequencesCarry
<1>11. WindowInv'
  BY <1>1, <1>3, WindowKept
<1>12. AllKept'
  BY <1>1, <1>2, <1>3, <1>6 DEF AllKept
<1>13. UnderwayTyped'
  BY <1>1, <1>3 DEF UnderwayTyped
<1> QED
  BY <1>9, <1>10, <1>11, <1>12, <1>13 DEF TransferInv

(* Messages leave the pending list; the others stay as they are. *)
LEMMA WithoutSome ==
    ASSUME ClientTyped, SequencesCarry, NEW S, pending' = Without(pending, S),
           UNCHANGED <<nextPacketSequence, created, sending, resending, toServer>>,
           due' \subseteq due \cup DOMAIN pending
    PROVE  ClientTyped' /\ SequencesCarry' /\ DOMAIN pending' = DOMAIN pending \ S
<1>1. /\ DOMAIN pending' = DOMAIN pending \ S
      /\ \A m \in DOMAIN pending' : pending'[m] = pending[m]
      /\ pending' = [m \in DOMAIN pending \ S |-> pending[m]]
  BY DEF Without
<1>2. pending' \in [DOMAIN pending' -> Tracked]
  BY <1>1 DEF ClientTyped
<1>3. ClientTyped'
  BY <1>1, <1>2 DEF ClientTyped
<1> QED
  BY <1>1, <1>3 DEF SequencesCarry

LEMMA UpdateTransfer ==
    ASSUME TransferInv, UpdateBegin
    PROVE  TransferInv'
<1>1. ClientTyped /\ SequencesCarry /\ UnderwayTyped /\ WindowInv /\ AllKept
  BY DEF TransferInv
<1> DEFINE exhausted == {m \in DOMAIN pending : pending[m].attempts >= MaxAttempts}
<1>2. /\ pending' = Without(pending, exhausted)
      /\ abandoned' = abandoned \cup exhausted
      /\ due' \subseteq DOMAIN pending
      /\ UNCHANGED <<nextPacketSequence, created, sending, resending, toServer, toClient,
                     ack, receivedSeqs, Underway, Taken, refused>>
  BY DEF UpdateBegin, DropExhausted, serverVars, Underway, Taken
<1> HIDE DEF exhausted
<1>3. ClientTyped' /\ SequencesCarry' /\ DOMAIN pending' = DOMAIN pending \ exhausted
  BY <1>1, <1>2, WithoutSome
<1>4. WindowInv'
  BY <1>1, <1>2, WindowKept
<1>5. AllKept'
  BY <1>1, <1>2, <1>3 DEF AllKept
<1>6. UnderwayTyped'
  BY <1>1, <1>2 DEF UnderwayTyped
<1> QED
  BY <1>3, <1>4, <1>5, <1>6 DEF TransferInv

LEMMA ResendBeginTransfer ==
    ASSUME TransferInv, ResendBegin
    PROVE  TransferInv'
<1>1. ClientTyped /\ SequencesCarry /\ UnderwayTyped /\ WindowInv /\ AllKept
  BY DEF TransferInv
<1>2. PICK m \in due : /\ SendPacket(m)
                       /\ resending' = {Packet(nextPacketSequence, m)}
                       /\ due' = due \ {m}
  BY DEF ResendBegin
<1>3. UNCHANGED <<created, sending, pending, abandoned, toClient, ack, receivedSeqs, Underway, Taken, refused>>
  BY DEF ResendBegin, serverVars, Underway, Taken
<1>4. m \in Numbered /\ m \in Messages
  BY <1>1 DEF ClientTyped, Numbered
<1> DEFINE p == Packet(nextPacketSequence, m)
<1>5. /\ p \in Packets /\ p.message = m
      /\ toServer' = toServer \cup {p}
      /\ nextPacketSequence' \in Nat \ {0}
      /\ p.sequence \in 1 .. nextPacketSequence' - 1
      /\ \A q \in toServer : q.sequence \in 1 .. nextPacketSequence' - 1
      /\ \A q, r \in toServer' : q.sequence = r.sequence => q = r
  BY <1>1, <1>2, <1>4, PacketAdded
<1>6. resending' = {p}
  BY <1>2
<1> HIDE DEF p
<1>7. ClientTyped'
  <2>1. \A q \in toServer' : /\ q.sequence \in 1 .. nextPacketSequence' - 1
                            /\ q.message.class \in Reliable => q.message.id # 0
    BY <1>1, <1>4, <1>5 DEF ClientTyped, Numbered
  <2>2. /\ sending' \subseteq toServer' /\ resending' \subseteq toServer'
        /\ \A q \in sending' \cup resending' : q.message \in Numbered
    BY <1>1, <1>3, <1>4, <1>5, <1>6 DEF ClientTyped
  <2>3. toServer' \subseteq Packets /\ due' \subseteq Numbered
    BY <1>1, <1>2, <1>5 DEF ClientTyped
  <2> QED
    BY <1>1, <1>3, <1>5, <2>1, <2>2, <2>3 DEF ClientTyped
<1>8. SequencesCarry'
  BY <1>1, <1>3, <1>5 DEF SequencesCarry
<1>9. WindowInv'
  BY <1>1, <1>3, <1>5, WindowKept
<1>10. AllKept'
  BY <1>1, <1>3 DEF AllKept
<1>11. UnderwayTyped'
  BY <1>1, <1>3 DEF UnderwayTyped
<1> QED
  BY <1>7, <1>8, <1>9, <1>10, <1>11 DEF TransferInv

LEMMA ResendEndTransfer ==
    ASSUME TransferInv, ResendEnd
    PROVE  TransferInv'
<1>1. ClientTyped /\ SequencesCarry /\ UnderwayTyped /\ WindowInv /\ AllKept
  BY DEF TransferInv
<1>2. PICK p \in resending :
         pending' = IF p.message \in DOMAIN pending
                    THEN [pending EXCEPT ![p.message].attempts = @ + 1,
                                         ![p.message].sequences = @ \cup {p.sequence}]
                    ELSE pending
  BY DEF ResendEnd
<1>3. /\ resending' = {}
      /\ UNCHANGED <<nextPacketSequence, created, sending, due, abandoned, toServer, toClient,
                     ack, receivedSeqs, Underway, Taken, refused>>
  BY DEF ResendEnd, serverVars, Underway, Taken
<1>4. p \in toServer /\ p \in Packets /\ p.sequence \in Nat
  BY <1>1 DEF ClientTyped, Packets
<1>5. CASE p.message \notin DOMAIN pending
  BY <1>1, <1>2, <1>3, <1>5, WindowKept DEF TransferInv, ClientTyped, SequencesCarry, UnderwayTyped, AllKept
<1>6. CASE p.message \in DOMAIN pending
  <2> DEFINE e == pending[p.message]
             n == e.attempts + 1
             S == e.sequences \cup {p.sequence}
             c == [e EXCEPT !.attempts = n, !.sequences = S]
  <2>1. e \in Tracked /\ n \in Nat /\ S \in SUBSET Nat
    BY <1>1, <1>4, <1>6 DEF ClientTyped, Tracked
  <2>2. pending' = [pending EXCEPT ![p.message] = c]
    BY <1>2, <1>6
  <2> HIDE DEF e, n, S
  <2>3. c \in Tracked /\ c.sequences = S
    BY <2>1 DEF Tracked
  <2> HIDE DEF c
  <2>4. /\ DOMAIN pending' = DOMAIN pending /\ pending' \in [DOMAIN pending' -> Tracked]
        /\ pending'[p.message] = c
        /\ \A m \in DOMAIN pending \ {p.message} : pending'[m] = pending[m]
    BY <1>1, <1>6, <2>2, <2>3 DEF ClientTyped
  <2>5. ClientTyped'
    BY <1>1, <1>3, <2>4 DEF ClientTyped
  <2>6. Packet(p.sequence, p.message) = p
    BY <1>4 DEF Packet, Packets
  <2>7. ASSUME NEW m \in DOMAIN pending', NEW s \in pending'[m].sequences
        PROVE  Packet(s, m) \in toServer
    <3>1. CASE m = p.message /\ s = p.sequence
      BY <1>4, <2>6, <3>1
    <3>2. CASE s \in pending[m].sequences
      BY <1>1, <2>4, <3>2 DEF SequencesCarry
    <3> QED
      BY <2>3, <2>4, <2>7, <3>1, <3>2 DEF S, e
  <2>8. SequencesCarry'
    BY <1>1, <1>3, <2>7 DEF SequencesCarry
  <2>9. WindowInv' /\ AllKept'
    BY <1>1, <1>3, <2>4, WindowKept DEF AllKept
  <2>10. UnderwayTyped'
    BY <1>1, <1>3 DEF UnderwayTyped
  <2> QED
    BY <2>5, <2>8, <2>9, <2>10 DEF TransferInv
<1> QED
  BY <1>5, <1>6

(* A message is removed when a packet with it was taken in. *)
LEMMA ClientReceiveTransfer ==
    ASSUME TransferInv, ClientReceive
    PROVE  TransferInv'
<1>1. ClientTyped /\ SequencesCarry /\ UnderwayTyped /\ WindowInv /\ AllKept
  BY DEF TransferInv
<1>2. PICK a \in toClient :
         pending' = Without(pending, {m \in DOMAIN pending :
                       \E s \in pending[m].sequences : PacketSequenceAcked(a.ack, a.ackBits, s)})
  BY DEF ClientReceive
<1> DEFINE acked == {m \in DOMAIN pending :
                       \E s \in pending[m].sequences : PacketSequenceAcked(a.ack, a.ackBits, s)}
<1>3. pending' = Without(pending, acked)
  BY <1>2
<1>4. UNCHANGED <<nextPacketSequence, created, sending, due, resending, abandoned, toServer,
                  toClient, ack, receivedSeqs, Underway, Taken, refused>>
  BY DEF ClientReceive, serverVars, Underway, Taken
<1>5. ASSUME NEW m \in acked, m.class \in Supported
      PROVE  m \in Taken
  <2>1. PICK s \in pending[m].sequences : PacketSequenceAcked(a.ack, a.ackBits, s)
    BY <1>5
  <2>2. s \in Nat /\ Packet(s, m) \in toServer
    BY <1>1, <1>5 DEF ClientTyped, Tracked, SequencesCarry
  <2>3. PICK p \in toServer : p.sequence = s /\ (p.message.class \in Supported => p.message \in Taken)
    BY <1>1, <2>1, <2>2 DEF WindowInv, Took
  <2>4. p = Packet(s, m)
    BY <1>1, <2>2, <2>3 DEF SequencesCarry, Packet
  <2> QED
    BY <1>5, <2>3, <2>4 DEF Packet
<1> HIDE DEF acked
<1>6. ClientTyped' /\ SequencesCarry' /\ DOMAIN pending' = DOMAIN pending \ acked
  BY <1>1, <1>3, <1>4, WithoutSome
<1>7. WindowInv'
  BY <1>1, <1>4, WindowKept
<1>8. AllKept'
  BY <1>1, <1>4, <1>5, <1>6 DEF AllKept
<1>9. UnderwayTyped'
  BY <1>1, <1>4 DEF UnderwayTyped
<1> QED
  BY <1>6, <1>7, <1>8, <1>9 DEF TransferInv

LEMMA AcceptTransfer ==
    ASSUME TransferInv, AcceptPacket
    PROVE  TransferInv'
<1>1. ClientTyped /\ SequencesCarry /\ UnderwayTyped /\ WindowInv /\ AllKept
  BY DEF TransferInv
<1>2. PICK p \in toServer :
         RecordPacket(p) /\ accepting' = {[message |-> p.message, session |-> expiries]}
  BY DEF AcceptPacket
<1>3. /\ toClient' = toClient \cup {[ack |-> ack', ackBits |-> ackBits']}
      /\ UNCHANGED <<held, clientVars, toServer>> /\ accepting = {}
  BY DEF AcceptPacket
<1>4. ClientTyped' /\ SequencesCarry'
  BY <1>1, <1>3 DEF ClientTyped, SequencesCarry, clientVars
<1>5. /\ Underway' = {p.message} /\ Taken \subseteq Taken'
      /\ p.message.class \in Supported => p.message \in Taken'
  BY <1>2, <1>3 DEF Underway, Taken
<1>6. AllKept' /\ UnderwayTyped'
  BY <1>1, <1>3, <1>5 DEF AllKept, UnderwayTyped, ClientTyped, Packets, clientVars
<1> DEFINE received == receivedSeqs \cup {p.sequence}
<1>7. /\ ack' = Newest(ack, p.sequence) /\ ackBits' = AckBits(ack', received)
      /\ receivedSeqs' = PruneReceived(ack', received)
  BY <1>2 DEF RecordPacket
<1>8. p.sequence \in Nat /\ p.sequence # 0
  BY <1>1 DEF ClientTyped, Packets
<1>9. ack' \in Nat /\ received \in SUBSET Nat /\ (ack' # 0 => ack' \in received)
  BY <1>1, <1>7, <1>8 DEF Newest, WindowInv
<1>10. \A s \in received : Took(s)'
  <2>1. Took(p.sequence)'
    BY <1>3, <1>5 DEF Took
  <2> QED
    BY <1>1, <1>3, <1>5, <2>1, TookKept DEF WindowInv
<1> HIDE DEF received
<1>11. receivedSeqs' \subseteq received /\ (ack' # 0 => ack' \in receivedSeqs')
  BY <1>7, <1>9, WindowAssumption DEF PruneReceived
<1>12. ackBits' \in SUBSET Nat
  BY <1>7, WindowAssumption DEF AckBits
<1>13. ASSUME NEW a \in toClient', NEW s \in Nat, PacketSequenceAcked(a.ack, a.ackBits, s)
       PROVE  Took(s)'
  <2>1. CASE a \in toClient
    BY <1>1, <1>3, <1>5, <1>13, <2>1, TookKept DEF WindowInv
  <2>2. CASE a.ack = ack' /\ a.ackBits = ackBits'
    <3>1. s \in received
      BY <1>7, <1>9, <1>13, <2>2, WindowNames
    <3> QED
      BY <1>10, <3>1
  <2> QED
    BY <1>3, <1>13, <2>1, <2>2
<1>14. toClient' \subseteq Acks
  <2>1. [ack |-> ack', ackBits |-> ackBits'] \in Acks
    BY <1>9, <1>12 DEF Acks
  <2> QED
    BY <1>1, <1>3, <2>1 DEF WindowInv
<1>15. WindowInv'
  BY <1>9, <1>10, <1>11, <1>13, <1>14 DEF WindowInv
<1> QED
  BY <1>4, <1>6, <1>15 DEF TransferInv

(* What was under way is taken in. *)
LEMMA TakeInTransfer ==
    ASSUME TransferInv, TakeIn
    PROVE  TransferInv'
<1>1. ClientTyped /\ SequencesCarry /\ UnderwayTyped /\ WindowInv /\ AllKept
  BY DEF TransferInv
<1>2. PICK t \in accepting :
         /\ accepting' = accepting \ {t}
         /\ held' = IF t.message.class \in Supported \cup {"unreliable"}
                    THEN held \cup {t.message} ELSE held
  BY DEF TakeIn
<1>3. UNCHANGED <<ack, receivedSeqs, clientVars, toServer, toClient>>
  BY DEF TakeIn
<1>4. ClientTyped' /\ SequencesCarry'
  BY <1>1, <1>3 DEF ClientTyped, SequencesCarry, clientVars
<1>5. Underway' \subseteq Underway
  BY <1>2 DEF Underway
<1>6. Taken \subseteq Taken'
  BY <1>2 DEF Taken, Underway
<1>7. UnderwayTyped' /\ AllKept'
  BY <1>1, <1>3, <1>5, <1>6 DEF UnderwayTyped, AllKept, clientVars
<1>8. WindowInv'
  BY <1>1, <1>3, <1>6, WindowKept
<1> QED
  BY <1>4, <1>7, <1>8 DEF TransferInv

(* An expired session forgets its window; what it took in stays taken. *)
LEMMA ExpireTransfer ==
    ASSUME TransferInv, Expire
    PROVE  TransferInv'
<1>1. ClientTyped /\ SequencesCarry /\ UnderwayTyped /\ WindowInv /\ AllKept
  BY DEF TransferInv
<1>2. /\ ack' = 0 /\ receivedSeqs' = {}
      /\ UNCHANGED <<accepting, held, clientVars, toServer, toClient>>
  BY DEF Expire
<1>3. Underway' = Underway /\ Taken' = Taken
  BY <1>2 DEF Underway, Taken
<1>4. ClientTyped' /\ SequencesCarry' /\ UnderwayTyped' /\ AllKept'
  BY <1>1, <1>2, <1>3 DEF ClientTyped, SequencesCarry, UnderwayTyped, AllKept, clientVars
<1>5. WindowInv'
  BY <1>1, <1>2, <1>3, TookKept DEF WindowInv
<1> QED
  BY <1>4, <1>5 DEF TransferInv

-----------------------------------------------------------------------------
LEMMA InitIInv == Init => IInv
<1> SUFFICES ASSUME Init PROVE IInv
  OBVIOUS
<1>1. SessionInv
  BY FreshSession DEF Init
<1> QED
  BY <1>1, InitTransfer DEF IInv

LEMMA NextIInv ==
    ASSUME IInv, [Next]_vars
    PROVE  IInv'
<1>1. SessionInv /\ TransferInv /\ UnderwayTyped
  BY DEF IInv, TransferInv
<1>2. SessionInv'
  <2>1. CASE TakeIn
    BY <1>1, <2>1, TakeInSession
  <2>2. CASE Expire
    BY <2>2, ExpireSession
  <2>3. CASE UNCHANGED <<receiver, dispatched, arrived>>
    BY <1>1, <2>3, SessionKept
  <2> QED
    BY <2>1, <2>2, <2>3 DEF Next, vars, serverVars, SendMessage, SendMessageFails, TrackMessage,
       UpdateBegin, ResendBegin, ResendFails, ResendEnd, ClientReceive, AcceptPacket
<1>3. TransferInv'
  <2>1. CASE UNCHANGED vars
    BY <1>1, <2>1 DEF vars, clientVars, serverVars, TransferInv, ClientTyped, SequencesCarry,
       UnderwayTyped, WindowInv, Took, AllKept, Taken, Underway
  <2>2. CASE Next
    BY <1>1, <2>2, SendTransfer, SendFailsTransfer, TrackTransfer, UpdateTransfer,
       ResendBeginTransfer, ResendFailsTransfer, ResendEndTransfer, ClientReceiveTransfer,
       AcceptTransfer, TakeInTransfer, ExpireTransfer DEF Next
  <2> QED
    BY <2>1, <2>2
<1> QED
  BY <1>2, <1>3 DEF IInv

LEMMA Invariance == Spec => []IInv
<1>1. IInv /\ [Next]_vars => IInv'
  BY NextIInv
<1> QED
  BY <1>1, InitIInv, PTL DEF Spec

(* acceptReliableIncomingMessages hands ordered messages on in ID order from
   1, none missing and none twice, in every session. *)
THEOREM DispatchInOrder == Spec => []OrderedInOrder
<1>1. IInv => OrderedInOrder
  BY DEF IInv, SessionInv
<1> QED
  BY <1>1, Invariance, PTL

(* acceptReliableIncomingMessages hands an unordered message on once per
   session, however often its packets are resent or repeated. *)
THEOREM DispatchOnce == Spec => []UnorderedOnce
<1>1. IInv => UnorderedOnce
  BY DEF IInv, SessionInv
<1> QED
  BY <1>1, Invariance, PTL

(* The release loop of acceptReliableIncomingMessages leaves no ordered
   message in the buffer whose predecessors have all arrived. *)
THEOREM DispatchAtOnce == Spec => []NothingDispatchableWaits
<1>1. ASSUME IInv PROVE NothingDispatchableWaits
  <2> SUFFICES ASSUME "ordered" \in Supported, NEW k \in 1 .. Quota["ordered"],
                      \A j \in 1 .. k : Message("ordered", j) \in arrived
               PROVE  k < receiver.next
    BY DEF NothingDispatchableWaits
  <2> SUFFICES ASSUME ~(k < receiver.next) PROVE FALSE
    OBVIOUS
  <2>1. /\ receiver.next \in Nat /\ receiver.next >= 1
        /\ receiver.received = 1 .. receiver.next - 1 /\ \A j \in receiver.buffer : j > receiver.next
    BY <1>1 DEF IInv, SessionInv, ReceiverInv, Receivers
  <2>2. receiver.next \in 1 .. k
    BY <2>1
  <2>3. receiver.next \in receiver.received \cup receiver.buffer
    BY <1>1, <2>2 DEF IInv, SessionInv, AllArrivedKept, Message
  <2> QED
    BY <2>1, <2>3
<1> QED
  BY <1>1, Invariance, PTL

(* RemoveAckedReliableMessages and UpdateAsync let go of a message only when
   the server has taken it in or has recorded its packet and is about to, or
   its attempts are used up, and SendMessageAsync loses one only with an
   exception: no interleaving of awaits, failing sends, acknowledgements sent
   between the server's two critical sections and expired sessions loses one
   silently. *)
THEOREM NoneLost == Spec => []NoSilentLoss
<1>1. ASSUME IInv PROVE NoSilentLoss
  <2> SUFFICES ASSUME NEW m \in ReliableMessages, m.class \in Supported, ~(m.id > created[m.class])
               PROVE  m \in {p.message : p \in sending} \cup DOMAIN pending \cup Taken \cup abandoned
                              \cup refused
    BY DEF NoSilentLoss, Taken
  <2>1. PICK s \in Scenarios, class \in Reliable : \E id \in 1 .. s.quota[class] : m = Message(class, id)
    BY DEF ReliableMessages
  <2>2. PICK id \in 1 .. s.quota[class] : m = Message(class, id)
    BY <2>1
  <2>3. s.quota[class] \in Nat /\ class \in Classes
    BY ScenariosAssumption DEF Reliable, Classes
  <2>4. m \in Numbered /\ m.class = class /\ m.id = id /\ id \in Nat
    BY <2>2, <2>3 DEF Numbered, Messages, Message
  <2>5. created[class] \in Nat
    BY <1>1, <2>3 DEF IInv, TransferInv, ClientTyped
  <2>6. m.id <= created[m.class]
    BY <2>4, <2>5
  <2> QED
    BY <1>1, <2>4, <2>6 DEF IInv, TransferInv, AllKept
<1> QED
  BY <1>1, Invariance, PTL
==============================================================================
