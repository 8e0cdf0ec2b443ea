----------------------- MODULE ReliableReceiverProofs -----------------------
(***************************************************************************)
(* Facts about the receive window and the reliable receiver that the       *)
(* proofs of both directions of reliable delivery rest on.                 *)
(***************************************************************************)
EXTENDS PacketWindow, ReliableReceiver, FiniteSetTheorems, SequenceTheorems,
        WellFoundedInduction, TLAPS

Messages == [class : Classes, id : Nat]
Receivers == [unordered : SUBSET Nat, next : Nat, received : SUBSET Nat, buffer : SUBSET Nat]

(* The IDs dispatched are those before the next one, and what is buffered
   comes after it. *)
ReceiverInv(r) ==
    /\ r \in Receivers /\ r.next >= 1
    /\ r.received = 1 .. r.next - 1
    /\ IsFiniteSet(r.buffer) /\ \A j \in r.buffer : j > r.next

LEMMA NewReceiverInv == ReceiverInv(NewReceiver)
<1>1. NewReceiver \in Receivers
  BY DEF NewReceiver, Receivers
<1>2. IsFiniteSet({})
  BY FS_EmptySet
<1> QED
  BY <1>1, <1>2 DEF NewReceiver, ReceiverInv

LEMMA LeastNat ==
    ASSUME NEW T, T \subseteq Nat, T # {}
    PROVE  \E n \in T : \A m \in T : n <= m
<1>1. IsWellFoundedOn(OpToRel(<, Nat), Nat)
  BY NatLessThanWellFounded
<1>2. PICK n \in T : \A m \in T : ~(<<m, n>> \in OpToRel(<, Nat))
  BY <1>1, WFMin
<1>3. \A m \in T : ~(m < n)
  BY <1>2 DEF OpToRel
<1> QED
  BY <1>3

(* The release loop takes exactly the buffered IDs that follow one another,
   and ends at one that is missing. *)
LEMMA GapIsFirst ==
    ASSUME NEW B \in SUBSET Nat, IsFiniteSet(B), NEW n \in Nat
    PROVE  /\ Gap(B, n) \in Nat /\ Gap(B, n) >= n
           /\ Gap(B, n) \notin B /\ n .. Gap(B, n) - 1 \subseteq B
<1> DEFINE missing == {j \in Nat : n <= j /\ j \notin B}
           T == {j \in B : n <= j /\ n .. j \subseteq B}
<1>1. missing # {}
  <2> SUFFICES ASSUME missing = {} PROVE FALSE
    OBVIOUS
  <2> DEFINE c == Cardinality(B)
  <2>1. c \in Nat
    BY FS_CardinalityType
  <2> HIDE DEF c
  <2>2. n .. n + c \subseteq B
    BY <2>1
  <2>3. Cardinality(n .. n + c) = c + 1
    BY <2>1, FS_Interval
  <2>4. Cardinality(n .. n + c) <= c
    BY <2>2, FS_Subset DEF c
  <2> QED
    BY <2>1, <2>3, <2>4
<1>2. PICK g \in missing : \A j \in missing : g <= j
  BY <1>1, LeastNat
<1>3. g \in Nat /\ n <= g /\ g \notin B
  BY <1>2
<1>4. T = n .. g - 1
  <2>1. ASSUME NEW j \in T PROVE j \in n .. g - 1
    <3>1. j \in Nat /\ n <= j /\ n .. j \subseteq B
      OBVIOUS
    <3> QED
      BY <1>3, <3>1
  <2>2. \A k \in n .. g - 1 : k \in B
    BY <1>2, <1>3
  <2>3. ASSUME NEW j \in n .. g - 1 PROVE j \in T
    <3>1. n .. j \subseteq n .. g - 1
      BY <1>3
    <3> QED
      BY <2>2, <3>1
  <2> QED
    BY <2>1, <2>3
<1>5. Cardinality(T) = g - n
  <2>1. n \in Int /\ g - 1 \in Int
    BY <1>3
  <2>2. Cardinality(n .. g - 1) = IF n > g - 1 THEN 0 ELSE g - 1 - n + 1
    BY <2>1, FS_Interval
  <2>3. (IF n > g - 1 THEN 0 ELSE g - 1 - n + 1) = g - n
    BY <1>3
  <2> QED
    BY <1>4, <2>2, <2>3
<1>6. Gap(B, n) = g
  BY <1>3, <1>5 DEF Gap
<1>7. n .. g - 1 \subseteq B
  BY <1>4
<1> QED
  BY <1>3, <1>6, <1>7

(* The receiver that releases the messages in turn. *)
LEMMA ReceiveInTurn ==
    ASSUME NEW r, ReceiverInv(r), NEW m \in Messages, InTurn(r, m), ~Ignores(r, m)
    PROVE  LET end == Gap(r.buffer, r.next + 1)
           IN  /\ end \in Nat /\ end >= r.next + 1
               /\ ReceiverInv(Receive(r, m)) /\ Receive(r, m).next = end
               /\ Receive(r, m).unordered = r.unordered
               /\ r.buffer \subseteq Receive(r, m).received \cup Receive(r, m).buffer
<1>0. /\ r.next \in Nat /\ r.received \in SUBSET Nat /\ r.buffer \in SUBSET Nat
      /\ r.unordered \in SUBSET Nat /\ r \in Receivers
      /\ r.next >= 1 /\ r.received = 1 .. r.next - 1 /\ IsFiniteSet(r.buffer)
      /\ \A j \in r.buffer : j > r.next
  BY DEF Receivers, ReceiverInv
<1> DEFINE end == Gap(r.buffer, r.next + 1)
           D == r.received \cup r.next .. end - 1
           B == r.buffer \ (r.next .. end - 1)
           c == [r EXCEPT !.next = end, !.received = D, !.buffer = B]
<1>1. Receive(r, m) = c
  BY DEF Receive, InTurn
<1>2. end \in Nat /\ end >= r.next + 1 /\ end \notin r.buffer
  BY <1>0, GapIsFirst
<1> HIDE DEF end
<1>3. D = 1 .. end - 1 /\ D \in SUBSET Nat
  BY <1>0, <1>2
<1>4. B \in SUBSET Nat /\ r.buffer \subseteq D \cup B /\ \A j \in B : j > end
  BY <1>0, <1>2
<1>5. IsFiniteSet(B)
  BY <1>0, FS_Difference
<1> HIDE DEF D, B
<1>6. /\ c \in Receivers /\ c.unordered = r.unordered /\ c.next = end
      /\ c.received = D /\ c.buffer = B
  BY <1>0, <1>2, <1>3, <1>4 DEF Receivers
<1> HIDE DEF c
<1>7. ReceiverInv(c)
  <2>1. c.next >= 1
    BY <1>0, <1>2, <1>6
  <2>2. c.received = 1 .. c.next - 1
    BY <1>3, <1>6
  <2>3. IsFiniteSet(c.buffer) /\ \A j \in c.buffer : j > c.next
    BY <1>4, <1>5, <1>6
  <2> QED
    BY <1>6, <2>1, <2>2, <2>3 DEF ReceiverInv
<1> QED
  BY <1>1, <1>2, <1>4, <1>6, <1>7 DEF end

(* What the receiver had it still has, and it has the message it was given,
   dispatched or waiting. *)
LEMMA ReceiveKeeps ==
    ASSUME NEW r, ReceiverInv(r), NEW m \in Messages
    PROVE  /\ ReceiverInv(Receive(r, m)) /\ r.next <= Receive(r, m).next
           /\ r.unordered \subseteq Receive(r, m).unordered
           /\ r.received \cup r.buffer \subseteq Receive(r, m).received \cup Receive(r, m).buffer
           /\ m.class = "unordered" /\ m.id # 0 => m.id \in Receive(r, m).unordered
           /\ m.class = "ordered" /\ m.id # 0 =>
                 m.id \in Receive(r, m).received \cup Receive(r, m).buffer
           /\ m.class # "ordered" => Receive(r, m).next = r.next
           /\ m.class # "unordered" => Receive(r, m).unordered = r.unordered
<1>0. /\ r.next \in Nat /\ r.received \in SUBSET Nat /\ r.buffer \in SUBSET Nat
      /\ r.unordered \in SUBSET Nat /\ m.id \in Nat /\ m.class \in Classes /\ r \in Receivers
      /\ r.next >= 1 /\ r.received = 1 .. r.next - 1 /\ IsFiniteSet(r.buffer)
      /\ \A j \in r.buffer : j > r.next
  BY DEF Receivers, Messages, ReceiverInv
<1>1. CASE Ignores(r, m) \/ m.class = "unreliable"
  <2>1. Receive(r, m) = r
    BY <1>1 DEF Receive, InTurn
  <2>2. m.class = "ordered" /\ m.id # 0 /\ m.id < r.next => m.id \in r.received
    BY <1>0
  <2> QED
    BY <1>0, <1>1, <2>1, <2>2 DEF Ignores
<1>2. CASE ~Ignores(r, m) /\ m.class = "unordered"
  <2> DEFINE c == [r EXCEPT !.unordered = @ \cup {m.id}]
  <2>1. Receive(r, m) = c
    BY <1>2 DEF Receive, InTurn
  <2>2. /\ c \in Receivers /\ c.unordered = r.unordered \cup {m.id} /\ c.next = r.next
        /\ c.received = r.received /\ c.buffer = r.buffer
    BY <1>0 DEF Receivers
  <2> HIDE DEF c
  <2>3. ReceiverInv(c)
    BY <1>0, <2>2 DEF ReceiverInv
  <2> QED
    BY <1>0, <1>2, <2>1, <2>2, <2>3
<1>3. CASE ~Ignores(r, m) /\ InTurn(r, m)
  <2>1. /\ Receive(r, m).next \in Nat /\ Receive(r, m).next >= r.next + 1
        /\ ReceiverInv(Receive(r, m)) /\ Receive(r, m).unordered = r.unordered
        /\ r.buffer \subseteq Receive(r, m).received \cup Receive(r, m).buffer
    BY <1>3, ReceiveInTurn
  <2>2. Receive(r, m).received = 1 .. Receive(r, m).next - 1
    BY <2>1 DEF ReceiverInv
  <2> HIDE DEF Receive
  <2>3. r.received \subseteq Receive(r, m).received /\ r.next \in Receive(r, m).received
    BY <1>0, <2>1, <2>2
  <2> QED
    BY <1>0, <1>3, <2>1, <2>3 DEF InTurn
<1>4. CASE ~Ignores(r, m) /\ ~InTurn(r, m) /\ m.class = "ordered"
  <2> DEFINE c == [r EXCEPT !.buffer = @ \cup {m.id}]
  <2>1. Receive(r, m) = c
    BY <1>4 DEF Receive
  <2>2. /\ c \in Receivers /\ c.unordered = r.unordered /\ c.next = r.next
        /\ c.received = r.received /\ c.buffer = r.buffer \cup {m.id}
    BY <1>0 DEF Receivers
  <2>3. IsFiniteSet(r.buffer \cup {m.id})
    BY <1>0, FS_AddElement
  <2>4. m.id > r.next
    BY <1>0, <1>4 DEF Ignores, InTurn
  <2> HIDE DEF c
  <2>5. ReceiverInv(c)
    BY <1>0, <2>2, <2>3, <2>4 DEF ReceiverInv
  <2> QED
    BY <1>0, <1>4, <2>1, <2>2, <2>5
<1> QED
  BY <1>0, <1>1, <1>2, <1>3, <1>4 DEF Classes

(* Ordered messages are dispatched from the next one to the new next one. *)
LEMMA DispatchesOrdered ==
    ASSUME NEW r, ReceiverInv(r), NEW m \in Messages, m.class = "ordered"
    PROVE  /\ Dispatches(r, m) \in Seq(Nat)
           /\ Len(Dispatches(r, m)) = Receive(r, m).next - r.next
           /\ \A i \in 1 .. Len(Dispatches(r, m)) : Dispatches(r, m)[i] = r.next + i - 1
<1>0. r.next \in Nat
  BY DEF ReceiverInv, Receivers
<1>1. CASE Ignores(r, m)
  <2>1. Dispatches(r, m) = << >> /\ Receive(r, m) = r
    BY <1>1 DEF Dispatches, Receive
  <2> QED
    BY <1>0, <2>1
<1>2. CASE ~Ignores(r, m) /\ InTurn(r, m)
  <2> DEFINE n == Receive(r, m).next - r.next
             d == [i \in 1 .. n |-> r.next + i - 1]
  <2>1. /\ Receive(r, m).next \in Nat /\ Receive(r, m).next >= r.next + 1
        /\ Receive(r, m).next = Gap(r.buffer, r.next + 1)
    BY <1>2, ReceiveInTurn
  <2>2. Dispatches(r, m) = d
    BY <1>2, <2>1 DEF Dispatches
  <2>3. n \in Nat
    BY <1>0, <2>1
  <2> HIDE DEF n
  <2>4. d \in Seq(Nat) /\ Len(d) = n /\ \A i \in 1 .. n : d[i] = r.next + i - 1
    BY <1>0, <2>3
  <2> QED
    BY <2>2, <2>4 DEF n
<1>3. CASE ~Ignores(r, m) /\ ~InTurn(r, m)
  <2> DEFINE c == [r EXCEPT !.buffer = @ \cup {m.id}]
  <2>1. Dispatches(r, m) = << >> /\ Receive(r, m) = c
    BY <1>3 DEF Dispatches, Receive
  <2>2. c.next = r.next
    BY DEF ReceiverInv, Receivers
  <2> QED
    BY <1>0, <2>1, <2>2
<1> QED
  BY <1>1, <1>2, <1>3

(* An unordered message is dispatched when it is new. *)
LEMMA DispatchesUnordered ==
    ASSUME NEW r, ReceiverInv(r), NEW m \in Messages, m.class = "unordered"
    PROVE  \/ Dispatches(r, m) = << >> /\ Receive(r, m) = r
           \/ /\ Dispatches(r, m) = <<m.id>> /\ m.id \notin r.unordered
              /\ Receive(r, m).unordered = r.unordered \cup {m.id}
<1>1. CASE Ignores(r, m)
  BY <1>1 DEF Dispatches, Receive
<1>2. CASE ~Ignores(r, m)
  <2> DEFINE c == [r EXCEPT !.unordered = @ \cup {m.id}]
  <2>1. Receive(r, m) = c /\ Dispatches(r, m) = <<m.id>>
    BY <1>2 DEF Receive, Dispatches, InTurn
  <2>2. c.unordered = r.unordered \cup {m.id}
    BY DEF ReceiverInv, Receivers
  <2>3. m.id \notin r.unordered
    BY <1>2 DEF Ignores
  <2> QED
    BY <2>1, <2>2, <2>3
<1> QED
  BY <1>1, <1>2

(* ack and ack_bits name only sequences the window holds. *)
LEMMA WindowNames ==
    ASSUME NEW a \in Nat, NEW R \in SUBSET Nat, NEW s \in Nat, a # 0 => a \in R,
           PacketSequenceAcked(a, AckBits(a, R), s)
    PROVE  s \in R
<1>1. a # 0 /\ (s = a \/ (s < a /\ a - s - 1 \in AckBits(a, R)))
  BY DEF PacketSequenceAcked
<1>2. CASE s < a /\ a - s - 1 \in AckBits(a, R)
  <2>1. a - (a - s - 1) - 1 \in R
    BY <1>2 DEF AckBits
  <2>2. a - (a - s - 1) - 1 = s
    BY <1>2
  <2> QED
    BY <2>1, <2>2
<1> QED
  BY <1>1, <1>2
=============================================================================
