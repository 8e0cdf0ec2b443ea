-------------------------- MODULE UDPClientProofs --------------------------
(***************************************************************************)
(* What the server keeps for each client, for every value of the           *)
(* constants: the receive window, the token bucket, the buffered inputs    *)
(* and the record of what was negotiated; then the codec, from integers to *)
(* datagrams, and what it means for a session over bytes.                  *)
(***************************************************************************)
EXTENDS ReceiveWindow, BandwidthBudget, InputBuffer, WireSession, FiniteSetTheorems,
        SequenceTheorems, WellFoundedInduction, TLAPS

-----------------------------------------------------------------------------
(* Induction and recursion up to a bound. *)

(* Induction over the natural numbers, for a set of them. *)
LEMMA InductionUpTo ==
    ASSUME NEW N \in Nat, NEW S, 0 \in S,
           \A n \in 1 .. N : n - 1 \in S => n \in S
    PROVE  \A n \in 0 .. N : n \in S
<1> DEFINE missing == {n \in 0 .. N : n \notin S}
<1> SUFFICES ASSUME missing # {} PROVE FALSE
  OBVIOUS
<1>1. IsWellFoundedOn(OpToRel(<, Nat), Nat)
  BY NatLessThanWellFounded
<1>2. missing \subseteq Nat
  OBVIOUS
<1>3. PICK n \in missing : \A m \in missing : ~(<<m, n>> \in OpToRel(<, Nat))
  BY <1>1, <1>2, WFMin
<1>4. \A m \in missing : ~(m < n)
  BY <1>2, <1>3 DEF OpToRel
<1>5. n \in 1 .. N /\ n - 1 \in 0 .. N /\ n - 1 < n
  <2>1. n \in 0 .. N /\ n # 0
    BY <1>3
  <2> QED
    BY <2>1
<1>6. n - 1 \in S
  BY <1>4, <1>5
<1> QED
  BY <1>3, <1>5, <1>6

Iterates(f, T, start, N, step) ==
    f \in [0 .. N -> T] /\ f[0] = start /\ \A n \in 1 .. N : f[n] = step[n][f[n - 1]]

(* A function on 0 .. N may be defined by its value at 0 and a step. *)
LEMMA PrimitiveRecursion ==
    ASSUME NEW T, NEW start \in T, NEW N \in Nat, NEW step,
           \A n \in 1 .. N, t \in T : step[n][t] \in T
    PROVE  \E f : Iterates(f, T, start, N, step)
<1> DEFINE Computes(f, k) == f \in [0 .. k -> T] /\ f[0] = start
                               /\ \A n \in 1 .. k : f[n] = step[n][f[n - 1]]
           S == {k \in 0 .. N : \E f : Computes(f, k)}
<1>1. 0 \in S
  <2>1. Computes([n \in 0 .. 0 |-> start], 0)
    OBVIOUS
  <2>2. 0 \in 0 .. N
    OBVIOUS
  <2> HIDE DEF Computes
  <2> QED
    BY <2>1, <2>2
<1>2. ASSUME NEW k \in 1 .. N, k - 1 \in S
      PROVE  k \in S
  <2>1. PICK f : Computes(f, k - 1)
    BY <1>2
  <2> DEFINE g == [n \in 0 .. k |-> IF n = k THEN step[k][f[k - 1]] ELSE f[n]]
  <2>2. k - 1 \in 0 .. k - 1 /\ f[k - 1] \in T
    BY <2>1
  <2>3. step[k][f[k - 1]] \in T
    BY <2>2
  <2>4. g \in [0 .. k -> T] /\ g[0] = start
    BY <2>1, <2>3
  <2>5. ASSUME NEW n \in 1 .. k
        PROVE  g[n] = step[n][g[n - 1]]
    <3>1. n - 1 \in 0 .. k - 1 /\ g[n - 1] = f[n - 1]
      BY <2>5
    <3>2. CASE n = k
      BY <3>1, <3>2
    <3>3. CASE n # k
      <4>1. n \in 1 .. k - 1
        BY <3>3
      <4> QED
        BY <2>1, <3>1, <4>1
    <3> QED
      BY <3>2, <3>3
  <2>6. Computes(g, k)
    BY <2>4, <2>5
  <2>7. k \in 0 .. N
    OBVIOUS
  <2> HIDE DEF Computes
  <2> QED
    BY <2>6, <2>7
<1>3. N \in S
  <2> HIDE DEF S
  <2>1. \A n \in 0 .. N : n \in S
    BY <1>1, <1>2, InductionUpTo
  <2> QED
    BY <2>1
<1> QED
  BY <1>3 DEF Iterates

-----------------------------------------------------------------------------
(* The receive window. *)

(* What the window still knows of the past: receivedSeqs holds accepted
   sequences only, and every accepted sequence that ack_bits can name. *)
WindowInv ==
    /\ \A s \in receivedSeqs : s # 0 /\ s <= ack /\ timesAccepted[s] = 1
    /\ \A s \in Sequences \ {0} :
          timesAccepted[s] > 0 =>
             /\ timesAccepted[s] = 1
             /\ s <= ack
             /\ s + Window >= ack => s \in receivedSeqs
    /\ ack > 0 => ack \in receivedSeqs
    /\ ackBits = AckBits(ack, receivedSeqs)

WindowIInv == WindowTypeOK /\ WindowInv

(* A sum below SeqSpace does not wrap, so the guard of acceptClientRequest
   recognises every sequence that the window has moved past. *)
LEMMA NoWrap ==
    ASSUME NEW a \in Sequences, NEW s \in Sequences, s + Window < a
    PROVE  TooOld(a, s)
<1>1. (s + Window) \in 0 .. SeqSpace - 1
  BY WindowAssumption, SeqSpaceAssumption DEF Sequences
<1>2. \A x \in 0 .. SeqSpace - 1 : x % SeqSpace = x
  BY SeqSpaceAssumption
<1> QED
  BY <1>1, <1>2, WindowAssumption, SeqSpaceAssumption DEF TooOld, Sequences

(* ack_bits computed before pruning are those computed after it: pruning
   keeps every sequence a bit can stand for. *)
LEMMA PruneKeepsBits ==
    ASSUME NEW a \in Nat, NEW R \in SUBSET Nat
    PROVE  AckBits(a, R) = AckBits(a, PruneReceived(a, R))
<1>1. ASSUME NEW offset \in 0 .. Window - 1, offset < a
      PROVE  a - offset - 1 \in R <=> a - offset - 1 \in PruneReceived(a, R)
  <2>1. a - offset - 1 \in Nat /\ a - offset - 1 >= a - Window
    BY <1>1, WindowAssumption
  <2> QED
    BY <2>1 DEF PruneReceived
<1> QED
  BY <1>1, Zenon DEF AckBits

(* The type invariant and the window invariant hold initially. *)
LEMMA WindowInitIInv == WindowInit => WindowIInv
BY WindowAssumption, SeqSpaceAssumption
   DEF WindowInit, WindowIInv, WindowTypeOK, WindowInv, Sequences, BitSets, AckBits

(* acceptClientRequest preserves them. *)
LEMMA WindowAcceptIInv ==
    ASSUME WindowIInv, NEW sequence \in Sequences, Accept(sequence)
    PROVE  WindowIInv'
<1> DEFINE newAck == IF sequence > ack THEN sequence ELSE ack
           received == receivedSeqs \cup {sequence}
<1>0. /\ sequence # 0 /\ sequence \notin receivedSeqs /\ ~TooOld(ack, sequence)
      /\ ack' = newAck
      /\ ackBits' = AckBits(newAck, received)
      /\ receivedSeqs' = PruneReceived(newAck, received)
      /\ timesAccepted' = [timesAccepted EXCEPT ![sequence] = @ + 1]
  BY DEF Accept, Newest
<1>1. /\ newAck \in Sequences /\ newAck \in Nat /\ newAck >= ack
      /\ newAck >= sequence /\ (newAck = ack \/ newAck = sequence)
  BY DEF WindowIInv, WindowTypeOK, Sequences
<1>2. received \in SUBSET Sequences /\ received \in SUBSET Nat
  BY DEF WindowIInv, WindowTypeOK, Sequences
<1>3. timesAccepted[sequence] = 0
  <2>1. timesAccepted[sequence] \in Nat
    BY <1>0 DEF WindowIInv, WindowTypeOK
  <2>2. SUFFICES ASSUME timesAccepted[sequence] > 0 PROVE FALSE
    BY <2>1
  <2>3. ~(sequence + Window >= ack)
    BY <1>0, <2>2 DEF WindowIInv, WindowInv
  <2>4. sequence + Window < ack
    BY <2>3, WindowAssumption DEF WindowIInv, WindowTypeOK, Sequences
  <2> QED
    BY <2>4, NoWrap, <1>0 DEF WindowIInv, WindowTypeOK
<1>4. /\ timesAccepted' \in [Sequences \ {0} -> Nat]
      /\ timesAccepted'[sequence] = 1
      /\ \A s \in Sequences \ {0, sequence} : timesAccepted'[s] = timesAccepted[s]
  BY <1>0, <1>3 DEF WindowIInv, WindowTypeOK
<1>5. receivedSeqs' \subseteq received
  BY <1>0 DEF PruneReceived
<1>6. \A s \in received : s + Window >= newAck => s \in receivedSeqs'
  BY <1>0, <1>1, <1>2, WindowAssumption DEF PruneReceived
<1>7. WindowTypeOK'
  <2>1. ackBits' \in BitSets
    BY <1>0 DEF AckBits, BitSets
  <2> QED
    BY <1>0, <1>1, <1>2, <1>4, <1>5, <2>1 DEF WindowTypeOK
<1>8. \A s \in receivedSeqs' : s # 0 /\ s <= ack' /\ timesAccepted'[s] = 1
  <2> TAKE s \in receivedSeqs'
  <2>1. s \in received /\ s \in Sequences
    BY <1>2, <1>5
  <2>2. CASE s = sequence
    BY <2>2, <1>0, <1>1, <1>4
  <2>3. CASE s # sequence
    <3>1. s \in receivedSeqs
      BY <2>1, <2>3
    <3>2. s # 0 /\ s <= ack /\ timesAccepted[s] = 1
      BY <3>1 DEF WindowIInv, WindowInv
    <3>3. s <= newAck
      BY <3>2, <2>1, <1>1 DEF Sequences, WindowIInv, WindowTypeOK
    <3> QED
      BY <3>2, <3>3, <2>1, <2>3, <1>0, <1>4
  <2> QED
    BY <2>2, <2>3
<1>9. \A s \in Sequences \ {0} :
         timesAccepted'[s] > 0 =>
            /\ timesAccepted'[s] = 1
            /\ s <= ack'
            /\ s + Window >= ack' => s \in receivedSeqs'
  <2> TAKE s \in Sequences \ {0}
  <2> HAVE timesAccepted'[s] > 0
  <2>1. CASE s = sequence
    BY <2>1, <1>0, <1>1, <1>4, <1>6
  <2>2. CASE s # sequence
    <3>1. timesAccepted'[s] = timesAccepted[s] /\ timesAccepted[s] > 0
      BY <2>2, <1>4
    <3>2. /\ timesAccepted[s] = 1
          /\ s <= ack
          /\ s + Window >= ack => s \in receivedSeqs
      BY <3>1 DEF WindowIInv, WindowInv
    <3>3. s <= newAck
      BY <3>2, <1>1 DEF Sequences, WindowIInv, WindowTypeOK
    <3>4. ASSUME s + Window >= newAck PROVE s \in receivedSeqs'
      <4>1. s + Window >= ack
        BY <3>4, <1>1, WindowAssumption DEF Sequences, WindowIInv, WindowTypeOK
      <4> QED
        BY <4>1, <3>2, <3>4, <1>6
    <3> QED
      BY <3>1, <3>2, <3>3, <3>4, <1>0
  <2> QED
    BY <2>1, <2>2
<1>10. ackBits' = AckBits(ack', receivedSeqs')
  BY <1>0, <1>1, <1>2, PruneKeepsBits
<1>11. ack' \in receivedSeqs'
  <2>1. newAck \in received
    BY <1>0, <1>1 DEF WindowIInv, WindowTypeOK, WindowInv, Sequences
  <2>2. newAck + Window >= newAck
    BY <1>1, WindowAssumption DEF Sequences
  <2> HIDE DEF newAck, received
  <2>3. newAck \in receivedSeqs'
    BY <2>1, <2>2, <1>6
  <2> QED
    BY <2>3, <1>0
<1> QED
  BY <1>7, <1>8, <1>9, <1>10, <1>11 DEF WindowIInv, WindowInv

LEMMA WindowNextIInv == WindowIInv /\ [WindowNext]_windowVars => WindowIInv'
<1> SUFFICES ASSUME WindowIInv, [WindowNext]_windowVars PROVE WindowIInv'
  OBVIOUS
<1>1. ASSUME NEW sequence \in Sequences, Accept(sequence) PROVE WindowIInv'
  BY <1>1, WindowAcceptIInv
<1>2. CASE UNCHANGED windowVars
  BY <1>2 DEF WindowIInv, WindowTypeOK, WindowInv, windowVars
<1> QED
  BY <1>1, <1>2 DEF WindowNext, ReceiveUnsequenced, Drop

(* The window invariant is inductive. *)
THEOREM WindowInvariance == WindowSpec => []WindowIInv
BY WindowInitIInv, WindowNextIInv, PTL DEF WindowSpec

(* The receive window of acceptClientRequest is well typed. *)
THEOREM TypeCorrect == WindowSpec => []WindowTypeOK
BY WindowInvariance, PTL DEF WindowIInv

(* No non-zero sequence is handled twice, whatever is sent. *)
THEOREM AcceptOnceHolds == WindowSpec => []AcceptOnce
<1>1. WindowIInv => AcceptOnce
  <2> SUFFICES ASSUME WindowIInv, NEW s \in Sequences \ {0}
               PROVE timesAccepted[s] <= 1
    BY DEF AcceptOnce
  <2>1. timesAccepted[s] \in Nat
    BY DEF WindowIInv, WindowTypeOK
  <2> QED
    BY <2>1 DEF WindowIInv, WindowInv
<1> QED
  BY <1>1, WindowInvariance, PTL

(* The acknowledgement names exactly the accepted sequences it can name. *)
THEOREM AckExactHolds == WindowSpec => []AckExact
<1>1. ASSUME WindowIInv PROVE AckExact
  <2> SUFFICES ASSUME NEW s \in Sequences \ {0}
               PROVE  PacketSequenceAcked(ack, ackBits, s)
                        <=> timesAccepted[s] > 0 /\ s + Window >= ack
    BY DEF AckExact
  <2>1. ack \in Nat /\ s \in Nat /\ s # 0
    BY <1>1 DEF WindowIInv, WindowTypeOK, Sequences
  <2>2. s \in receivedSeqs <=> timesAccepted[s] > 0 /\ s \in receivedSeqs
    BY <1>1 DEF WindowIInv, WindowInv
  <2>3. ASSUME PacketSequenceAcked(ack, ackBits, s)
        PROVE  s \in receivedSeqs /\ s + Window >= ack
    <3>1. CASE s = ack
      \* the newest sequence is itself remembered
      <4>1. s + Window >= ack
        BY <3>1, <2>1, WindowAssumption
      <4> QED
        BY <4>1, <3>1, <2>1, <1>1 DEF WindowIInv, WindowInv
    <3>2. CASE s # ack
      BY <3>2, <2>3, <2>1, <1>1, WindowAssumption
         DEF PacketSequenceAcked, WindowIInv, WindowInv, AckBits
    <3> QED
      BY <3>1, <3>2
  <2>4. ASSUME timesAccepted[s] > 0, s + Window >= ack
        PROVE  PacketSequenceAcked(ack, ackBits, s)
    <3>1. s \in receivedSeqs /\ s <= ack
      BY <2>4, <1>1 DEF WindowIInv, WindowInv
    <3> QED
      BY <3>1, <2>1, <2>4, <1>1, WindowAssumption
         DEF PacketSequenceAcked, WindowIInv, WindowInv, AckBits
  <2> QED
    BY <2>2, <2>3, <2>4
<1> QED
  BY <1>1, WindowInvariance, PTL

(* The acknowledgement never goes back, and a sequence the window has moved
   past is never accepted any more. *)
THEOREM AckAdvancesHolds == WindowSpec => AckAdvances
<1> DEFINE Step == /\ ack' >= ack
                   /\ \A s \in Sequences \ {0} :
                         s + Window < ack => timesAccepted'[s] = timesAccepted[s]
<1>1. ASSUME WindowIInv, NEW sequence \in Sequences, Accept(sequence) PROVE Step
  <2>1. ack' >= ack
    BY <1>1 DEF Accept, Newest, WindowIInv, WindowTypeOK, Sequences
  <2>2. ASSUME NEW s \in Sequences \ {0}, s + Window < ack
        PROVE  timesAccepted'[s] = timesAccepted[s]
    <3>1. s # sequence
      BY <1>1, <2>2, NoWrap DEF Accept, WindowIInv, WindowTypeOK
    <3> QED
      BY <3>1, <1>1 DEF Accept, WindowIInv, WindowTypeOK
  <2> QED
    BY <2>1, <2>2
<1>2. WindowIInv /\ [WindowNext]_windowVars => [Step]_windowVars
  BY <1>1 DEF WindowNext, ReceiveUnsequenced, Drop
<1> QED
  BY <1>2, WindowInvariance, PTL DEF WindowSpec, AckAdvances

(* Forgetting is invisible: the window implements a receiver that remembers
   every packet it ever took. *)
THEOREM ImplementsMemory == WindowSpec => MemorySpec
<1> DEFINE received == {s \in Sequences \ {0} : timesAccepted[s] > 0}
<1>1. WindowInit => Memory!Init
  BY DEF WindowInit, Memory!Init
<1>2. ASSUME WindowIInv, NEW sequence \in Sequences, Accept(sequence)
      PROVE  Memory!Next
  <2>1. sequence \in 1 .. SeqSpace - 1
    BY <1>2, SeqSpaceAssumption DEF Accept, Sequences
  <2>2. \A x \in 0 .. SeqSpace - 1 : x % SeqSpace = x
    BY SeqSpaceAssumption
  <2>3. ack = 0 \/ ack < sequence + Window
    <3>1. CASE sequence + Window < SeqSpace
      BY <3>1, <2>1, <2>2, <1>2, WindowAssumption, SeqSpaceAssumption
         DEF Accept, TooOld, WindowIInv, WindowTypeOK, Sequences
    <3>2. CASE ~(sequence + Window < SeqSpace)
      BY <3>2, <2>1, <1>2, WindowAssumption, SeqSpaceAssumption
         DEF WindowIInv, WindowTypeOK, Sequences
    <3> QED
      BY <3>1, <3>2
  <2>4. sequence \notin received
    <3>1. ASSUME timesAccepted[sequence] > 0 PROVE FALSE
      <4>1. ~(sequence + Window >= ack)
        BY <1>2, <3>1 DEF Accept, WindowIInv, WindowInv
      <4> QED
        BY <4>1, <2>1, <2>3, <1>2, <3>1, WindowAssumption
           DEF WindowIInv, WindowTypeOK, WindowInv, Sequences, Accept
    <3> QED
      BY <3>1
  <2>5. received' = received \cup {sequence}
    BY <1>2, <2>1 DEF Accept, Newest, WindowIInv, WindowTypeOK, Sequences
  <2>6. ack' = IF sequence > ack THEN sequence ELSE ack
    BY <1>2 DEF Accept, Newest
  <2> QED
    BY <2>1, <2>3, <2>4, <2>5, <2>6 DEF Memory!Next, Memory!Take
<1>3. WindowIInv /\ [WindowNext]_windowVars => [Memory!Next]_<<received, ack>>
  <2>1. ASSUME UNCHANGED windowVars PROVE UNCHANGED <<received, ack>>
    BY <2>1 DEF windowVars
  <2> QED
    BY <1>2, <2>1 DEF WindowNext, ReceiveUnsequenced, Drop
<1> QED
  BY <1>1, <1>3, WindowInvariance, PTL DEF WindowSpec, MemorySpec, Memory!Spec

-----------------------------------------------------------------------------
(* The token bucket. *)

(* Time credited so far: every refill moves lastRefill forward by what it
   credits or backward by what it adds to rewound. *)
Credited == lastRefill - createdAt + rewound

(* The clocks the goroutines hold are not ahead of time, and the tick loop
   charges only a client that exists. *)
LoopInv ==
    /\ lastRefill <= clock
    /\ tickNow <= clock
    /\ retries > 0 => connected
    /\ phase = "snapshot" => connected
    /\ limit # -1 => connected

(* Tokens granted and tokens left never exceed what was credited. *)
LedgerInv == spent + available <= Capacity + Rate * Credited

BudgetIInv == TypeOK /\ LoopInv /\ BucketBounds /\ (connected => LedgerInv)
            /\ (~connected => spent = 0 /\ rewound = 0)

LEMMA Distribute ==
    ASSUME NEW a \in Int, NEW b \in Int
    PROVE  Rate * (a + b) = Rate * a + Rate * b
BY RateAssumption

LEMMA Monotone ==
    ASSUME NEW a \in Int, NEW b \in Int, a <= b
    PROVE  Rate * a <= Rate * b
<1>1. PICK d \in Nat : b = a + d
  <2>1. b - a \in Nat /\ b = a + (b - a)
    OBVIOUS
  <2> QED
    BY <2>1
<1>2. Rate * b = Rate * a + Rate * d
  BY <1>1, Distribute
<1>3. Rate * d \in Nat
  BY RateAssumption
<1>4. Rate * a \in Int
  BY RateAssumption
<1> QED
  BY <1>2, <1>3, <1>4

(* refillClientBudgetLocked keeps the tokens within bounds and adds at most
   the rate for the time it moves forward. *)
LEMMA RefilledBounds ==
    ASSUME TypeOK, BucketBounds, NEW now \in Nat
    PROVE  /\ Refilled(now) \in Nat
           /\ Refilled(now) <= Capacity
           /\ Refilled(now) <= available +
                 Rate * (IF now < lastRefill THEN 0 ELSE now - lastRefill)
<1> DEFINE gain == IF now < lastRefill THEN 0 ELSE now - lastRefill
<1>1. gain \in Nat
  BY DEF TypeOK
<1>2. Rate * gain \in Nat
  BY <1>1, RateAssumption
<1>3. Rate * 0 = 0
  BY RateAssumption
<1>4. available \in Nat /\ available <= Capacity
  BY DEF TypeOK, BucketBounds
<1>5. CASE now < lastRefill
  BY <1>3, <1>4, <1>5 DEF Refilled
<1>6. CASE ~(now < lastRefill)
  <2>1. Refilled(now) = Least(Capacity, available + Rate * gain)
    BY <1>6 DEF Refilled
  <2> HIDE DEF gain
  <2>2. Refilled(now) \in Nat /\ Refilled(now) <= Capacity
           /\ Refilled(now) <= available + Rate * gain
    BY <2>1, <1>2, <1>4, CapacityAssumption DEF Least
  <2> QED
    BY <2>2 DEF gain
<1> QED
  BY <1>5, <1>6

(* A charge at a time that has passed, for bytes the bucket holds, keeps the
   ledger. *)
LEMMA SettleKeeps ==
    ASSUME BudgetIInv, connected, NEW now \in Nat, now <= clock, NEW bytes \in Nat,
           bytes <= Refilled(now), Settle(now, bytes),
           UNCHANGED <<clock, connected, createdAt>>
    PROVE  /\ available' \in Nat /\ available' <= Capacity
           /\ lastRefill' \in Nat /\ lastRefill' <= clock
           /\ spent' \in Nat /\ rewound' \in Nat
           /\ LedgerInv'
<1> DEFINE gain == IF now < lastRefill THEN 0 ELSE now - lastRefill
<1>0. TypeOK /\ BucketBounds /\ LedgerInv
  BY DEF BudgetIInv
<1>1. /\ Refilled(now) \in Nat /\ Refilled(now) <= Capacity
      /\ Refilled(now) <= available + Rate * gain
  BY <1>0, RefilledBounds
<1>2. /\ available' = Refilled(now) - bytes /\ spent' = spent + bytes
      /\ lastRefill' = now
      /\ rewound' = rewound + (IF now < lastRefill THEN lastRefill - now ELSE 0)
  BY DEF Settle
<1>3. available' \in Nat /\ available' <= Capacity /\ spent' \in Nat
  BY <1>0, <1>1, <1>2, CapacityAssumption DEF TypeOK
<1>4. lastRefill' \in Nat /\ lastRefill' <= clock /\ rewound' \in Nat
  BY <1>0, <1>2 DEF TypeOK
<1>5. gain \in Int /\ Credited \in Int /\ Credited' = Credited + gain
  BY <1>0, <1>2 DEF TypeOK, Credited
<1> HIDE DEF gain
<1>6. Rate * Credited' = Rate * Credited + Rate * gain
  BY <1>5, Distribute
<1>7. /\ Rate * Credited \in Int /\ Rate * gain \in Int
      /\ spent \in Nat /\ available \in Int /\ Capacity \in Nat
  BY <1>0, <1>5, RateAssumption, CapacityAssumption DEF TypeOK
<1>8. spent' + available' = spent + Refilled(now)
  BY <1>1, <1>2, <1>7
<1>9. spent + Refilled(now) <= Capacity + Rate * Credited + Rate * gain
  BY <1>0, <1>1, <1>7 DEF LedgerInv
<1>10. LedgerInv'
  BY <1>6, <1>7, <1>8, <1>9 DEF LedgerInv
<1> QED
  BY <1>3, <1>4, <1>10

(* reserveOutboundBudget, granted or refused, is such a charge. *)
LEMMA ReserveKeeps ==
    ASSUME BudgetIInv, connected, NEW now \in Nat, now <= clock, NEW bytes \in Nat,
           Reserve(now, bytes), UNCHANGED <<clock, connected, createdAt>>
    PROVE  /\ available' \in Nat /\ available' <= Capacity
           /\ lastRefill' \in Nat /\ lastRefill' <= clock
           /\ spent' \in Nat /\ rewound' \in Nat
           /\ LedgerInv'
<1>0. Refilled(now) \in Nat
  BY RefilledBounds DEF BudgetIInv
<1>1. PICK b \in {0, bytes} : b <= Refilled(now) /\ Settle(now, b)
  <2>1. CASE Refilled(now) >= bytes
    BY <2>1, <1>0 DEF Reserve
  <2>2. CASE ~(Refilled(now) >= bytes)
    BY <2>2, <1>0 DEF Reserve
  <2> QED
    BY <2>1, <2>2
<1> QED
  BY <1>1, SettleKeeps

LEMMA BudgetInitIInv == Init => BudgetIInv
<1> SUFFICES ASSUME Init PROVE BudgetIInv
  OBVIOUS
<1>1. TypeOK
  <2>1. connected \in BOOLEAN /\ phase \in {"idle", "retry", "snapshot"}
    BY Zenon DEF Init
  <2>2. limit \in Nat \cup {-1}
    BY Zenon DEF Init
  <2> QED
    BY <2>1, <2>2 DEF Init, TypeOK
<1>2. LoopInv
  BY DEF Init, LoopInv
<1>3. BucketBounds
  BY CapacityAssumption DEF Init, BucketBounds
<1> QED
  BY <1>1, <1>2, <1>3 DEF Init, BudgetIInv

LEMMA BudgetNextIInv == BudgetIInv /\ [Next]_vars => BudgetIInv'
<1> SUFFICES ASSUME BudgetIInv, [Next]_vars PROVE BudgetIInv'
  OBVIOUS
<1> USE DEF bucket, tickLoop
<1>0. TypeOK /\ LoopInv /\ BucketBounds
  BY DEF BudgetIInv
<1>1. ASSUME AdvanceClock PROVE BudgetIInv'
  BY <1>1 DEF AdvanceClock, BudgetIInv, TypeOK, LoopInv, BucketBounds, LedgerInv, Credited
<1>2. ASSUME Connect PROVE BudgetIInv'
  <2>1. connected' /\ available' = Capacity /\ lastRefill' = clock /\ createdAt' = clock
          /\ UNCHANGED <<clock, phase, tickNow, retries, limit, spent, rewound>>
    BY <1>2 DEF Connect
  <2>2. spent = 0 /\ rewound = 0 /\ clock \in Nat
    BY <1>2, <1>0 DEF Connect, BudgetIInv, TypeOK
  <2>3. LedgerInv'
    <3>1. Credited' = 0
      BY <2>1, <2>2 DEF Credited
    <3>2. Rate * 0 = 0
      BY RateAssumption
    <3> QED
      BY <2>1, <2>2, <3>1, <3>2, CapacityAssumption DEF LedgerInv
  <2>4. TypeOK' /\ LoopInv' /\ BucketBounds'
    BY <1>0, <2>1, CapacityAssumption DEF TypeOK, LoopInv, BucketBounds
  <2> QED
    BY <2>1, <2>3, <2>4 DEF BudgetIInv
<1>3. ASSUME NEW bytes \in Packets, Respond(bytes) PROVE BudgetIInv'
  <2>1. bytes \in Nat /\ clock \in Nat /\ connected /\ Reserve(clock, bytes)
          /\ UNCHANGED <<clock, connected, createdAt, phase, tickNow, retries, limit>>
    BY <1>0, <1>3, PacketsAssumption DEF Respond, TypeOK
  <2>2. /\ available' \in Nat /\ available' <= Capacity
        /\ lastRefill' \in Nat /\ lastRefill' <= clock
        /\ spent' \in Nat /\ rewound' \in Nat /\ LedgerInv'
    BY <2>1, ReserveKeeps
  <2> QED
    BY <1>0, <2>1, <2>2 DEF BudgetIInv, TypeOK, LoopInv, BucketBounds
<1>4. ASSUME BeginTick PROVE BudgetIInv'
  BY <1>4, MaxRetriesAssumption
     DEF BeginTick, BudgetIInv, TypeOK, LoopInv, BucketBounds, LedgerInv, Credited
<1>5. ASSUME BeginSnapshots PROVE BudgetIInv'
  BY <1>5 DEF BeginSnapshots, BudgetIInv, TypeOK, LoopInv, BucketBounds, LedgerInv, Credited
<1>6. ASSUME NEW bytes \in Packets, Retransmit(bytes) PROVE BudgetIInv'
  <2>1. bytes \in Nat /\ tickNow \in Nat /\ tickNow <= clock /\ connected
          /\ Reserve(tickNow, bytes) /\ retries' = retries - 1 /\ retries > 0
          /\ UNCHANGED <<clock, connected, createdAt, phase, tickNow, limit>>
    BY <1>0, <1>6, PacketsAssumption DEF Retransmit, TypeOK, LoopInv
  <2>2. /\ available' \in Nat /\ available' <= Capacity
        /\ lastRefill' \in Nat /\ lastRefill' <= clock
        /\ spent' \in Nat /\ rewound' \in Nat /\ LedgerInv'
    BY <2>1, ReserveKeeps
  <2> QED
    BY <1>0, <2>1, <2>2 DEF BudgetIInv, TypeOK, LoopInv, BucketBounds
<1>7. ASSUME ReadLimit PROVE BudgetIInv'
  <2>1. tickNow \in Nat /\ tickNow <= clock /\ connected
          /\ Settle(tickNow, 0) /\ limit' = Refilled(tickNow)
          /\ UNCHANGED <<clock, connected, createdAt, phase, tickNow, retries>>
    BY <1>0, <1>7 DEF ReadLimit, TypeOK, LoopInv
  <2>2. Refilled(tickNow) \in Nat
    BY <1>0, <2>1, RefilledBounds
  <2>3. /\ available' \in Nat /\ available' <= Capacity
        /\ lastRefill' \in Nat /\ lastRefill' <= clock
        /\ spent' \in Nat /\ rewound' \in Nat /\ LedgerInv'
    BY <2>1, <2>2, SettleKeeps
  <2> QED
    BY <1>0, <2>1, <2>2, <2>3 DEF BudgetIInv, TypeOK, LoopInv, BucketBounds
<1>8. ASSUME NEW bytes \in Packets, SendSnapshot(bytes) PROVE BudgetIInv'
  <2>1. bytes \in Nat /\ tickNow \in Nat /\ tickNow <= clock /\ connected
          /\ Reserve(tickNow, bytes) /\ limit' = -1 /\ phase' = "idle"
          /\ UNCHANGED <<clock, connected, createdAt, tickNow, retries>>
    BY <1>0, <1>8, PacketsAssumption DEF SendSnapshot, TypeOK, LoopInv
  <2>2. /\ available' \in Nat /\ available' <= Capacity
        /\ lastRefill' \in Nat /\ lastRefill' <= clock
        /\ spent' \in Nat /\ rewound' \in Nat /\ LedgerInv'
    BY <2>1, ReserveKeeps
  <2> QED
    BY <1>0, <2>1, <2>2 DEF BudgetIInv, TypeOK, LoopInv, BucketBounds
<1>9. ASSUME EndTick PROVE BudgetIInv'
  BY <1>9 DEF EndTick, BudgetIInv, TypeOK, LoopInv, BucketBounds, LedgerInv, Credited
<1>10. CASE UNCHANGED vars
  BY <1>10 DEF vars, BudgetIInv, TypeOK, LoopInv, BucketBounds, LedgerInv, Credited
<1> QED
  BY <1>1, <1>2, <1>3, <1>4, <1>5, <1>6, <1>7, <1>8, <1>9, <1>10 DEF Next

(* The ledger invariant is inductive. *)
THEOREM LedgerInvariance == Spec => []BudgetIInv
BY BudgetInitIInv, BudgetNextIInv, PTL DEF Spec

(* No interleaving of responses, retransmissions and snapshots overdraws or
   overfills a bucket. *)
THEOREM BucketBoundsHold == Spec => []BucketBounds
BY LedgerInvariance, PTL DEF BudgetIInv

(* Every byte sent to a client is covered by its capacity, the time since it
   connected and the time its refill clock was set back. *)
THEOREM SpentAccountedHolds == Spec => []SpentAccounted
<1>1. ASSUME BudgetIInv PROVE SpentAccounted
  <2> SUFFICES ASSUME connected
               PROVE  spent <= Capacity + Rate * (clock - createdAt + rewound)
    BY DEF SpentAccounted
  <2>1. Credited \in Int /\ clock - createdAt + rewound \in Int
          /\ Credited <= clock - createdAt + rewound
    BY <1>1 DEF BudgetIInv, TypeOK, LoopInv, Credited
  <2>2. Rate * Credited <= Rate * (clock - createdAt + rewound)
    BY <2>1, Monotone
  <2>3. Rate * Credited \in Int /\ Rate * (clock - createdAt + rewound) \in Int
    BY <2>1, RateAssumption
  <2>4. spent + available <= Capacity + Rate * Credited /\ available \in Nat
          /\ spent \in Nat /\ Capacity \in Nat
    BY <1>1, CapacityAssumption DEF BudgetIInv, LedgerInv, TypeOK, BucketBounds
  <2> QED
    BY <2>2, <2>3, <2>4
<1> QED
  BY <1>1, LedgerInvariance, PTL

-----------------------------------------------------------------------------
(* The input buffer. *)

(* The loop of consume and consumeForObject, one input at a time. *)
LEMMA RemainingSteps ==
    ASSUME NEW S, NEW list \in Seq(S), NEW matching
    PROVE  \E f \in [0 .. Len(list) -> Seq(S)] :
              /\ Remaining(list, matching) = f[Len(list)]
              /\ f[0] = << >>
              /\ \A n \in 1 .. Len(list) :
                    f[n] = IF list[n] \in matching THEN f[n - 1] ELSE Append(f[n - 1], list[n])
<1> DEFINE N == Len(list)
           step == [n \in 1 .. N |-> [s \in Seq(S) |->
                      IF list[n] \in matching THEN s ELSE Append(s, list[n])]]
           Loop(f) == f = [n \in 0 .. N |->
                             IF n = 0 THEN << >>
                             ELSE IF list[n] \in matching THEN f[n - 1]
                             ELSE Append(f[n - 1], list[n])]
<1>1. N \in Nat /\ \A n \in 1 .. N : list[n] \in S
  OBVIOUS
<1>2. \A n \in 1 .. N, s \in Seq(S) : step[n][s] \in Seq(S)
  <2>1. \A n \in 1 .. N, s \in Seq(S) : Append(s, list[n]) \in Seq(S)
    BY <1>1, AppendProperties
  <2> QED
    BY <2>1
<1>3. << >> \in Seq(S)
  BY EmptySeq
<1> HIDE DEF N, step, Loop
<1>4. PICK f \in [0 .. N -> Seq(S)] :
         f[0] = << >> /\ \A n \in 1 .. N : f[n] = step[n][f[n - 1]]
  <2> DEFINE T == Seq(S)
             start == << >>
  <2>1. N \in Nat /\ start \in T /\ \A n \in 1 .. N, s \in T : step[n][s] \in T
    BY <1>1, <1>2, <1>3
  <2> HIDE DEF T, start
  <2>2. \E f : Iterates(f, T, start, N, step)
    BY <2>1, PrimitiveRecursion
  <2> QED
    BY <2>2 DEF T, start, Iterates
<1>5. \A n \in 1 .. N : f[n] = IF list[n] \in matching THEN f[n - 1] ELSE Append(f[n - 1], list[n])
  <2>1. ASSUME NEW n \in 1 .. N
        PROVE  f[n - 1] \in Seq(S)
    <3>1. n - 1 \in 0 .. N
      BY <1>1
    <3> QED
      BY <3>1
  <2> QED
    BY <1>4, <2>1 DEF step
<1>6. Loop(f)
  <2>1. f = [n \in 0 .. N |-> f[n]]
    BY <1>4
  <2>2. ASSUME NEW n \in 0 .. N
        PROVE  f[n] = IF n = 0 THEN << >> ELSE IF list[n] \in matching THEN f[n - 1]
                      ELSE Append(f[n - 1], list[n])
    <3>1. n = 0 \/ n \in 1 .. N
      BY <1>1
    <3> QED
      BY <1>4, <1>5, <3>1
  <2> QED
    BY <2>1, <2>2 DEF Loop
<1> DEFINE loop == CHOOSE g : Loop(g)
<1>7. Loop(loop)
  BY <1>6
<1>8. Remaining(list, matching) = loop[N]
  BY DEF Remaining, N, Loop
<1> HIDE DEF loop
<1>9. loop[0] = << >> /\ \A n \in 1 .. N :
         loop[n] = IF list[n] \in matching THEN loop[n - 1] ELSE Append(loop[n - 1], list[n])
  <2>1. 0 \in 0 .. N /\ \A n \in 1 .. N : n \in 0 .. N /\ n # 0
    BY <1>1
  <2>2. \A n \in 0 .. N : loop[n] = IF n = 0 THEN << >> ELSE IF list[n] \in matching
                                    THEN loop[n - 1] ELSE Append(loop[n - 1], list[n])
    BY <1>7, Zenon DEF Loop
  <2> QED
    BY <2>1, <2>2, Zenon
<1>10. loop \in [0 .. N -> Seq(S)]
  <2> DEFINE same == {n \in 0 .. N : loop[n] = f[n]}
  <2>1. 0 \in same
    BY <1>1, <1>4, <1>9
  <2>2. ASSUME NEW n \in 1 .. N, n - 1 \in same
        PROVE  n \in same
    <3>1. n \in 0 .. N /\ loop[n - 1] = f[n - 1]
      BY <1>1, <2>2
    <3> QED
      BY <1>5, <1>9, <3>1
  <2>3. \A n \in 0 .. N : n \in same
    BY <1>1, <2>1, <2>2, InductionUpTo
  <2>4. loop = [n \in 0 .. N |-> loop[n]]
    BY <1>7 DEF Loop
  <2> QED
    BY <2>3, <2>4
<1> QED
  BY <1>8, <1>9, <1>10 DEF N

-----------------------------------------------------------------------------
(* The order of sortClientInputs, and lists that are sorted by it and hold
   no input twice. *)
Before(x, y) == ~Precedes(y, x) /\ x.number # y.number
Sorted(list) == list \in Seq(Inputs)
                  /\ \A i, j \in DOMAIN list : i < j => Before(list[i], list[j])

LEMMA InputFields ==
    ASSUME NEW x \in Inputs
    PROVE  /\ x.tick \in Nat /\ x.sequence \in Nat /\ x.object \in Nat
           /\ x.number \in Nat /\ x.client \in Clients /\ x.tick \in Ticks
<1>1. /\ x.tick \in Ticks /\ x.sequence \in Stamps /\ x.object \in Objects
      /\ x.number \in 1 .. MaxInputs /\ x.client \in Clients
  BY DEF Inputs
<1>2. x.tick \in Nat
  BY <1>1, BoundsAssumption DEF Ticks
<1>3. x.number \in Nat
  BY <1>1, BoundsAssumption
<1>4. x.sequence \in Nat /\ x.object \in Nat
  BY <1>1, OrderAssumption
<1> QED
  BY <1>1, <1>2, <1>3, <1>4

LEMMA PrecedesOrders ==
    ASSUME NEW x \in Inputs, NEW y \in Inputs, NEW z \in Inputs
    PROVE  /\ ~Precedes(y, x) /\ ~Precedes(z, y) => ~Precedes(z, x)
           /\ Precedes(x, y) => ~Precedes(y, x)
  BY InputFields DEF Precedes

LEMMA SortedDomain ==
    ASSUME NEW list, Sorted(list)
    PROVE  /\ list \in Seq(Inputs) /\ Len(list) \in Nat /\ DOMAIN list = 1 .. Len(list)
           /\ \A i \in 1 .. Len(list) : list[i] \in Inputs /\ list[i] \in Elements(list)
           /\ \A x \in Elements(list) : \E i \in 1 .. Len(list) : x = list[i]
           /\ \A i, j \in 1 .. Len(list) : i < j => Before(list[i], list[j])
<1>1. list \in Seq(Inputs)
  BY DEF Sorted
<1>2. Len(list) \in Nat /\ DOMAIN list = 1 .. Len(list) /\ \A i \in 1 .. Len(list) : list[i] \in Inputs
  BY <1>1
<1> QED
  BY <1>1, <1>2 DEF Sorted, Elements

LEMMA SortedEmpty == Sorted(<< >>) /\ Elements(<< >>) = {}
  BY EmptySeq DEF Sorted, Elements

(* Positions and inputs of a list correspond one to one. *)
LEMMA SortedCount ==
    ASSUME NEW list, Sorted(list)
    PROVE  IsFiniteSet(Elements(list)) /\ Cardinality(Elements(list)) = Len(list)
<1> DEFINE N == Len(list)
           f == [i \in 1 .. N |-> list[i]]
<1>1. N \in Nat /\ \A i \in 1 .. N : list[i] \in Elements(list)
  BY SortedDomain
<1>2. \A i, j \in 1 .. N : i < j => list[i] # list[j]
  BY SortedDomain DEF Before
<1>3. \A x \in Elements(list) : \E i \in 1 .. N : x = list[i]
  BY SortedDomain
<1> HIDE DEF N
<1>4. f \in Bijection(1 .. N, Elements(list))
  <2>1. f \in [1 .. N -> Elements(list)]
    BY <1>1
  <2>2. \A i, j \in 1 .. N : f[i] = f[j] => i = j
    BY <1>1, <1>2
  <2>3. \A x \in Elements(list) : \E i \in 1 .. N : f[i] = x
    BY <1>3
  <2> QED
    BY <2>1, <2>2, <2>3 DEF Bijection, Injection, Surjection, IsInjective
<1>5. ExistsBijection(1 .. N, Elements(list))
  BY <1>4 DEF ExistsBijection
<1> QED
  BY <1>1, <1>5, FS_NatBijection, FS_CountingElements DEF N

(* What a consume leaves is sorted, and everything that does not match. *)
LEMMA RemainingKeeps ==
    ASSUME NEW list, Sorted(list), NEW matching
    PROVE  /\ Sorted(Remaining(list, matching))
           /\ Elements(Remaining(list, matching)) = Elements(list) \ matching
<1> DEFINE N == Len(list)
           First(n) == {list[i] : i \in 1 .. n}
<1>1. /\ list \in Seq(Inputs) /\ N \in Nat
      /\ \A i \in 1 .. N : list[i] \in Inputs
      /\ \A i, j \in 1 .. N : i < j => Before(list[i], list[j])
  BY SortedDomain
<1>2. PICK f \in [0 .. N -> Seq(Inputs)] :
         /\ Remaining(list, matching) = f[N]
         /\ f[0] = << >>
         /\ \A n \in 1 .. N :
               f[n] = IF list[n] \in matching THEN f[n - 1] ELSE Append(f[n - 1], list[n])
  BY <1>1, RemainingSteps
<1>3. Elements(list) = First(N)
  BY SortedDomain DEF Elements
<1> HIDE DEF N
<1> DEFINE good == {n \in 0 .. N : Sorted(f[n]) /\ Elements(f[n]) = First(n) \ matching}
<1>4. 0 \in good
  <2>1. First(0) = {} /\ 0 \in 0 .. N
    BY <1>1
  <2> QED
    BY <1>2, <2>1, SortedEmpty
<1>5. ASSUME NEW n \in 1 .. N, n - 1 \in good
      PROVE  n \in good
  <2> DEFINE s == f[n - 1]
             x == list[n]
  <2>1. Sorted(s) /\ Elements(s) = First(n - 1) \ matching
    BY <1>5
  <2>2. n \in 0 .. N /\ n - 1 \in 0 .. N /\ x \in Inputs
    BY <1>1
  <2>3. First(n) = First(n - 1) \cup {x}
    <3>1. 1 .. n = (1 .. n - 1) \cup {n}
      BY <1>1
    <3> QED
      BY <3>1
  <2> HIDE DEF First, good
  <2>4. CASE x \in matching
    <3>1. f[n] = s
      BY <1>2, <2>4
    <3> QED
      BY <2>1, <2>2, <2>3, <2>4, <3>1 DEF good
  <2>5. CASE x \notin matching
    <3>1. f[n] = Append(s, x)
      BY <1>2, <2>5
    <3> DEFINE t == Append(s, x)
    <3>2. s \in Seq(Inputs) /\ Len(s) \in Nat /\ DOMAIN s = 1 .. Len(s)
      BY <2>1, SortedDomain
    <3>3. t \in Seq(Inputs) /\ Len(t) = Len(s) + 1 /\ t[Len(s) + 1] = x
          /\ (\A i \in 1 .. Len(s) : t[i] = s[i]) /\ DOMAIN t = 1 .. Len(s) + 1
      BY <2>2, <3>2
    <3> HIDE DEF t
    <3>4. Elements(t) = Elements(s) \cup {x}
      <4>1. 1 .. Len(s) + 1 = (1 .. Len(s)) \cup {Len(s) + 1}
        BY <3>2
      <4>2. \A i \in 1 .. Len(s) : t[i] = s[i]
        BY <3>3
      <4> QED
        BY <3>2, <3>3, <4>1, <4>2 DEF Elements
    <3>5. \A y \in Elements(s) : Before(y, x)
      <4>1. \A y \in First(n - 1) : Before(y, x)
        <5>1. \A i \in 1 .. n - 1 : i \in 1 .. N /\ i < n
          BY <1>1
        <5> QED
          BY <1>1, <5>1 DEF First
      <4> QED
        BY <2>1, <4>1
    <3>6. \A i, j \in DOMAIN t : i < j => Before(t[i], t[j])
      <4> SUFFICES ASSUME NEW i \in DOMAIN t, NEW j \in DOMAIN t, i < j
                   PROVE  Before(t[i], t[j])
        OBVIOUS
      <4>1. i \in 1 .. Len(s) /\ t[i] = s[i]
        BY <3>2, <3>3
      <4>2. CASE j = Len(s) + 1
        BY <2>1, <3>3, <3>5, <4>1, <4>2, SortedDomain
      <4>3. CASE j # Len(s) + 1
        <5>1. j \in 1 .. Len(s) /\ t[j] = s[j]
          <6>1. j \in 1 .. Len(s) + 1
            BY <3>3
          <6>2. j \in 1 .. Len(s)
            BY <3>2, <4>3, <6>1
          <6> QED
            BY <3>3, <6>2
        <5> QED
          BY <2>1, <4>1, <5>1, SortedDomain
      <4> QED
        BY <4>2, <4>3
    <3>7. Sorted(t)
      BY <3>3, <3>6 DEF Sorted
    <3> QED
      BY <2>1, <2>2, <2>3, <2>5, <3>1, <3>4, <3>7 DEF good, t
  <2> QED
    BY <2>4, <2>5
<1> HIDE DEF good
<1>6. \A n \in 0 .. N : n \in good
  BY <1>1, <1>4, <1>5, InductionUpTo
<1>7. N \in good
  BY <1>1, <1>6
<1> QED
  BY <1>2, <1>3, <1>7 DEF good

LEMMA LeastOf ==
    ASSUME NEW T, T \subseteq Nat, T # {}
    PROVE  \E t \in T : \A s \in T : t <= s
<1>1. IsWellFoundedOn(OpToRel(<, Nat), Nat)
  BY NatLessThanWellFounded
<1>2. PICK t \in T : \A s \in T : ~(<<s, t>> \in OpToRel(<, Nat))
  BY <1>1, WFMin
<1>3. \A s \in T : ~(s < t)
  BY <1>2 DEF OpToRel
<1> QED
  BY <1>3

(* In a sorted list there is a place behind the equals of an input. *)
LEMMA PlaceExists ==
    ASSUME NEW list, Sorted(list), NEW input \in Inputs
    PROVE  \E n \in 0 .. Len(list) :
              \A i \in DOMAIN list : i <= n <=> ~Precedes(input, list[i])
<1> DEFINE N == Len(list)
           later == {i \in 1 .. N : Precedes(input, list[i])}
<1>1. /\ N \in Nat /\ DOMAIN list = 1 .. N /\ \A i \in 1 .. N : list[i] \in Inputs
      /\ \A i, j \in 1 .. N : i < j => Before(list[i], list[j])
  BY SortedDomain
<1> HIDE DEF N
<1>2. CASE later = {}
  <2>1. N \in 0 .. N /\ \A i \in DOMAIN list : i <= N <=> ~Precedes(input, list[i])
    BY <1>1, <1>2
  <2> QED
    BY <2>1 DEF N
<1>3. CASE later # {}
  <2>1. PICK m \in later : \A i \in later : m <= i
    <3>1. later \subseteq Nat
      BY <1>1
    <3> HIDE DEF later
    <3> QED
      BY <1>3, <3>1, LeastOf
  <2>2. m \in 1 .. N /\ m - 1 \in 0 .. N /\ Precedes(input, list[m])
    BY <1>1
  <2>3. ASSUME NEW i \in DOMAIN list
        PROVE  i <= m - 1 <=> ~Precedes(input, list[i])
    <3>1. i \in 1 .. N /\ list[i] \in Inputs /\ list[m] \in Inputs
      BY <1>1, <2>2
    <3>2. CASE i < m
      BY <1>1, <2>1, <2>2, <3>1, <3>2
    <3>3. CASE i = m
      BY <1>1, <2>2, <3>1, <3>3
    <3>4. CASE m < i
      <4>1. ~Precedes(list[i], list[m])
        BY <1>1, <2>2, <3>1, <3>4 DEF Before
      <4>2. Precedes(input, list[i])
        BY <2>2, <3>1, <4>1, PrecedesOrders
      <4> QED
        BY <1>1, <2>2, <3>1, <3>4, <4>2
    <3> QED
      BY <1>1, <2>2, <3>1, <3>2, <3>3, <3>4
  <2> QED
    BY <2>2, <2>3 DEF N
<1> QED
  BY <1>2, <1>3

(* append and the stable sort: one input more, in its place. *)
LEMMA InsertKeeps ==
    ASSUME NEW list, Sorted(list), NEW input \in Inputs,
           \A x \in Elements(list) : x.number # input.number
    PROVE  /\ Sorted(Insert(list, input)) /\ Len(Insert(list, input)) = Len(list) + 1
           /\ Elements(Insert(list, input)) = Elements(list) \cup {input}
<1> DEFINE N == Len(list)
           place == CHOOSE n \in 0 .. Len(list) :
                       \A i \in DOMAIN list : i <= n <=> ~Precedes(input, list[i])
           front == SubSeq(list, 1, place)
           back == SubSeq(list, place + 1, Len(list))
           both == front \o <<input>>
           whole == both \o back
<1>1. /\ N \in Nat /\ DOMAIN list = 1 .. N /\ \A i \in 1 .. N : list[i] \in Inputs
      /\ \A i, j \in 1 .. N : i < j => Before(list[i], list[j])
      /\ \A i \in 1 .. N : list[i] \in Elements(list)
      /\ \A x \in Elements(list) : \E i \in 1 .. N : x = list[i]
  BY SortedDomain
<1>2. place \in 0 .. N /\ \A i \in DOMAIN list : i <= place <=> ~Precedes(input, list[i])
  BY PlaceExists
<1>3. Insert(list, input) = whole
  BY DEF Insert
<1> HIDE DEF place
<1>4. /\ front \in Seq(Inputs) /\ Len(front) = place
      /\ \A i \in 1 .. place : front[i] = list[i]
  <2>1. 1 \in Int /\ place \in Int /\ \A i \in 1 .. place : list[i] \in Inputs
    BY <1>1, <1>2
  <2>2. /\ front \in Seq(Inputs) /\ Len(front) = IF 1 <= place THEN place - 1 + 1 ELSE 0
        /\ \A i \in 1 .. place - 1 + 1 : front[i] = list[1 + i - 1]
    BY <2>1, SubSeqProperties
  <2> QED
    BY <1>2, <2>2
<1>5. /\ back \in Seq(Inputs) /\ Len(back) = N - place
      /\ \A i \in 1 .. N - place : back[i] = list[place + i]
  <2>1. place + 1 \in Int /\ N \in Int /\ \A i \in place + 1 .. N : list[i] \in Inputs
    BY <1>1, <1>2
  <2>2. /\ back \in Seq(Inputs) /\ Len(back) = IF place + 1 <= N THEN N - (place + 1) + 1 ELSE 0
        /\ \A i \in 1 .. N - (place + 1) + 1 : back[i] = list[(place + 1) + i - 1]
    BY <2>1, SubSeqProperties
  <2> HIDE DEF N, back
  <2>3. Len(back) = N - place
    BY <1>1, <1>2, <2>2
  <2>4. \A i \in 1 .. N - place : i \in 1 .. N - (place + 1) + 1 /\ (place + 1) + i - 1 = place + i
    BY <1>1, <1>2
  <2> QED
    BY <2>2, <2>3, <2>4
<1>6. <<input>> \in Seq(Inputs) /\ Len(<<input>>) = 1 /\ <<input>>[1] = input
  OBVIOUS
<1> HIDE DEF N, front, back
<1>7. /\ both \in Seq(Inputs) /\ Len(both) = place + 1 /\ both[place + 1] = input
      /\ \A i \in 1 .. place : both[i] = list[i]
  <2>1. /\ both \in Seq(Inputs) /\ Len(both) = place + 1
        /\ \A i \in 1 .. place + 1 : both[i] = IF i <= place THEN front[i] ELSE <<input>>[i - place]
    BY <1>4, <1>6, ConcatProperties
  <2>2. place + 1 \in 1 .. place + 1 /\ ~(place + 1 <= place) /\ place + 1 - place = 1
    BY <1>1, <1>2
  <2>3. \A i \in 1 .. place : i \in 1 .. place + 1 /\ i <= place
    BY <1>1, <1>2
  <2> QED
    BY <1>4, <1>6, <2>1, <2>2, <2>3
<1> HIDE DEF both
<1>8. /\ whole \in Seq(Inputs) /\ Len(whole) = N + 1
      /\ \A i \in 1 .. N + 1 : whole[i] = IF i <= place THEN list[i]
                                        ELSE IF i = place + 1 THEN input ELSE list[i - 1]
  <2>1. /\ whole \in Seq(Inputs) /\ Len(whole) = Len(both) + Len(back)
        /\ \A i \in 1 .. Len(both) + Len(back) :
              whole[i] = IF i <= Len(both) THEN both[i] ELSE back[i - Len(both)]
    <3>1. both \in Seq(Inputs) /\ back \in Seq(Inputs)
      BY <1>5, <1>7
    <3> QED
      BY ONLY <3>1, ConcatProperties, Zenon
  <2>2. Len(both) + Len(back) = N + 1 /\ Len(both) = place + 1
    BY <1>1, <1>2, <1>5, <1>7
  <2> HIDE DEF whole
  <2>3. ASSUME NEW i \in 1 .. N + 1
        PROVE  whole[i] = IF i <= place THEN list[i]
                          ELSE IF i = place + 1 THEN input ELSE list[i - 1]
    <3>1. whole[i] = IF i <= place + 1 THEN both[i] ELSE back[i - (place + 1)]
      BY <2>1, <2>2
    <3>2. CASE i <= place
      <4>1. i \in 1 .. place /\ i <= place + 1
        BY <1>1, <1>2, <3>2
      <4> QED
        BY <1>7, <3>1, <3>2, <4>1
    <3>3. CASE i = place + 1
      <4>1. i <= place + 1 /\ ~(i <= place)
        BY <1>1, <1>2, <3>3
      <4> QED
        BY <1>7, <3>1, <3>3, <4>1
    <3>4. CASE ~(i <= place + 1)
      <4>1. /\ i - (place + 1) \in 1 .. N - place /\ place + (i - (place + 1)) = i - 1
            /\ ~(i <= place) /\ i # place + 1
        BY <1>1, <1>2, <3>4
      <4>2. back[i - (place + 1)] = list[place + (i - (place + 1))]
        BY <1>5, <4>1
      <4> QED
        BY <3>1, <3>4, <4>1, <4>2
    <3>5. i <= place \/ i = place + 1 \/ ~(i <= place + 1)
      BY <1>1, <1>2
    <3> QED
      BY <3>2, <3>3, <3>4, <3>5
  <2> QED
    BY <2>1, <2>2, <2>3
<1> HIDE DEF whole
<1>9. DOMAIN whole = 1 .. N + 1
  BY <1>1, <1>8
<1>10. Elements(whole) = Elements(list) \cup {input}
  <2>1. ASSUME NEW i \in 1 .. N + 1
        PROVE  whole[i] \in Elements(list) \cup {input}
    <3>1. (i <= place => i \in 1 .. N) /\ (~(i <= place) /\ i # place + 1 => i - 1 \in 1 .. N)
      BY <1>1, <1>2
    <3> QED
      BY <1>1, <1>8, <3>1
  <2>2. ASSUME NEW i \in 1 .. N
        PROVE  \E j \in 1 .. N + 1 : whole[j] = list[i]
    <3>1. CASE i <= place
      <4>1. i \in 1 .. N + 1
        BY <1>1
      <4> QED
        BY <1>8, <3>1, <4>1
    <3>2. CASE ~(i <= place)
      <4>1. i + 1 \in 1 .. N + 1 /\ ~(i + 1 <= place) /\ i + 1 # place + 1 /\ (i + 1) - 1 = i
        BY <1>1, <1>2, <3>2
      <4>2. whole[i + 1] = list[(i + 1) - 1]
        BY <1>8, <4>1
      <4> QED
        BY <4>1, <4>2
    <3> QED
      BY <3>1, <3>2
  <2>3. place + 1 \in 1 .. N + 1 /\ whole[place + 1] = input
    <3>1. place + 1 \in 1 .. N + 1 /\ ~(place + 1 <= place)
      BY <1>1, <1>2
    <3> QED
      BY <1>8, <3>1
  <2>4. Elements(whole) = {whole[i] : i \in 1 .. N + 1}
    BY <1>9 DEF Elements
  <2>5. Elements(whole) \subseteq Elements(list) \cup {input}
    BY <2>1, <2>4
  <2>6. ASSUME NEW x \in Elements(list)
        PROVE  x \in Elements(whole)
    <3>1. PICK i \in 1 .. N : x = list[i]
      BY <1>1
    <3>2. PICK j \in 1 .. N + 1 : whole[j] = list[i]
      BY <2>2
    <3> QED
      BY <2>4, <3>1, <3>2
  <2>7. input \in Elements(whole)
    BY <2>3, <2>4
  <2> QED
    BY <2>5, <2>6, <2>7
<1>11. \A i \in 1 .. N : list[i].number # input.number
  BY <1>1
<1>12. ASSUME NEW i \in 1 .. N + 1, NEW j \in 1 .. N + 1, i < j
       PROVE  Before(whole[i], whole[j])
  <2>1. CASE i = place + 1
    <3>1. whole[i] = input /\ j - 1 \in 1 .. N /\ whole[j] = list[j - 1] /\ ~(j - 1 <= place)
      BY <1>1, <1>2, <1>8, <1>12, <2>1
    <3>2. Precedes(input, list[j - 1])
      BY <1>1, <1>2, <3>1
    <3>3. ~Precedes(list[j - 1], input)
      BY <1>1, <3>1, <3>2, PrecedesOrders
    <3> QED
      BY <1>11, <3>1, <3>3 DEF Before
  <2>2. CASE j = place + 1
    <3>1. whole[j] = input /\ i \in 1 .. N /\ whole[i] = list[i] /\ i <= place
      BY <1>1, <1>2, <1>8, <1>12, <2>2
    <3>2. ~Precedes(input, list[i])
      BY <1>1, <1>2, <3>1
    <3> QED
      BY <1>11, <3>1, <3>2 DEF Before
  <2>3. CASE i # place + 1 /\ j # place + 1
    <3> DEFINE Old(k) == IF k <= place THEN k ELSE k - 1
    <3>1. Old(i) \in 1 .. N /\ Old(j) \in 1 .. N /\ Old(i) < Old(j)
      BY <1>1, <1>2, <1>12, <2>3
    <3>2. whole[i] = list[Old(i)] /\ whole[j] = list[Old(j)]
      BY <1>8, <2>3
    <3> QED
      BY <1>1, <3>1, <3>2
  <2> QED
    BY <2>1, <2>2, <2>3
<1>13. Sorted(whole)
  BY <1>8, <1>9, <1>12 DEF Sorted
<1> QED
  BY <1>3, <1>8, <1>10, <1>13 DEF N

(* The limit loop: a sorted list without its first inputs. *)
LEMMA DropKeeps ==
    ASSUME NEW list, Sorted(list), NEW e \in 0 .. Len(list)
    PROVE  LET rest == SubSeq(list, e + 1, Len(list))
           IN  /\ Sorted(rest) /\ Len(rest) = Len(list) - e
               /\ Elements(rest) \subseteq Elements(list)
<1> DEFINE N == Len(list)
           rest == SubSeq(list, e + 1, Len(list))
<1>1. /\ N \in Nat /\ DOMAIN list = 1 .. N /\ \A i \in 1 .. N : list[i] \in Inputs
      /\ \A i, j \in 1 .. N : i < j => Before(list[i], list[j])
      /\ \A i \in 1 .. N : list[i] \in Elements(list)
  BY SortedDomain
<1>2. e + 1 \in Int /\ N \in Int /\ \A i \in e + 1 .. N : list[i] \in Inputs
  BY <1>1
<1>3. /\ rest \in Seq(Inputs) /\ Len(rest) = IF e + 1 <= N THEN N - (e + 1) + 1 ELSE 0
      /\ \A i \in 1 .. N - (e + 1) + 1 : rest[i] = list[(e + 1) + i - 1]
  BY <1>2, SubSeqProperties
<1>4. e \in 0 .. N
  OBVIOUS
<1> HIDE DEF N, rest
<1>5. Len(rest) = N - e
  BY <1>1, <1>3, <1>4
<1>6. \A i \in 1 .. N - e : e + i \in 1 .. N /\ rest[i] = list[e + i]
  BY <1>1, <1>3, <1>4
<1>7. DOMAIN rest = 1 .. N - e
  BY <1>3, <1>5
<1>8. Elements(rest) \subseteq Elements(list)
  BY <1>1, <1>6, <1>7 DEF Elements
<1>9. ASSUME NEW i \in 1 .. N - e, NEW j \in 1 .. N - e, i < j
      PROVE  Before(rest[i], rest[j])
  <2>1. e + i < e + j
    BY <1>1, <1>4, <1>9
  <2> QED
    BY <1>1, <1>6, <2>1
<1>10. Sorted(rest)
  BY <1>3, <1>7, <1>9 DEF Sorted
<1> QED
  BY <1>5, <1>8, <1>10 DEF N, rest

-----------------------------------------------------------------------------
(* Counting the held inputs. *)
Lists == {list \in Seq(Inputs) : Len(list) <= InputBufferLimit}
SlotsIn(lists, S) == UNION {{c} \X DOMAIN lists[c] : c \in S}

LEMMA SlotsSplit ==
    ASSUME NEW lists \in [Clients -> Lists], NEW c \in Clients
    PROVE  /\ IsFiniteSet(SlotsIn(lists, Clients)) /\ IsFiniteSet(SlotsIn(lists, Clients \ {c}))
           /\ Cardinality(SlotsIn(lists, Clients))
                = Cardinality(SlotsIn(lists, Clients \ {c})) + Len(lists[c])
<1> DEFINE N == Len(lists[c])
           own == {c} \X DOMAIN lists[c]
           rest == SlotsIn(lists, Clients \ {c})
           all == SlotsIn(lists, Clients)
           room == Clients \X (1 .. InputBufferLimit)
<1>1. \A d \in Clients : /\ lists[d] \in Seq(Inputs) /\ Len(lists[d]) \in Nat
                         /\ Len(lists[d]) <= InputBufferLimit
                         /\ DOMAIN lists[d] = 1 .. Len(lists[d])
  <2>1. \A d \in Clients : lists[d] \in Lists
    OBVIOUS
  <2> QED
    BY <2>1 DEF Lists
<1>2. IsFiniteSet(room)
  <2>1. IsFiniteSet(1 .. InputBufferLimit)
    BY BufferLimitAssumption, FS_Interval
  <2> QED
    BY <2>1, ClientsAssumption, FS_Product
<1>3. all \subseteq room
  <2>1. \A d \in Clients : 1 .. Len(lists[d]) \subseteq 1 .. InputBufferLimit
    BY <1>1, BufferLimitAssumption
  <2>2. \A d \in Clients : DOMAIN lists[d] \subseteq 1 .. InputBufferLimit
    BY <1>1, <2>1
  <2> QED
    BY <2>2 DEF SlotsIn
<1>4. all = rest \cup own /\ rest \cap own = {}
  BY DEF SlotsIn
<1>5. IsFiniteSet(all) /\ IsFiniteSet(rest) /\ IsFiniteSet(own)
  <2>1. all \in SUBSET room /\ rest \in SUBSET room /\ own \in SUBSET room
    BY <1>3, <1>4
  <2> QED
    BY <1>2, <2>1, FS_Subset
<1>6. Cardinality(own) = N
  <2>1. DOMAIN lists[c] = 1 .. N /\ N \in Nat
    BY <1>1
  <2>2. IsFiniteSet(1 .. N) /\ Cardinality(1 .. N) = N
    BY <2>1, FS_Interval
  <2>3. IsFiniteSet({c}) /\ Cardinality({c}) = 1
    BY FS_Singleton
  <2>4. Cardinality({c} \X (1 .. N)) = 1 * N
    <3> DEFINE A == {c}
               B == 1 .. N
    <3>1. IsFiniteSet(A) /\ IsFiniteSet(B) /\ Cardinality(A) = 1 /\ Cardinality(B) = N
      BY <2>2, <2>3
    <3> HIDE DEF A, B, N
    <3>2. Cardinality(A \X B) = Cardinality(A) * Cardinality(B)
      BY ONLY <3>1, FS_Product
    <3>3. Cardinality(A \X B) = 1 * N
      BY ONLY <3>1, <3>2
    <3> QED
      BY <3>3 DEF A, B
  <2>5. own = {c} \X (1 .. N)
    BY <2>1
  <2> HIDE DEF N, own
  <2> QED
    BY <2>1, <2>4, <2>5
<1> HIDE DEF rest, own, all, N
<1>7. Cardinality(rest \cup own) = Cardinality(rest) + Cardinality(own) - Cardinality(rest \cap own)
  BY <1>5, FS_Union
<1>8. Cardinality({}) = 0 /\ Cardinality(rest) \in Nat /\ N \in Nat
  BY <1>1, <1>5, FS_EmptySet, FS_CardinalityType DEF N
<1>9. Cardinality(all) = Cardinality(rest) + N
  <2>1. Cardinality(all) = Cardinality(rest) + N - 0
    BY <1>4, <1>6, <1>7, <1>8, Zenon
  <2> QED
    BY <1>8, <2>1
<1> QED
  BY <1>5, <1>9 DEF rest, all, N

(* Replacing one client's list changes the count by the difference. *)
LEMMA SlotsUpdate ==
    ASSUME NEW lists \in [Clients -> Lists], NEW c \in Clients, NEW list \in Lists
    PROVE  LET new == [lists EXCEPT ![c] = list]
           IN  /\ Cardinality(SlotsIn(lists, Clients)) \in Nat
               /\ Cardinality(SlotsIn(new, Clients)) \in Nat
               /\ Cardinality(SlotsIn(new, Clients)) + Len(lists[c])
                    = Cardinality(SlotsIn(lists, Clients)) + Len(list)
<1> DEFINE new == [lists EXCEPT ![c] = list]
           before == SlotsIn(lists, Clients \ {c})
<1>1. new \in [Clients -> Lists] /\ new[c] = list
  OBVIOUS
<1>2. SlotsIn(new, Clients \ {c}) = before
  <2>1. \A d \in Clients \ {c} : new[d] = lists[d]
    OBVIOUS
  <2> HIDE DEF new
  <2> QED
    BY <2>1 DEF SlotsIn
<1> HIDE DEF new, before
<1>3. IsFiniteSet(before) /\ Cardinality(SlotsIn(lists, Clients)) = Cardinality(before) + Len(lists[c])
  BY SlotsSplit DEF before
<1>4. Cardinality(SlotsIn(new, Clients)) = Cardinality(before) + Len(list)
  BY <1>1, <1>2, SlotsSplit
<1>5. Cardinality(before) \in Nat /\ Len(list) \in Nat /\ Len(lists[c]) \in Nat
  <2>1. lists[c] \in Lists
    OBVIOUS
  <2> QED
    BY <1>3, <2>1, FS_CardinalityType DEF Lists
<1> QED
  BY <1>3, <1>4, <1>5 DEF new

-----------------------------------------------------------------------------
(* The inductive invariant.  The input between BufferClientInput's two
   halves is the newest one and nowhere in the buffer; an input that was
   stored ahead of its tick is still ahead of it, or its tick is the current
   one and its client's hook is still to run. *)
SortedInv == \A c \in Clients : Sorted(byClient[c])

NumbersInv ==
    /\ \A a \in adding : a.input.number = inputs /\ inputs \notin aimedAhead
    /\ \A c \in Clients : \A x \in Of(c) :
          x.number <= inputs /\ (adding # {} => x.number < inputs)

AheadInv ==
    \A c \in Clients : \A x \in Of(c) :
        x.number \in aimedAhead => tick < x.tick \/ (x.tick = tick /\ c \in hooks)

InputIInv == InputTypeOK /\ SortedInv /\ NumbersInv /\ AheadInv /\ Balanced

(* What a new list for one client makes of the buffer, if the counters follow. *)
LEMMA ListReplaced ==
    ASSUME InputIInv, NEW c \in Clients, NEW list, Sorted(list), Len(list) <= InputBufferLimit,
           byClient' = [byClient EXCEPT ![c] = list],
           metrics' \in [buffered : Nat, consumed : Nat, dropped : Nat],
           metrics'.buffered + Len(byClient[c]) + metrics.consumed + metrics.dropped
             = metrics.buffered + Len(list) + metrics'.consumed + metrics'.dropped
    PROVE  /\ byClient' \in [Clients -> Seq(Inputs)] /\ SortedInv' /\ Balanced'
           /\ Of(c)' = Elements(list) /\ \A d \in Clients \ {c} : Of(d)' = Of(d)
<1>1. byClient \in [Clients -> Seq(Inputs)] /\ list \in Seq(Inputs)
  BY SortedDomain DEF InputIInv, InputTypeOK
<1>2. byClient'[c] = list /\ \A d \in Clients \ {c} : byClient'[d] = byClient[d]
  BY <1>1
<1>3. byClient' \in [Clients -> Seq(Inputs)]
  BY <1>1
<1>4. SortedInv'
  <2>1. \A d \in Clients : Sorted(byClient[d])
    BY DEF InputIInv, SortedInv
  <2>2. \A d \in Clients : Sorted(byClient'[d])
    BY <1>2, <2>1
  <2> QED
    BY <2>2 DEF SortedInv, Sorted, Before, Precedes
<1>5. Of(c)' = Elements(list) /\ \A d \in Clients \ {c} : Of(d)' = Of(d)
  BY <1>2 DEF Of
<1>6. Balanced'
  <2>1. byClient \in [Clients -> Lists] /\ list \in Lists
    BY <1>1 DEF InputIInv, Balanced, Lists
  <2>2. /\ Cardinality(Slots) \in Nat /\ Cardinality(Slots') \in Nat
        /\ Cardinality(Slots') + Len(byClient[c]) = Cardinality(Slots) + Len(list)
    <3>1. Slots = SlotsIn(byClient, Clients) /\ Slots' = SlotsIn(byClient', Clients)
      BY DEF Slots, SlotsIn
    <3> QED
      BY <2>1, <3>1, SlotsUpdate
  <2>3. metrics.buffered = metrics.consumed + metrics.dropped + Cardinality(Slots)
    BY DEF InputIInv, Balanced
  <2>4. /\ metrics.buffered \in Nat /\ metrics.consumed \in Nat /\ metrics.dropped \in Nat
        /\ metrics'.buffered \in Nat /\ metrics'.consumed \in Nat /\ metrics'.dropped \in Nat
    BY DEF InputIInv, InputTypeOK
  <2>5. Len(byClient[c]) \in Nat /\ Len(list) \in Nat
    BY <1>1
  <2>6. metrics'.buffered = metrics'.consumed + metrics'.dropped + Cardinality(Slots')
    <3> DEFINE b == metrics.buffered
               k == metrics.consumed
               d == metrics.dropped
               b2 == metrics'.buffered
               k2 == metrics'.consumed
               d2 == metrics'.dropped
               s == Cardinality(Slots)
               s2 == Cardinality(Slots')
               l == Len(byClient[c])
               l2 == Len(list)
    <3>1. /\ b \in Nat /\ k \in Nat /\ d \in Nat /\ s \in Nat /\ l \in Nat
          /\ b2 \in Nat /\ k2 \in Nat /\ d2 \in Nat /\ s2 \in Nat /\ l2 \in Nat
      BY <2>2, <2>4, <2>5
    <3>2. b = k + d + s /\ s2 + l = s + l2
      BY <2>2, <2>3
    <3>3. b2 + l + k + d = b + l2 + k2 + d2
      OBVIOUS
    <3> HIDE DEF b, k, d, b2, k2, d2, s, s2, l, l2
    <3>4. b2 = k2 + d2 + s2
      BY <3>1, <3>2, <3>3
    <3> QED
      BY <3>4 DEF b2, k2, d2, s2
  <2>7. \A d \in Clients : Len(byClient'[d]) <= InputBufferLimit
    BY <1>2 DEF InputIInv, Balanced
  <2> QED
    BY <2>6, <2>7 DEF Balanced
<1> QED
  BY <1>3, <1>4, <1>5, <1>6

(* A consume: the matching inputs leave the client's list, no other list
   changes, and the counter goes up by what was handed out. *)
LEMMA TakeKeeps ==
    ASSUME InputIInv, NEW c \in Clients, NEW matching, matching \subseteq Of(c), Take(c, matching)
    PROVE  /\ byClient' \in [Clients -> Seq(Inputs)] /\ SortedInv' /\ Balanced'
           /\ metrics' \in [buffered : Nat, consumed : Nat, dropped : Nat]
           /\ Of(c)' = Of(c) \ matching /\ \A d \in Clients \ {c} : Of(d)' = Of(d)
<1> DEFINE list == byClient[c]
           new == Remaining(list, matching)
<1>1. Sorted(list) /\ Len(list) <= InputBufferLimit /\ byClient \in [Clients -> Seq(Inputs)]
  BY DEF InputIInv, SortedInv, Balanced, InputTypeOK
<1>2. Sorted(new) /\ Elements(new) = Of(c) \ matching
  BY <1>1, RemainingKeeps DEF Of
<1>3. /\ byClient' = [byClient EXCEPT ![c] = new]
      /\ metrics' = [metrics EXCEPT !.consumed = @ + Cardinality(matching)]
  BY <1>1 DEF Take
<1>4. IsFiniteSet(Of(c)) /\ Cardinality(Of(c)) = Len(list) /\ Cardinality(Elements(new)) = Len(new)
  BY <1>1, <1>2, SortedCount DEF Of
<1>5. IsFiniteSet(matching) /\ Cardinality(matching) \in Nat
  BY <1>4, FS_Subset, FS_CardinalityType
<1>6. Len(list) \in Nat /\ Len(new) \in Nat
  BY <1>1, <1>2, SortedDomain
<1>7. Len(new) = Len(list) - Cardinality(matching)
  <2>1. Of(c) \cap matching = matching
    OBVIOUS
  <2>2. Cardinality(Of(c) \ matching) = Cardinality(Of(c)) - Cardinality(Of(c) \cap matching)
    BY <1>4, FS_Difference
  <2> QED
    BY <1>2, <1>4, <2>1, <2>2
<1> HIDE DEF list, new
<1>8. metrics \in [buffered : Nat, consumed : Nat, dropped : Nat]
  BY DEF InputIInv, InputTypeOK
<1>9. /\ metrics' \in [buffered : Nat, consumed : Nat, dropped : Nat]
      /\ metrics'.buffered = metrics.buffered /\ metrics'.dropped = metrics.dropped
      /\ metrics'.consumed = metrics.consumed + Cardinality(matching)
  BY <1>3, <1>5, <1>8
<1>10. Len(new) <= InputBufferLimit
  BY <1>1, <1>5, <1>6, <1>7, BufferLimitAssumption
<1>11. metrics'.buffered + Len(list) + metrics.consumed + metrics.dropped
         = metrics.buffered + Len(new) + metrics'.consumed + metrics'.dropped
  BY <1>5, <1>6, <1>7, <1>8, <1>9
<1>12. /\ byClient' \in [Clients -> Seq(Inputs)] /\ SortedInv' /\ Balanced'
       /\ Of(c)' = Elements(new) /\ \A d \in Clients \ {c} : Of(d)' = Of(d)
  BY <1>2, <1>3, <1>9, <1>10, <1>11, ListReplaced DEF list
<1> QED
  BY <1>2, <1>9, <1>12

(* A step that leaves the lists and the counters alone. *)
LEMMA BufferUnchanged ==
    ASSUME InputIInv, UNCHANGED <<byClient, metrics>>
    PROVE  /\ byClient' \in [Clients -> Seq(Inputs)] /\ SortedInv' /\ Balanced'
           /\ metrics' \in [buffered : Nat, consumed : Nat, dropped : Nat]
           /\ \A c \in Clients : Of(c)' = Of(c)
<1>1. byClient \in [Clients -> Seq(Inputs)] /\ metrics \in [buffered : Nat, consumed : Nat, dropped : Nat]
  BY DEF InputIInv, InputTypeOK
<1>2. Balanced'
  BY DEF InputIInv, Balanced, Slots
<1>3. SortedInv'
  BY DEF InputIInv, SortedInv, Sorted, Before, Precedes
<1> QED
  BY <1>1, <1>2, <1>3 DEF Of

LEMMA InputInitIInv == InputInit => InputIInv
<1> SUFFICES ASSUME InputInit PROVE InputIInv
  OBVIOUS
<1>1. \A c \in Clients : byClient[c] = << >> /\ Of(c) = {}
  BY SortedEmpty DEF InputInit, Of
<1>2. InputTypeOK
  <2>1. byClient \in [Clients -> Seq(Inputs)]
    BY EmptySeq DEF InputInit
  <2> QED
    BY <2>1, BoundsAssumption DEF InputInit, InputTypeOK, Ticks
<1>3. SortedInv
  BY <1>1, SortedEmpty DEF SortedInv
<1>4. NumbersInv /\ AheadInv
  BY <1>1 DEF InputInit, NumbersInv, AheadInv
<1>5. Balanced
  <2>1. Slots = {}
    BY <1>1 DEF Slots
  <2>2. Cardinality(Slots) = 0
    BY <2>1, FS_EmptySet
  <2> QED
    BY <1>1, <2>2, BufferLimitAssumption DEF InputInit, Balanced
<1> QED
  BY <1>2, <1>3, <1>4, <1>5 DEF InputIInv

LEMMA BeginBufferKeeps ==
    ASSUME InputIInv, NEW c \in Clients, NEW sequence \in Stamps, NEW aim \in Ticks,
           NEW object \in Objects, BeginBuffer(c, sequence, aim, object)
    PROVE  InputIInv'
<1>1. /\ byClient' \in [Clients -> Seq(Inputs)] /\ SortedInv' /\ Balanced'
      /\ metrics' \in [buffered : Nat, consumed : Nat, dropped : Nat]
      /\ \A d \in Clients : Of(d)' = Of(d)
  BY BufferUnchanged DEF BeginBuffer
<1>2. /\ tick \in Ticks /\ hooks \subseteq Clients
      /\ inputs \in Nat /\ inputs <= MaxInputs /\ aimedAhead \subseteq 1 .. inputs
  BY BoundsAssumption DEF InputIInv, InputTypeOK
<1>3. inputs + 1 \in 1 .. MaxInputs /\ inputs' = inputs + 1 /\ inputs + 1 \notin aimedAhead
  BY <1>2, BoundsAssumption DEF BeginBuffer
<1> DEFINE input == [number |-> inputs + 1, client |-> c, sequence |-> sequence,
                     tick |-> IF aim = 0 THEN tick ELSE aim, object |-> object]
<1>4. adding' = {[readTick |-> tick, input |-> input]}
  BY DEF BeginBuffer
<1>5. input \in Inputs /\ input.number = inputs + 1
  BY <1>2, <1>3 DEF Inputs
<1> HIDE DEF input
<1>6. \A a \in adding' : a.input = input /\ a.readTick = tick
  BY <1>4
<1>7. tick' = tick /\ hooks' = hooks /\ aimedAhead' = aimedAhead
  BY DEF BeginBuffer
<1>8. InputTypeOK'
  <2>1. aimedAhead' \subseteq 1 .. inputs' /\ inputs' \in 0 .. MaxInputs
    BY <1>2, <1>3, <1>7, BoundsAssumption
  <2> QED
    BY <1>1, <1>2, <1>5, <1>6, <1>7, <2>1 DEF InputTypeOK
<1>9. NumbersInv'
  <2>1. \A d \in Clients : \A x \in Of(d) : x.number <= inputs /\ x.number \in Nat
    <3>1. \A d \in Clients : Sorted(byClient[d])
      BY DEF InputIInv, SortedInv
    <3>2. \A d \in Clients : \A x \in Of(d) : x \in Inputs
      BY <3>1, SortedDomain DEF Of
    <3> QED
      BY <3>2, InputFields DEF InputIInv, NumbersInv
  <2>2. \A d \in Clients : \A x \in Of(d)' : x.number <= inputs' /\ x.number < inputs'
    BY <1>1, <1>2, <1>3, <2>1
  <2> QED
    BY <1>3, <1>5, <1>6, <1>7, <2>2 DEF NumbersInv
<1>10. AheadInv'
  BY <1>1, <1>7 DEF InputIInv, AheadInv
<1> QED
  BY <1>1, <1>8, <1>9, <1>10 DEF InputIInv

LEMMA RejectKeeps == InputIInv /\ Reject => InputIInv'
<1> SUFFICES ASSUME InputIInv, Reject PROVE InputIInv'
  OBVIOUS
<1>1. /\ byClient' \in [Clients -> Seq(Inputs)] /\ SortedInv' /\ Balanced'
      /\ metrics' \in [buffered : Nat, consumed : Nat, dropped : Nat]
      /\ \A d \in Clients : Of(d)' = Of(d)
  BY BufferUnchanged DEF Reject
<1>2. adding' = {} /\ UNCHANGED <<tick, hooks, inputs, aimedAhead>>
  BY DEF Reject
<1>3. InputTypeOK' /\ NumbersInv' /\ AheadInv'
  BY <1>1, <1>2 DEF InputIInv, InputTypeOK, NumbersInv, AheadInv
<1> QED
  BY <1>1, <1>3 DEF InputIInv

LEMMA AdvanceKeeps == InputIInv /\ Advance => InputIInv'
<1> SUFFICES ASSUME InputIInv, Advance PROVE InputIInv'
  OBVIOUS
<1>1. /\ byClient' \in [Clients -> Seq(Inputs)] /\ SortedInv' /\ Balanced'
      /\ metrics' \in [buffered : Nat, consumed : Nat, dropped : Nat]
      /\ \A d \in Clients : Of(d)' = Of(d)
  BY BufferUnchanged DEF Advance
<1>2. /\ tick \in Nat /\ tick' = tick + 1 /\ tick' \in Ticks /\ hooks = {} /\ hooks' = Clients
      /\ UNCHANGED <<adding, inputs, aimedAhead>>
  BY BoundsAssumption DEF Advance, InputIInv, InputTypeOK, Ticks
<1>3. InputTypeOK'
  BY <1>1, <1>2 DEF InputIInv, InputTypeOK
<1>4. NumbersInv'
  BY <1>1, <1>2 DEF InputIInv, NumbersInv
<1>5. AheadInv'
  <2>1. \A d \in Clients : \A x \in Of(d) : x.tick \in Nat
    <3>1. \A d \in Clients : Sorted(byClient[d])
      BY DEF InputIInv, SortedInv
    <3>2. \A d \in Clients : \A x \in Of(d) : x \in Inputs
      BY <3>1, SortedDomain DEF Of
    <3> QED
      BY <3>2, InputFields
  <2>2. \A d \in Clients : \A x \in Of(d) : x.number \in aimedAhead => tick < x.tick
    BY <1>2 DEF InputIInv, AheadInv
  <2>3. \A d \in Clients : \A x \in Of(d) :
           x.number \in aimedAhead => tick + 1 < x.tick \/ x.tick = tick + 1
    BY <1>2, <2>1, <2>2
  <2> QED
    BY <1>1, <1>2, <2>3 DEF AheadInv
<1> QED
  BY <1>1, <1>3, <1>4, <1>5 DEF InputIInv

(* Taking inputs out of the buffer disturbs the invariant only where a hook
   ends without the inputs of its tick. *)
LEMMA TakingKeeps ==
    ASSUME InputIInv, NEW c \in Clients, NEW matching, matching \subseteq Of(c), Take(c, matching),
           UNCHANGED <<tick, adding, inputs, aimedAhead>>, hooks' \subseteq hooks,
           hooks \subseteq hooks' \cup {c},
           c \notin hooks' => \A x \in Of(c) : x.tick = tick => x \in matching
    PROVE  InputIInv'
<1>1. /\ byClient' \in [Clients -> Seq(Inputs)] /\ SortedInv' /\ Balanced'
      /\ metrics' \in [buffered : Nat, consumed : Nat, dropped : Nat]
      /\ Of(c)' = Of(c) \ matching /\ \A d \in Clients \ {c} : Of(d)' = Of(d)
  BY TakeKeeps
<1>2. InputTypeOK'
  BY <1>1 DEF InputIInv, InputTypeOK
<1>3. \A d \in Clients : \A x \in Of(d)' : x \in Of(d)
  BY <1>1
<1>4. NumbersInv'
  BY <1>3 DEF InputIInv, NumbersInv
<1>5. AheadInv'
  <2> SUFFICES ASSUME NEW d \in Clients, NEW x \in Of(d)', x.number \in aimedAhead
               PROVE  tick < x.tick \/ (x.tick = tick /\ d \in hooks')
    BY DEF AheadInv
  <2>1. tick < x.tick \/ (x.tick = tick /\ d \in hooks)
    BY <1>3 DEF InputIInv, AheadInv
  <2>2. CASE d = c
    BY <1>1, <2>1, <2>2
  <2>3. CASE d # c
    BY <2>1, <2>3
  <2> QED
    BY <2>2, <2>3
<1> QED
  BY <1>1, <1>2, <1>4, <1>5 DEF InputIInv

LEMMA ConsumeKeeps ==
    ASSUME InputIInv, NEW c \in Clients, Consume(c)
    PROVE  InputIInv'
<1> DEFINE matching == {x \in Of(c) : AtTick(x, tick)}
<1>1. Take(c, matching) /\ UNCHANGED <<tick, adding, inputs, aimedAhead>> /\ hooks' = hooks \ {c}
  BY DEF Consume
<1>2. matching \subseteq Of(c) /\ \A x \in Of(c) : x.tick = tick => x \in matching
  BY DEF AtTick
<1> HIDE DEF matching
<1> QED
  BY <1>1, <1>2, TakingKeeps

LEMMA ConsumeForObjectKeeps ==
    ASSUME InputIInv, NEW c \in Clients, NEW object, ConsumeForObject(c, object)
    PROVE  InputIInv'
<1> DEFINE matching == {x \in Of(c) : AtTick(x, tick) /\ x.object = object}
<1>1. /\ Take(c, matching) /\ UNCHANGED <<tick, adding, inputs, aimedAhead>> /\ hooks' = hooks
      /\ c \in hooks
  BY DEF ConsumeForObject
<1>2. matching \subseteq Of(c)
  OBVIOUS
<1> HIDE DEF matching
<1> QED
  BY <1>1, <1>2, TakingKeeps

LEMMA ConsumeForTickKeeps ==
    ASSUME InputIInv, NEW c \in Clients, NEW t, ConsumeForTick(c, t)
    PROVE  InputIInv'
<1> DEFINE matching == {x \in Of(c) : AtTick(x, t)}
<1>1. /\ Take(c, matching) /\ UNCHANGED <<tick, adding, inputs, aimedAhead>> /\ hooks' = hooks
      /\ c \in hooks
  BY DEF ConsumeForTick
<1>2. matching \subseteq Of(c)
  OBVIOUS
<1> HIDE DEF matching
<1> QED
  BY <1>1, <1>2, TakingKeeps

LEMMA AddKeeps == InputIInv /\ Add => InputIInv'
<1> SUFFICES ASSUME InputIInv, Add PROVE InputIInv'
  OBVIOUS
<1>1. PICK a \in adding :
         LET list == Insert(byClient[a.input.client], a.input)
             excess == Excess(list)
         IN  /\ byClient' = [byClient EXCEPT
                   ![a.input.client] = SubSeq(list, excess + 1, Len(list))]
             /\ metrics' = [metrics EXCEPT !.buffered = @ + 1, !.dropped = @ + excess]
             /\ aimedAhead' = IF a.input.tick > tick
                              THEN aimedAhead \cup {a.input.number} ELSE aimedAhead
  BY DEF Add
<1> DEFINE input == a.input
           c == input.client
           old == byClient[c]
           list == Insert(old, input)
           e == Excess(list)
           new == SubSeq(list, e + 1, Len(list))
<1>2. adding' = {} /\ UNCHANGED <<tick, hooks, inputs>>
  BY DEF Add
<1>3. /\ input \in Inputs /\ c \in Clients /\ input.number = inputs /\ input.tick \in Nat
      /\ inputs \notin aimedAhead
  BY InputFields DEF InputIInv, InputTypeOK, NumbersInv
<1>4. Sorted(old) /\ Len(old) <= InputBufferLimit
  BY <1>3 DEF InputIInv, SortedInv, Balanced
<1>5. \A d \in Clients : \A x \in Of(d) : x \in Inputs /\ x.number < inputs
  <2>1. \A d \in Clients : Sorted(byClient[d])
    BY DEF InputIInv, SortedInv
  <2>2. \A d \in Clients : \A x \in Of(d) : x \in Inputs
    BY <2>1, SortedDomain DEF Of
  <2> QED
    BY <1>1, <2>2 DEF InputIInv, NumbersInv
<1>6. inputs \in 1 .. MaxInputs /\ tick \in Nat /\ aimedAhead \subseteq 1 .. inputs
  <2>1. input.number \in 1 .. MaxInputs
    BY <1>3 DEF Inputs
  <2> QED
    BY <1>3, <2>1, BoundsAssumption DEF InputIInv, InputTypeOK, Ticks
<1>7. \A x \in Elements(old) : x.number # input.number
  <2>1. \A x \in Elements(old) : x.number < inputs /\ x.number \in Nat
    BY <1>3, <1>5, InputFields DEF Of
  <2> QED
    BY <1>3, <1>6, <2>1
<1>8. Sorted(list) /\ Len(list) = Len(old) + 1 /\ Elements(list) = Elements(old) \cup {input}
  BY <1>3, <1>4, <1>7, InsertKeeps
<1>9. Len(old) \in Nat /\ Len(list) \in Nat
  BY <1>4, <1>8, SortedDomain
<1>10. e \in 0 .. Len(list) /\ Len(list) - e <= InputBufferLimit /\ e \in Nat
  BY <1>9, BufferLimitAssumption DEF Excess
<1>11. Sorted(new) /\ Len(new) = Len(list) - e /\ Elements(new) \subseteq Elements(list)
  BY <1>8, <1>10, DropKeeps
<1>12. /\ byClient' = [byClient EXCEPT ![c] = new]
       /\ metrics' = [metrics EXCEPT !.buffered = @ + 1, !.dropped = @ + e]
       /\ aimedAhead' = IF input.tick > tick THEN aimedAhead \cup {inputs} ELSE aimedAhead
  BY <1>1, <1>3
<1> HIDE DEF input, c, old, list, e, new
<1>13. metrics \in [buffered : Nat, consumed : Nat, dropped : Nat]
  BY DEF InputIInv, InputTypeOK
<1>14. /\ metrics' \in [buffered : Nat, consumed : Nat, dropped : Nat]
       /\ metrics'.buffered = metrics.buffered + 1 /\ metrics'.dropped = metrics.dropped + e
       /\ metrics'.consumed = metrics.consumed
  <2>1. /\ metrics'.buffered = metrics.buffered + 1 /\ metrics'.dropped = metrics.dropped + e
        /\ metrics'.consumed = metrics.consumed
    BY <1>12, <1>13
  <2>2. metrics.buffered + 1 \in Nat /\ metrics.dropped + e \in Nat /\ metrics.consumed \in Nat
    BY <1>10, <1>13
  <2>3. metrics' \in [buffered : Nat, consumed : Nat, dropped : Nat]
    BY <1>12, <1>13, <2>2
  <2> QED
    BY <2>1, <2>3
<1>15. metrics'.buffered + Len(old) + metrics.consumed + metrics.dropped
         = metrics.buffered + Len(new) + metrics'.consumed + metrics'.dropped
  <2> DEFINE b == metrics.buffered
             k == metrics.consumed
             d == metrics.dropped
             l == Len(old)
             l2 == Len(new)
             m == Len(list)
  <2>1. b \in Nat /\ k \in Nat /\ d \in Nat
    BY <1>13
  <2>2. l \in Nat /\ m = l + 1 /\ l2 = m - e /\ e \in Nat /\ m \in Nat
    BY <1>8, <1>9, <1>10, <1>11
  <2>3. metrics'.buffered = b + 1 /\ metrics'.consumed = k /\ metrics'.dropped = d + e
    BY <1>14
  <2> HIDE DEF b, k, d, l, l2, m
  <2>4. (b + 1) + l + k + d = b + l2 + k + (d + e)
    BY <2>1, <2>2
  <2>5. metrics'.buffered + l + k + d = b + l2 + metrics'.consumed + metrics'.dropped
    BY <2>3, <2>4
  <2> QED
    BY <2>5 DEF b, k, d, l, l2
<1>16. Len(new) <= InputBufferLimit
  BY <1>10, <1>11
<1>17. /\ byClient' \in [Clients -> Seq(Inputs)] /\ SortedInv' /\ Balanced'
       /\ Of(c)' = Elements(new) /\ \A d \in Clients \ {c} : Of(d)' = Of(d)
  BY <1>3, <1>11, <1>12, <1>14, <1>15, <1>16, ListReplaced DEF old
<1>18. aimedAhead' \subseteq 1 .. inputs
  BY <1>6, <1>12, BoundsAssumption
<1>19. InputTypeOK'
  BY <1>2, <1>14, <1>17, <1>18 DEF InputIInv, InputTypeOK
<1>20. \A d \in Clients : \A x \in Of(d)' : x \in Of(d) \/ (d = c /\ x = input)
  BY <1>8, <1>11, <1>17 DEF Of, old
<1>21. NumbersInv'
  <2>1. \A d \in Clients : \A x \in Of(d)' : x.number <= inputs
    <3>1. \A d \in Clients : \A x \in Of(d) : x.number <= inputs
      BY DEF InputIInv, NumbersInv
    <3>2. inputs <= inputs
      BY <1>6, BoundsAssumption
    <3> QED
      BY <1>3, <1>20, <3>1, <3>2
  <2> QED
    BY <1>2, <2>1 DEF NumbersInv
<1>22. AheadInv'
  <2> SUFFICES ASSUME NEW d \in Clients, NEW x \in Of(d)', x.number \in aimedAhead'
               PROVE  tick < x.tick \/ (x.tick = tick /\ d \in hooks)
    BY <1>2 DEF AheadInv
  <2>1. CASE x \in Of(d)
    <3>1. x.number \in Nat /\ x.number < inputs
      BY <1>5, <2>1, InputFields
    <3>2. x.number \in aimedAhead
      BY <1>6, <1>12, <3>1, BoundsAssumption
    <3> QED
      BY <2>1, <3>2 DEF InputIInv, AheadInv
  <2>2. CASE x = input
    <3>1. input.tick > tick
      BY <1>3, <1>12, <2>2
    <3> QED
      BY <1>3, <1>6, <2>2, <3>1
  <2> QED
    BY <1>20, <2>1, <2>2
<1> QED
  BY <1>17, <1>19, <1>21, <1>22 DEF InputIInv

LEMMA InputNextIInv == InputIInv /\ [InputNext]_inputVars => InputIInv'
<1> SUFFICES ASSUME InputIInv, [InputNext]_inputVars PROVE InputIInv'
  OBVIOUS
<1>1. CASE \E c \in Clients, sequence \in Stamps, aim \in Ticks, object \in Objects :
              BeginBuffer(c, sequence, aim, object)
  BY <1>1, BeginBufferKeeps
<1>2. CASE Reject
  BY <1>2, RejectKeeps
<1>3. CASE Add
  BY <1>3, AddKeeps
<1>4. CASE Advance
  BY <1>4, AdvanceKeeps
<1>5. CASE \E c \in Clients : Consume(c)
  BY <1>5, ConsumeKeeps
<1>6. CASE \E c \in Clients : \E object \in Objects : ConsumeForObject(c, object)
  BY <1>6, ConsumeForObjectKeeps
<1>7. CASE \E c \in Clients : \E t \in Ticks : ConsumeForTick(c, t)
  BY <1>7, ConsumeForTickKeeps
<1>8. CASE UNCHANGED inputVars
  <2>1. /\ byClient' \in [Clients -> Seq(Inputs)] /\ SortedInv' /\ Balanced'
        /\ metrics' \in [buffered : Nat, consumed : Nat, dropped : Nat]
        /\ \A d \in Clients : Of(d)' = Of(d)
    BY <1>8, BufferUnchanged DEF inputVars
  <2>2. UNCHANGED <<tick, hooks, adding, inputs, aimedAhead>>
    BY <1>8 DEF inputVars
  <2>3. InputTypeOK' /\ NumbersInv' /\ AheadInv'
    BY <2>1, <2>2 DEF InputIInv, InputTypeOK, NumbersInv, AheadInv
  <2> QED
    BY <2>1, <2>3 DEF InputIInv
<1> QED
  BY <1>1, <1>2, <1>3, <1>4, <1>5, <1>6, <1>7, <1>8 DEF InputNext

(* The inductive invariant of the input buffer holds in every state. *)
THEOREM InputInvariance == InputSpec => []InputIInv
  BY InputInitIInv, InputNextIInv, PTL DEF InputSpec

(* The counters of input_buffer.go account for every input: what was
   buffered has been consumed, was dropped by the limit, or is held, and no
   client holds more than InputBufferLimit, for every number of clients,
   windows and limits, and every interleaving of receiving and ticking. *)
THEOREM BalancedHolds == InputSpec => []Balanced
<1>1. InputIInv => Balanced
  BY DEF InputIInv
<1> QED
  BY <1>1, InputInvariance, PTL

(* sortClientInputs keeps every client's inputs in tick and sequence order,
   through insertion, consumption and dropping. *)
THEOREM OrderedHolds == InputSpec => []Ordered
<1>1. InputIInv => Ordered
  <2> SUFFICES ASSUME InputIInv, NEW c \in Clients,
                      NEW i \in DOMAIN byClient[c], NEW j \in DOMAIN byClient[c], i < j
               PROVE  LET x == byClient[c][i]
                          y == byClient[c][j]
                      IN  x.tick < y.tick \/ (x.tick = y.tick /\ x.sequence <= y.sequence)
    BY DEF Ordered
  <2> DEFINE x == byClient[c][i]
             y == byClient[c][j]
  <2>1. Sorted(byClient[c])
    BY DEF InputIInv, SortedInv
  <2>2. x \in Inputs /\ y \in Inputs /\ Before(x, y)
    BY <2>1, SortedDomain
  <2> HIDE DEF x, y
  <2>3. x.tick < y.tick \/ (x.tick = y.tick /\ x.sequence <= y.sequence)
    BY <2>2, InputFields DEF Before, Precedes
  <2> QED
    BY <2>3 DEF x, y
<1> QED
  BY <1>1, InputInvariance, PTL

(* An input that ConsumeClientInputs could have seen in its tick is gone
   when the hooks of that tick are through. *)
THEOREM AheadIsConsumedHolds == InputSpec => []AheadIsConsumed
<1>1. InputIInv => AheadIsConsumed
  <2> SUFFICES ASSUME InputIInv, hooks = {}, NEW x \in Held, x.number \in aimedAhead
               PROVE  x.tick > tick
    BY DEF AheadIsConsumed
  <2>1. PICK c \in Clients : x \in Of(c)
    BY DEF Held
  <2>2. tick < x.tick
    BY <2>1 DEF InputIInv, AheadInv
  <2>3. x \in Inputs /\ tick \in Nat
    BY <2>1, SortedDomain, BoundsAssumption DEF InputIInv, SortedInv, InputTypeOK, Of, Ticks
  <2> QED
    BY <2>2, <2>3, InputFields
<1> QED
  BY <1>1, InputInvariance, PTL

-----------------------------------------------------------------------------
(* The agreement of the handshake. *)

ConfigOK ==
    /\ Normalized(config).MaxPacketSize = config.MaxPacketSize
    /\ config.MaxPacketSize \in Nat \ {0}

ClientOK ==
    /\ client = [wireProtocol |-> client.wireProtocol,
                 wireNegotiated |-> client.wireNegotiated,
                 wireVersion |-> client.wireVersion,
                 wireCapabilities |-> client.wireCapabilities,
                 maxPacketSize |-> client.maxPacketSize]
    /\ client.maxPacketSize \in Nat \ {0}

AskedOK == asked.size \in Nat

(* The client's record holds what the last hello agreed on.  An empty set of
   capabilities does not last, which is why it is left out. *)
RecordsAgreement ==
    Requested(asked) =>
        /\ client.wireNegotiated
        /\ Agreed # {} => client.wireCapabilities = Agreed
        /\ client.maxPacketSize = AgreedSize

AgreementIInv == ConfigOK /\ ClientOK /\ AskedOK /\ RecordsAgreement

-----------------------------------------------------------------------------
(* A normalized packet size is positive, and normalizing again keeps it. *)
LEMMA NormalizedSize ==
    ASSUME NEW c, c.MaxPacketSize \in Int
    PROVE  /\ Normalized(c).MaxPacketSize \in Nat \ {0}
           /\ Normalized(Normalized(c)).MaxPacketSize = Normalized(c).MaxPacketSize
<1>1. \A d : Normalized(d).MaxPacketSize =
               Lower(Positive(d.MaxPacketSize, DefaultMaxPacketSize), LargestPacketSize)
  BY DEF Normalized
<1>2. Normalized(c).MaxPacketSize \in 1 .. LargestPacketSize
  BY <1>1, PacketSizeAssumption DEF Lower, Positive
<1>3. Normalized(Normalized(c)).MaxPacketSize = Normalized(c).MaxPacketSize
  BY <1>1, <1>2, PacketSizeAssumption DEF Lower, Positive
<1> QED
  BY <1>2, <1>3, PacketSizeAssumption

LEMMA InitEstablishes == HandshakeInit => AgreementIInv
<1> SUFFICES ASSUME HandshakeInit PROVE AgreementIInv
  OBVIOUS
<1>1. PICK c \in Configs : config = Normalized(c)
  BY DEF HandshakeInit
<1>2. ConfigOK
  BY <1>1, NormalizedSize, ConfigsAssumption DEF ConfigOK
<1>3. ClientOK
  BY <1>2 DEF HandshakeInit, ClientOK, ConfigOK, NewClient
<1>4. AskedOK /\ ~Requested(asked)
  BY DEF HandshakeInit, AskedOK, Requested, NoTerms, Terms
<1> QED
  BY <1>2, <1>3, <1>4 DEF AgreementIInv, RecordsAgreement

LEMMA PacketPreserves == AgreementIInv /\ TakePacket => AgreementIInv'
<1> SUFFICES ASSUME AgreementIInv, TakePacket PROVE AgreementIInv'
  OBVIOUS
<1>1. config' = config /\ asked' = asked
  BY DEF TakePacket
<1>2. /\ client' = [wireProtocol |-> TRUE,
                    wireNegotiated |-> client.wireNegotiated,
                    wireVersion |-> Positive(client.wireVersion, ProtocolVersion),
                    wireCapabilities |-> IF client.wireCapabilities = {}
                                         THEN DefaultWireCapabilities
                                         ELSE client.wireCapabilities,
                    maxPacketSize |-> client.maxPacketSize]
      /\ client.maxPacketSize \in Nat \ {0}
  <2>1. client.maxPacketSize \in Nat \ {0} /\ client.maxPacketSize # 0
    BY DEF AgreementIInv, ClientOK
  <2> QED
    BY <2>1 DEF AgreementIInv, ClientOK, TakePacket, MarkWireClient
<1>3. ClientOK'
  BY <1>2 DEF ClientOK
<1>4. ConfigOK' /\ AskedOK'
  BY <1>1 DEF AgreementIInv, ConfigOK, AskedOK
<1>5. Agreed' = Agreed /\ AgreedSize' = AgreedSize
  BY <1>1 DEF Agreed, AgreedSize
<1>6. RecordsAgreement'
  BY <1>1, <1>2, <1>5 DEF AgreementIInv, RecordsAgreement
<1> QED
  BY <1>3, <1>4, <1>6 DEF AgreementIInv

(* A hello that can be negotiated leaves in the client's record just what the
   two sides have in common, the empty set included. *)
LEMMA HelloRecords ==
    ASSUME NEW hello \in Hellos, AgreementIInv, TakeHello(hello), Negotiable(hello)
    PROVE  /\ asked' = hello
           /\ ClientOK'
           /\ Requested(hello) => /\ client'.wireNegotiated
                                  /\ client'.wireVersion = ProtocolVersion
                                  /\ client'.wireCapabilities = Agreed'
                                  /\ client'.maxPacketSize = AgreedSize'
<1> DEFINE welcome == NegotiateClientHello(config, hello)
           sized == ApplyClientPacketSize(client, config, hello.size)
<1>1. config' = config /\ asked' = hello /\ client' = ApplyNegotiatedWireState(sized, welcome)
  BY DEF TakeHello, Negotiated
<1>2. hello.size \in Nat /\ hello.version \in Nat
  BY HellosAssumption
<1>3. /\ config.MaxPacketSize \in Nat \ {0}
      /\ Normalized(config).MaxPacketSize = config.MaxPacketSize
  BY DEF AgreementIInv, ConfigOK
<1>4. /\ sized = [wireProtocol |-> client.wireProtocol,
                  wireNegotiated |-> client.wireNegotiated,
                  wireVersion |-> client.wireVersion,
                  wireCapabilities |-> client.wireCapabilities,
                  maxPacketSize |-> IF hello.size > 0 THEN Lower(hello.size, config.MaxPacketSize)
                                    ELSE client.maxPacketSize]
      /\ sized.maxPacketSize \in Nat \ {0}
  <2>1. client.maxPacketSize \in Nat \ {0}
    BY DEF AgreementIInv, ClientOK
  <2>2. sized = [wireProtocol |-> client.wireProtocol,
                 wireNegotiated |-> client.wireNegotiated,
                 wireVersion |-> client.wireVersion,
                 wireCapabilities |-> client.wireCapabilities,
                 maxPacketSize |-> IF hello.size > 0 THEN Lower(hello.size, config.MaxPacketSize)
                                   ELSE client.maxPacketSize]
    BY DEF AgreementIInv, ClientOK, ApplyClientPacketSize
  <2> QED
    BY <2>1, <2>2, <1>2, <1>3 DEF Lower
<1>5. welcome.size \in Nat
  BY <1>2, <1>3 DEF NegotiateClientHello, NoTerms, Terms, Lower
<1> HIDE DEF welcome, sized
<1>6. client' = [wireProtocol |-> sized.wireProtocol,
                 wireNegotiated |-> welcome.version # 0 \/ welcome.capabilities # {},
                 wireVersion |-> IF welcome.version # 0 THEN welcome.version
                                 ELSE sized.wireVersion,
                 wireCapabilities |->
                     IF welcome.version # 0 \/ welcome.capabilities # {}
                     THEN welcome.capabilities ELSE sized.wireCapabilities,
                 maxPacketSize |-> IF welcome.size > 0 THEN welcome.size
                                   ELSE sized.maxPacketSize]
  BY <1>1, <1>4 DEF ApplyNegotiatedWireState
<1>7. ClientOK'
  BY <1>4, <1>5, <1>6 DEF ClientOK
<1>8. ASSUME Requested(hello)
      PROVE  /\ client'.wireNegotiated
             /\ client'.wireVersion = ProtocolVersion
             /\ client'.wireCapabilities = Agreed'
             /\ client'.maxPacketSize = AgreedSize'
  <2>1. welcome = Terms(ProtocolVersion,
                        hello.capabilities \cap Normalized(config).Capabilities,
                        IF hello.size > 0 THEN Lower(hello.size, config.MaxPacketSize)
                        ELSE config.MaxPacketSize)
    BY <1>8, <1>3 DEF welcome, NegotiateClientHello
  <2>2. /\ Agreed' = hello.capabilities \cap Normalized(config).Capabilities
        /\ AgreedSize' = IF hello.size > 0 THEN Lower(hello.size, config.MaxPacketSize)
                         ELSE config.MaxPacketSize
    BY <1>1 DEF Agreed, AgreedSize
  <2>3. /\ welcome.version = ProtocolVersion /\ welcome.version # 0
        /\ welcome.capabilities = Agreed'
        /\ welcome.size = AgreedSize' /\ welcome.size > 0
    BY <2>1, <2>2, <1>2, <1>3 DEF Terms, Lower, ProtocolVersion
  <2>4. client'.wireNegotiated
    BY <1>6, <2>3
  <2>5. client'.wireVersion = ProtocolVersion /\ client'.wireCapabilities = Agreed'
    BY <1>6, <2>3
  <2>6. client'.maxPacketSize = AgreedSize'
    BY <1>6, <2>3
  <2> QED
    BY <2>4, <2>5, <2>6
<1> QED
  BY <1>1, <1>7, <1>8

LEMMA HelloPreserves ==
    ASSUME NEW hello \in Hellos, AgreementIInv, TakeHello(hello)
    PROVE  AgreementIInv'
<1>1. config' = config
  BY DEF TakeHello
<1>2. CASE ~Negotiable(hello)
  BY <1>1, <1>2 DEF TakeHello, Negotiated, AgreementIInv, ConfigOK, ClientOK, AskedOK,
                    RecordsAgreement, Agreed, AgreedSize
<1>3. CASE Negotiable(hello)
  <2>1. ConfigOK' /\ AskedOK'
    BY <1>1, <1>3, HelloRecords, HellosAssumption DEF AgreementIInv, ConfigOK, AskedOK
  <2>2. ClientOK' /\ RecordsAgreement'
    BY <1>3, HelloRecords DEF RecordsAgreement
  <2> QED
    BY <2>1, <2>2 DEF AgreementIInv
<1> QED
  BY <1>2, <1>3

LEMMA ForgetPreserves == AgreementIInv /\ Forget => AgreementIInv'
<1> SUFFICES ASSUME AgreementIInv, Forget PROVE AgreementIInv'
  OBVIOUS
<1>1. ConfigOK' /\ ClientOK'
  BY DEF AgreementIInv, Forget, ConfigOK, ClientOK, NewClient
<1>2. AskedOK' /\ ~Requested(asked')
  BY DEF Forget, AskedOK, Requested, NoTerms, Terms
<1> QED
  BY <1>1, <1>2 DEF AgreementIInv, RecordsAgreement

LEMMA StepPreserves == AgreementIInv /\ [HandshakeNext]_handshakeVars => AgreementIInv'
<1> SUFFICES ASSUME AgreementIInv, [HandshakeNext]_handshakeVars PROVE AgreementIInv'
  OBVIOUS
<1>1. CASE TakePacket
  BY <1>1, PacketPreserves
<1>2. CASE \E hello \in Hellos : TakeHello(hello)
  BY <1>2, HelloPreserves
<1>3. CASE Forget
  BY <1>3, ForgetPreserves
<1>4. CASE UNCHANGED handshakeVars
  BY <1>4 DEF handshakeVars, AgreementIInv, ConfigOK, ClientOK, AskedOK, RecordsAgreement,
              Agreed, AgreedSize
<1> QED
  BY <1>1, <1>2, <1>3, <1>4 DEF HandshakeNext

LEMMA AgreementInvariance == HandshakeSpec => []AgreementIInv
  BY InitEstablishes, StepPreserves, PTL DEF HandshakeSpec

-----------------------------------------------------------------------------
(* After a hello with terms the server uses, of applyNegotiatedWireState's
   record, exactly the capabilities that both sides have, whatever packets,
   hellos, failed authentications and expiries follow, as long as they have
   any in common. *)
THEOREM UsesOnlyAgreedHolds == HandshakeSpec => []UsesOnlyAgreed
<1>1. AgreementIInv => UsesOnlyAgreed
  BY DEF AgreementIInv, RecordsAgreement, UsesOnlyAgreed, Supports
<1> QED
  BY AgreementInvariance, <1>1, PTL

(* negotiatedMaxPacketSize is the lower of the server's limit and the one the
   client asked for, although applyClientPacketSize, applyNegotiatedWireState
   and markWireClient all write the field it reads. *)
THEOREM LimitIsLowerHolds == HandshakeSpec => []LimitIsLower
<1>1. AgreementIInv => LimitIsLower
  <2> SUFFICES ASSUME AgreementIInv, Requested(asked)
               PROVE  NegotiatedMaxPacketSize(client, config) = AgreedSize
    BY DEF LimitIsLower
  <2>1. client.maxPacketSize = AgreedSize
    BY DEF AgreementIInv, RecordsAgreement
  <2>2. asked.size \in Nat /\ config.MaxPacketSize \in Nat \ {0}
    BY DEF AgreementIInv, AskedOK, ConfigOK
  <2> QED
    BY <2>1, <2>2 DEF NegotiatedMaxPacketSize, AgreedSize, Lower
<1> QED
  BY AgreementInvariance, <1>1, PTL

-----------------------------------------------------------------------------
(* The codec: integers, counted runs of bytes and framing. *)

(* Two functions that take the same steps agree. *)
LEMMA AgreeUpTo ==
    ASSUME NEW N \in Nat, NEW f, NEW g, f[0] = g[0],
           \A n \in 1 .. N : f[n - 1] = g[n - 1] => f[n] = g[n]
    PROVE  \A n \in 0 .. N : f[n] = g[n]
<1> DEFINE S == {n \in 0 .. N : f[n] = g[n]}
<1>1. 0 \in S
  OBVIOUS
<1>2. \A n \in 1 .. N : n - 1 \in S => n \in S
  OBVIOUS
<1> HIDE DEF S
<1>3. \A n \in 0 .. N : n \in S
  BY <1>1, <1>2, InductionUpTo
<1> QED
  BY <1>3 DEF S

Widths == 0 .. ShortLen + WordLen + LongLen

(* A width of n bytes holds ByteBase ^ n integers. *)
LEMMA PowerFacts ==
    /\ Power[0] = 1
    /\ \A n \in Widths : Power[n] \in Nat \ {0}
    /\ \A n \in Widths \ {0} : Power[n] = ByteBase * Power[n - 1]
<1> DEFINE N == ShortLen + WordLen + LongLen
           step == [n \in 1 .. N |-> [t \in Nat \ {0} |-> ByteBase * t]]
           Loop(f) == f = [n \in 0 .. N |-> IF n = 0 THEN 1 ELSE ByteBase * f[n - 1]]
<1>1. N \in Nat /\ ByteBase \in Nat \ {0} /\ Widths = 0 .. N
  BY WidthAssumption DEF Widths
<1>2. \A n \in 1 .. N, t \in Nat \ {0} : step[n][t] \in Nat \ {0} /\ step[n][t] = ByteBase * t
  <2>1. \A t \in Nat \ {0} : ByteBase * t \in Nat \ {0}
    BY <1>1
  <2> QED
    BY <2>1
<1> HIDE DEF N, step
<1>3. PICK f : Iterates(f, Nat \ {0}, 1, N, step)
  <2> DEFINE T == Nat \ {0}
             start == 1
  <2>1. N \in Nat /\ start \in T /\ \A n \in 1 .. N, t \in T : step[n][t] \in T
    BY <1>1, <1>2
  <2> HIDE DEF T, start
  <2>2. \E f : Iterates(f, T, start, N, step)
    BY <2>1, PrimitiveRecursion
  <2> QED
    BY <2>2 DEF T, start
<1>4. /\ f \in [0 .. N -> Nat \ {0}] /\ f[0] = 1
      /\ \A n \in 1 .. N : f[n] = ByteBase * f[n - 1]
  <2>1. ASSUME NEW n \in 1 .. N PROVE n - 1 \in 0 .. N
    BY <1>1
  <2> QED
    BY <1>2, <1>3, <2>1 DEF Iterates
<1>5. Loop(f)
  BY <1>1, <1>4
<1> DEFINE loop == CHOOSE g : Loop(g)
<1>6. Power = loop
  BY DEF Power, N
<1>7. Loop(loop)
  BY <1>5
<1> HIDE DEF loop
<1>8. \A n \in 0 .. N : loop[n] = f[n]
  <2>1. loop[0] = f[0]
    BY <1>1, <1>4, <1>7
  <2>2. ASSUME NEW n \in 1 .. N, loop[n - 1] = f[n - 1] PROVE loop[n] = f[n]
    BY <1>1, <1>4, <1>7, <2>2, SMTT(30)
  <2>3. N \in Nat
    BY <1>1
  <2> HIDE DEF Loop
  <2> QED
    BY ONLY <2>1, <2>2, <2>3, AgreeUpTo
<1>9. \A n \in 0 .. N : Power[n] = f[n]
  BY <1>6, <1>8
<1> QED
  <2>1. ASSUME NEW n \in 1 .. N PROVE n - 1 \in 0 .. N /\ n \in 0 .. N
    BY <1>1
  <2>2. Widths \ {0} = 1 .. N /\ 0 \in 0 .. N
    BY <1>1
  <2> QED
    BY <1>1, <1>4, <1>9, <2>1, <2>2

LEMMA QuotientFacts ==
    ASSUME NEW n \in Nat, NEW p \in Nat \ {0}, NEW b \in Nat \ {0}
    PROVE  /\ n \div p \in Nat
           /\ n % b \in 0 .. b - 1
           /\ (n \div p) \div b = n \div (b * p)
           /\ (n \div b) * b + (n % b) = n
  OBVIOUS

LEMMA PutUintFacts ==
    ASSUME NEW n \in Nat, NEW w \in Widths
    PROVE  /\ PutUint(n, w) \in Seq(Byte) /\ Len(PutUint(n, w)) = w
           /\ \A i \in 1 .. w : /\ PutUint(n, w)[i] = (n \div Power[w - i]) % ByteBase
                               /\ w - i \in Widths
<1>1. ASSUME NEW i \in 1 .. w
      PROVE  w - i \in Widths /\ (n \div Power[w - i]) % ByteBase \in Byte
  <2>1. w - i \in Widths
    BY WidthAssumption DEF Widths
  <2>2. Power[w - i] \in Nat \ {0} /\ ByteBase \in Nat \ {0}
    BY <2>1, PowerFacts, WidthAssumption
  <2> DEFINE p == Power[w - i]
             q == n \div p
  <2>3. q \in Nat
    <3> HIDE DEF p
    <3>1. p \in Nat \ {0}
      BY <2>2 DEF p
    <3> QED
      BY <3>1, <2>2, QuotientFacts
  <2> HIDE DEF q
  <2>4. q % ByteBase \in 0 .. ByteBase - 1
    BY <2>2, <2>3, QuotientFacts
  <2> QED
    BY <2>1, <2>4 DEF Byte, q
<1>2. w \in Nat
  BY WidthAssumption DEF Widths
<1> DEFINE byte(i) == (n \div Power[w - i]) % ByteBase
<1>3. PutUint(n, w) = [i \in 1 .. w |-> byte(i)]
  BY DEF PutUint
<1>4. \A i \in 1 .. w : byte(i) \in Byte
  BY <1>1
<1> HIDE DEF byte
<1>5. PutUint(n, w) \in Seq(Byte) /\ Len(PutUint(n, w)) = w
  BY <1>2, <1>3, <1>4
<1>6. \A i \in 1 .. w : PutUint(n, w)[i] = byte(i)
  BY <1>3
<1> QED
  BY <1>1, <1>5, <1>6 DEF byte

(* An unsigned integer that fits its width is read as it was written, for
   every width: binary.BigEndian in writeUint16, readUint16 and their likes. *)
THEOREM UintRoundTrip ==
    ASSUME NEW w \in Widths, NEW n \in 0 .. Power[w] - 1
    PROVE  BigEndian(PutUint(n, w)) = n
<1> DEFINE bytes == PutUint(n, w)
           f == [k \in 0 .. w |-> n \div Power[w - k]]
           Loop(g) == g = [k \in 0 .. w |-> IF k = 0 THEN 0 ELSE g[k - 1] * ByteBase + bytes[k]]
<1>1. w \in Nat /\ n \in Nat /\ ByteBase \in Nat \ {0}
  BY PowerFacts, WidthAssumption DEF Widths
<1>2. Len(bytes) = w
  BY <1>1, PutUintFacts
<1>3. f[0] = 0
  <2>1. f[0] = n \div Power[w] /\ Power[w] \in Nat \ {0} /\ n < Power[w]
    BY <1>1, PowerFacts
  <2> HIDE DEF f
  <2> DEFINE p == Power[w]
  <2> HIDE DEF p
  <2>2. f[0] = n \div p /\ p \in Nat \ {0} /\ n < p
    BY <2>1 DEF p
  <2> QED
    BY <1>1, <2>2
<1>4. ASSUME NEW k \in 1 .. w
      PROVE  f[k] = f[k - 1] * ByteBase + bytes[k]
  <2> DEFINE p == Power[w - k]
             q == n \div p
  <2>1. w - k \in Widths /\ w - (k - 1) \in Widths \ {0} /\ (w - (k - 1)) - 1 = w - k
    BY <1>1, WidthAssumption DEF Widths
  <2>2. p \in Nat \ {0} /\ Power[w - (k - 1)] = ByteBase * p
    BY <2>1, PowerFacts
  <2>3. f[k] = q /\ f[k - 1] = n \div Power[w - (k - 1)]
    BY <1>1
  <2>4. bytes[k] = q % ByteBase
    BY <1>1, PutUintFacts
  <2> HIDE DEF p, f, bytes
  <2>5. f[k - 1] = q \div ByteBase /\ q \in Nat
    <3>1. f[k - 1] = n \div (ByteBase * p)
      BY <2>2, <2>3
    <3> QED
      BY <1>1, <2>2, <3>1, QuotientFacts
  <2> HIDE DEF q
  <2>6. (q \div ByteBase) * ByteBase + (q % ByteBase) = q
    BY <1>1, <2>5, QuotientFacts
  <2> QED
    BY <2>3, <2>4, <2>5, <2>6
<1>5. f[w] = n
  <2>1. f[w] = n \div Power[0] /\ Power[0] = 1
    BY <1>1, PowerFacts
  <2> QED
    BY <1>1, <2>1
<1>6. Loop(f)
  <2>1. \A k \in 0 .. w : f[k] = IF k = 0 THEN 0 ELSE f[k - 1] * ByteBase + bytes[k]
    <3> HIDE DEF f, bytes
    <3> QED
      BY <1>1, <1>3, <1>4
  <2>2. f = [k \in 0 .. w |-> f[k]]
    OBVIOUS
  <2> HIDE DEF f, bytes
  <2> QED
    BY <2>1, <2>2
<1> DEFINE value == CHOOSE g : Loop(g)
<1>7. BigEndian(bytes) = value[w]
  BY <1>2 DEF BigEndian
<1>8. Loop(value)
  BY <1>6
<1> HIDE DEF value, f, bytes
<1>9. \A k \in 0 .. w : value[k] = f[k]
  <2>1. value[0] = f[0]
    BY <1>1, <1>3, <1>8
  <2>2. ASSUME NEW k \in 1 .. w, value[k - 1] = f[k - 1] PROVE value[k] = f[k]
    BY <1>1, <1>4, <1>8, <2>2
  <2> HIDE DEF Loop
  <2> QED
    BY <1>1, <2>1, <2>2, AgreeUpTo
<1> QED
  BY <1>1, <1>5, <1>7, <1>9 DEF bytes

(* What stands at the front, and what follows it. *)
LEMMA SplitPrefix ==
    ASSUME NEW s \in Seq(Byte), NEW t \in Seq(Byte)
    PROVE  /\ Len(s \o t) = Len(s) + Len(t) /\ s \o t \in Seq(Byte)
           /\ SubSeq(s \o t, 1, Len(s)) = s /\ SubSeq(s \o t, Len(s) + 1, Len(s \o t)) = t
<1>1. s \o t \in Seq(Byte) /\ Len(s \o t) = Len(s) + Len(t)
  BY ConcatProperties
<1>2. \A i \in 1 .. Len(s) + Len(t) : (s \o t)[i] = IF i <= Len(s) THEN s[i] ELSE t[i - Len(s)]
  BY ConcatProperties
<1> DEFINE st == s \o t
<1> HIDE DEF st
<1>3. st \in Seq(Byte) /\ Len(st) = Len(s) + Len(t) /\ Len(s) \in Nat /\ Len(t) \in Nat
  BY <1>1 DEF st
<1>4. SubSeq(st, 1, Len(s)) = s
  <2>1. SubSeq(st, 1, Len(s)) \in Seq(Byte) /\ Len(SubSeq(st, 1, Len(s))) = Len(s)
    BY <1>3
  <2>2. \A i \in 1 .. Len(s) : SubSeq(st, 1, Len(s))[i] = s[i]
    BY <1>2, <1>3 DEF st
  <2> QED
    BY <2>1, <2>2, SeqEqual
<1>5. SubSeq(st, Len(s) + 1, Len(st)) = t
  <2>1. SubSeq(st, Len(s) + 1, Len(st)) \in Seq(Byte) /\ Len(SubSeq(st, Len(s) + 1, Len(st))) = Len(t)
    BY <1>3
  <2>2. \A i \in 1 .. Len(t) : SubSeq(st, Len(s) + 1, Len(st))[i] = t[i]
    BY <1>2, <1>3 DEF st
  <2> QED
    BY <2>1, <2>2, SeqEqual
<1> QED
  BY <1>1, <1>4, <1>5 DEF st

(* bytes.Reader.Read of what stands at the front. *)
LEMMA ReadPrefix ==
    ASSUME NEW s \in Seq(Byte), NEW t \in Seq(Byte), s \o t # << >>
    PROVE  Read(s \o t, Len(s)) = Got(s, t)
<1> DEFINE st == s \o t
<1>1. /\ Len(st) = Len(s) + Len(t) /\ st # << >>
      /\ SubSeq(st, 1, Len(s)) = s /\ SubSeq(st, Len(s) + 1, Len(st)) = t
  BY SplitPrefix
<1> HIDE DEF st
<1>2. ~(Len(st) < Len(s))
  BY <1>1
<1> QED
  BY <1>1, <1>2 DEF Read, st

LEMMA ReadUintPrefix ==
    ASSUME NEW w \in Widths \ {0}, NEW n \in 0 .. Power[w] - 1, NEW t \in Seq(Byte)
    PROVE  readUint(PutUint(n, w) \o t, w) = Got(n, t)
<1> DEFINE s == PutUint(n, w)
<1>1. n \in Nat /\ w \in Nat
  BY PowerFacts, WidthAssumption DEF Widths
<1>2. s \in Seq(Byte) /\ Len(s) = w
  BY <1>1, PutUintFacts
<1>3. BigEndian(s) = n
  BY UintRoundTrip
<1> HIDE DEF s
<1>4. Len(s \o t) = Len(s) + Len(t) /\ Len(t) \in Nat
  BY <1>2
<1>5. s \o t # << >>
  BY <1>1, <1>2, <1>4
<1>6. Read(s \o t, w) = Got(s, t)
  BY <1>2, <1>5, ReadPrefix
<1> QED
  BY <1>3, <1>6 DEF readUint, Then, Got, s

(* A string or a run of bytes with its count is read as it was written
   (writeString and readString, writeBytes and readBytes), but for an empty
   one at the end of the data, where bytes.Reader.Read fails. *)
THEOREM CountedRoundTrip ==
    ASSUME NEW w \in Widths \ {0}, NEW max \in 0 .. Power[w] - 1,
           NEW s \in Seq(Byte), NEW t \in Seq(Byte), Len(s) <= max
    PROVE  readCounted((PutUint(Len(s), w) \o s) \o t, w, max)
             = IF s \o t = << >> THEN Fails ELSE Got(s, t)
<1>1. Len(s) \in 0 .. Power[w] - 1 /\ Len(s) \in Nat /\ Len(t) \in Nat
  BY PowerFacts
<1>2. PutUint(Len(s), w) \in Seq(Byte)
  BY <1>1, PutUintFacts
<1>3. (PutUint(Len(s), w) \o s) \o t = PutUint(Len(s), w) \o (s \o t)
  BY <1>2, ConcatAssociative
<1>4. s \o t \in Seq(Byte) /\ Len(s \o t) = Len(s) + Len(t)
  BY ConcatProperties
<1>5. readUint((PutUint(Len(s), w) \o s) \o t, w) = Got(Len(s), s \o t)
  BY <1>1, <1>3, <1>4, ReadUintPrefix
<1>6. readCounted((PutUint(Len(s), w) \o s) \o t, w, max) = Read(s \o t, Len(s))
  <2>1. ~(Len(s) > max \/ Len(s) > Len(s \o t))
    BY <1>1, <1>4, PowerFacts
  <2> QED
    BY <1>5, <2>1 DEF readCounted, Then, Got
<1>7. CASE s \o t = << >>
  BY <1>6, <1>7 DEF Read
<1>8. CASE s \o t # << >>
  BY <1>6, <1>8, ReadPrefix
<1> QED
  BY <1>7, <1>8

LEMMA BytesFacts ==
    /\ \A s, t \in Seq(Byte) : /\ s \o t \in Seq(Byte) /\ Len(s \o t) = Len(s) + Len(t)
                               /\ s \o t = << >> <=> s = << >> /\ t = << >>
    /\ \A s \in Seq(Byte) : s \o << >> = s /\ << >> \o s = s
    /\ \A s, t, u \in Seq(Byte) : (s \o t) \o u = s \o (t \o u)
    /\ << >> \in Seq(Byte)
<1>1. \A s, t \in Seq(Byte) : /\ s \o t \in Seq(Byte) /\ Len(s \o t) = Len(s) + Len(t)
                             /\ s \o t = << >> <=> s = << >> /\ t = << >>
  BY ConcatProperties, ConcatEqualIffEmpty
<1>2. \A s \in Seq(Byte) : s \o << >> = s /\ << >> \o s = s
  BY ConcatEmptySeq
<1>3. \A s, t, u \in Seq(Byte) : (s \o t) \o u = s \o (t \o u)
  BY ConcatAssociative
<1> QED
  BY <1>1, <1>2, <1>3, EmptySeq

(* Appending runs of bytes may be regrouped. *)
LEMMA BytesAssociative ==
    ASSUME NEW s \in Seq(Byte), NEW t \in Seq(Byte), NEW u \in Seq(Byte)
    PROVE  (s \o t) \o u = s \o (t \o u)
  BY ConcatAssociative

LEMMA WrittenFacts ==
    /\ \A w \in Written : (w = Fails /\ w.ok = FALSE)
                            \/ (w.ok = TRUE /\ w.bytes \in Seq(Byte) /\ w = Wrote(w.bytes))
    /\ \A s \in Seq(Byte) : Wrote(s) \in Written /\ Wrote(s).ok = TRUE /\ Wrote(s).bytes = s
    /\ Fails \in Written /\ Fails.ok = FALSE
<1>1. \A s : Wrote(s).ok = TRUE /\ Wrote(s).bytes = s
  BY DEF Wrote
<1>2. Fails.ok = FALSE
  BY DEF Fails
<1>3. \A w \in [ok : {TRUE}, bytes : Seq(Byte)] : w.bytes \in Seq(Byte) /\ w = Wrote(w.bytes)
  <2> SUFFICES ASSUME NEW w \in [ok : {TRUE}, bytes : Seq(Byte)]
               PROVE  w.bytes \in Seq(Byte) /\ w = Wrote(w.bytes)
    OBVIOUS
  <2>1. w = [ok |-> w.ok, bytes |-> w.bytes] /\ w.ok \in {TRUE} /\ w.bytes \in Seq(Byte)
    BY ONLY w \in [ok : {TRUE}, bytes : Seq(Byte)]
  <2> QED
    BY <2>1 DEF Wrote
<1>4. \A s \in Seq(Byte) : Wrote(s) \in [ok : {TRUE}, bytes : Seq(Byte)]
  BY DEF Wrote
<1>5. \A w \in Written : w = Fails \/ \E s \in Seq(Byte) : w = Wrote(s)
  BY <1>3 DEF Written
<1>6. Fails \in Written /\ \A s \in Seq(Byte) : Wrote(s) \in Written
  BY <1>4 DEF Written
<1> QED
  BY <1>1, <1>2, <1>5, <1>6

(* The writes of a loop, joined one by one. *)
JoinSteps(f, writes, N) ==
    /\ f \in [0 .. N -> Written] /\ f[0] = Wrote(<< >>) /\ f[N] = Joined(writes)
    /\ \A n \in 1 .. N : f[n] = IF f[n - 1].ok /\ writes[n].ok
                                THEN Wrote(f[n - 1].bytes \o writes[n].bytes) ELSE Fails

LEMMA JoinedSteps ==
    ASSUME NEW N \in Nat, NEW writes, Len(writes) = N, \A n \in 1 .. N : writes[n] \in Written
    PROVE  \E f : JoinSteps(f, writes, N)
<1> DEFINE next(w, n) == IF w.ok /\ writes[n].ok THEN Wrote(w.bytes \o writes[n].bytes) ELSE Fails
           step == [n \in 1 .. N |-> [w \in Written |-> next(w, n)]]
           Loop(g) == g = [n \in 0 .. N |-> IF n = 0 THEN Wrote(<< >>) ELSE next(g[n - 1], n)]
<1>1. ASSUME NEW n \in 1 .. N, NEW w \in Written
      PROVE  step[n][w] = next(w, n) /\ next(w, n) \in Written
  <2>1. w.ok /\ writes[n].ok => w.bytes \o writes[n].bytes \in Seq(Byte)
    BY WrittenFacts, ConcatProperties
  <2> QED
    BY <2>1, WrittenFacts
<1>2. Wrote(<< >>) \in Written
  BY WrittenFacts, EmptySeq
<1> HIDE DEF step
<1>3. PICK f : Iterates(f, Written, Wrote(<< >>), N, step)
  <2> DEFINE T == Written
             start == Wrote(<< >>)
  <2>1. start \in T /\ \A n \in 1 .. N, w \in T : step[n][w] \in T
    <3> HIDE DEF next
    <3> QED
      BY <1>1, <1>2
  <2> HIDE DEF T, start, next
  <2>2. \E f : Iterates(f, T, start, N, step)
    BY <2>1, PrimitiveRecursion
  <2> QED
    BY <2>2 DEF T, start
<1>4. /\ f \in [0 .. N -> Written] /\ f[0] = Wrote(<< >>)
      /\ \A n \in 1 .. N : f[n] = next(f[n - 1], n)
  <2>1. ASSUME NEW n \in 1 .. N PROVE n - 1 \in 0 .. N
    OBVIOUS
  <2> HIDE DEF next
  <2> QED
    BY <1>1, <1>3, <2>1 DEF Iterates
<1>5. Loop(f)
  <2>1. f = [n \in 0 .. N |-> f[n]]
    BY <1>4
  <2>2. \A n \in 0 .. N : n = 0 \/ n \in 1 .. N
    OBVIOUS
  <2> HIDE DEF next
  <2> QED
    BY <1>4, <2>1, <2>2
<1> DEFINE loop == CHOOSE g : Loop(g)
<1>6. Joined(writes) = loop[N]
  BY DEF Joined
<1>7. Loop(loop)
  BY <1>5
<1> HIDE DEF loop
<1>8. \A n \in 0 .. N : loop[n] = f[n]
  <2>1. loop[0] = f[0]
    BY <1>4, <1>7
  <2>2. ASSUME NEW n \in 1 .. N, loop[n - 1] = f[n - 1] PROVE loop[n] = f[n]
    <3>1. loop[n] = next(loop[n - 1], n)
      <4> HIDE DEF next
      <4> QED
        BY <1>7
    <3> HIDE DEF next
    <3> QED
      BY <1>4, <2>2, <3>1
  <2> HIDE DEF Loop
  <2> QED
    BY ONLY <2>1, <2>2, N \in Nat, AgreeUpTo
<1>9. f[N] = Joined(writes)
  BY <1>6, <1>8
<1> QED
  BY <1>4, <1>9 DEF JoinSteps

(* A loop that writes fails if one of its writes does. *)
LEMMA JoinedNeedsAll ==
    ASSUME NEW N \in Nat, NEW writes, Len(writes) = N, \A n \in 1 .. N : writes[n] \in Written
    PROVE  Joined(writes) \in Written /\ (Joined(writes).ok => \A n \in 1 .. N : writes[n].ok)
<1>1. PICK f : JoinSteps(f, writes, N)
  BY JoinedSteps
<1> DEFINE S == {n \in 0 .. N : f[n].ok => \A m \in 1 .. n : writes[m].ok}
<1>2. 0 \in S
  OBVIOUS
<1>3. ASSUME NEW n \in 1 .. N, n - 1 \in S PROVE n \in S
  <2>1. f[n].ok => f[n - 1].ok /\ writes[n].ok
    BY <1>1, WrittenFacts DEF JoinSteps
  <2>2. \A m \in 1 .. n : m = n \/ m \in 1 .. n - 1
    OBVIOUS
  <2> QED
    BY <1>3, <2>1, <2>2
<1> HIDE DEF S
<1>4. \A n \in 0 .. N : n \in S
  BY <1>2, <1>3, InductionUpTo
<1>5. N \in S /\ f[N] = Joined(writes) /\ f[N] \in Written
  BY <1>1, <1>4 DEF JoinSteps
<1> QED
  BY <1>5 DEF S

(* What is left of joined writes after each of them. *)
LeftAfter(rest, writes, N) ==
    /\ rest \in [0 .. N -> Seq(Byte)] /\ rest[0] = Joined(writes).bytes /\ rest[N] = << >>
    /\ \A n \in 1 .. N : rest[n - 1] = writes[n].bytes \o rest[n]

LEMMA JoinedLeaves ==
    ASSUME NEW N \in Nat, NEW writes, Len(writes) = N,
           \A n \in 1 .. N : writes[n] \in Written /\ writes[n].ok
    PROVE  Joined(writes).ok /\ Joined(writes).bytes \in Seq(Byte)
             /\ \E rest : LeftAfter(rest, writes, N)
<1>1. PICK f : JoinSteps(f, writes, N)
  BY JoinedSteps
<1> DEFINE data(n) == writes[n].bytes
<1>2. \A n \in 1 .. N : data(n) \in Seq(Byte)
  BY WrittenFacts
<1>3. << >> \in Seq(Byte)
  BY EmptySeq
<1>4. PICK g : /\ g \in [0 .. N -> Seq(Byte)] /\ g[0] = << >>
               /\ \A n \in 1 .. N : g[n] = data((N - n) + 1) \o g[n - 1]
  <2> DEFINE T == Seq(Byte)
             start == << >>
             step == [n \in 1 .. N |-> [s \in T |-> data((N - n) + 1) \o s]]
  <2>1. ASSUME NEW n \in 1 .. N, NEW s \in T
        PROVE  step[n][s] = data((N - n) + 1) \o s /\ step[n][s] \in T
    <3>1. (N - n) + 1 \in 1 .. N
      OBVIOUS
    <3>2. data((N - n) + 1) \in Seq(Byte)
      BY <1>2, <3>1
    <3> HIDE DEF data
    <3> QED
      BY <3>2, ConcatProperties
  <2>2. start \in T
    BY <1>3
  <2> HIDE DEF T, start, step, data
  <2>3. PICK g : Iterates(g, T, start, N, step)
    BY <2>1, <2>2, PrimitiveRecursion
  <2>4. \A n \in 1 .. N : n - 1 \in 0 .. N
    OBVIOUS
  <2>5. ASSUME NEW n \in 1 .. N PROVE g[n] = data((N - n) + 1) \o g[n - 1]
    <3>1. g[n - 1] \in T /\ g[n] = step[n][g[n - 1]]
      BY <2>3, <2>4 DEF Iterates
    <3> QED
      BY <2>1, <3>1
  <2> QED
    BY <2>3, <2>5 DEF Iterates, T, start
<1> HIDE DEF data
<1> DEFINE rest == [n \in 0 .. N |-> g[N - n]]
<1>5. rest \in [0 .. N -> Seq(Byte)] /\ rest[N] = << >>
  BY <1>4
<1>6. ASSUME NEW n \in 1 .. N PROVE rest[n - 1] = data(n) \o rest[n] /\ n - 1 \in 0 .. N /\ n \in 0 .. N
  <2>1. (N - n) + 1 \in 1 .. N /\ (N - ((N - n) + 1)) + 1 = n /\ ((N - n) + 1) - 1 = N - n
    OBVIOUS
  <2>2. rest[n - 1] = g[(N - n) + 1] /\ rest[n] = g[N - n]
    <3>1. n - 1 \in 0 .. N /\ n \in 0 .. N /\ N - (n - 1) = (N - n) + 1
      OBVIOUS
    <3> QED
      BY <3>1
  <2>3. g[(N - n) + 1] = data(n) \o g[N - n]
    BY <1>4, <2>1
  <2> QED
    BY <2>2, <2>3
<1> HIDE DEF rest
<1> DEFINE S == {n \in 0 .. N : f[n].ok /\ f[n].bytes \o rest[n] = rest[0]}
<1>7. 0 \in S
  <2>1. f[0].ok /\ f[0].bytes = << >>
    BY <1>1, <1>3, WrittenFacts DEF JoinSteps
  <2>2. rest[0] \in Seq(Byte)
    BY <1>5
  <2>3. f[0].bytes \o rest[0] = rest[0]
    BY <2>1, <2>2, BytesFacts
  <2>4. 0 \in 0 .. N
    OBVIOUS
  <2> QED
    BY <2>1, <2>3, <2>4, Zenon
<1>8. ASSUME NEW n \in 1 .. N, n - 1 \in S PROVE n \in S
  <2>1. f[n - 1].ok /\ f[n - 1].bytes \o rest[n - 1] = rest[0]
    BY <1>8
  <2>2. f[n - 1] \in Written /\ n - 1 \in 0 .. N
    BY <1>1 DEF JoinSteps
  <2>3. f[n - 1].bytes \in Seq(Byte) /\ data(n) \in Seq(Byte) /\ rest[n] \in Seq(Byte)
    BY <1>2, <1>5, <2>1, <2>2, WrittenFacts
  <2>4. f[n] = Wrote(f[n - 1].bytes \o data(n))
    BY <1>1, <2>1 DEF JoinSteps, data
  <2>5. f[n].ok /\ f[n].bytes = f[n - 1].bytes \o data(n)
    BY <2>4 DEF Wrote
  <2>6. (f[n - 1].bytes \o data(n)) \o rest[n] = f[n - 1].bytes \o (data(n) \o rest[n])
    <3> DEFINE a == f[n - 1].bytes
               b == data(n)
               c == rest[n]
    <3>1. a \in Seq(Byte) /\ b \in Seq(Byte) /\ c \in Seq(Byte)
      BY <2>3
    <3> HIDE DEF a, b, c
    <3>2. (a \o b) \o c = a \o (b \o c)
      BY <3>1, BytesFacts
    <3> QED
      BY <3>2 DEF a, b, c
  <2> QED
    BY <1>6, <2>1, <2>5, <2>6
<1> HIDE DEF S
<1>9. \A n \in 0 .. N : n \in S
  BY <1>7, <1>8, InductionUpTo
<1>10. f[N].ok /\ f[N].bytes \o << >> = rest[0] /\ f[N] \in Written /\ f[N] = Joined(writes)
  <2>1. N \in S
    BY <1>9
  <2> QED
    BY <1>1, <1>5, <2>1 DEF S, JoinSteps
<1>11. Joined(writes).bytes \in Seq(Byte)
  BY <1>10, WrittenFacts
<1>12. rest[0] = Joined(writes).bytes
  BY <1>10, <1>11, BytesFacts
<1>13. LeftAfter(rest, writes, N)
  BY <1>5, <1>6, <1>12 DEF LeftAfter, data
<1> QED
  BY <1>10, <1>11, <1>13

LEMMA UintsRoundTrip ==
    ASSUME NEW N \in Nat, NEW widths, NEW values, NEW t \in Seq(Byte),
           widths \in Seq(Widths \ {0}), Len(widths) = N, values \in Seq(Nat), Len(values) = N,
           \A n \in 1 .. N : values[n] < Power[widths[n]]
    PROVE  /\ writeUints(values, widths) \in Written /\ writeUints(values, widths).ok
           /\ readUints(writeUints(values, widths).bytes \o t, widths) = Got(values, t)
<1> DEFINE writes == [i \in DOMAIN widths |-> writeUint(values[i], widths[i])]
<1>1. /\ DOMAIN widths = 1 .. N
      /\ \A n \in 1 .. N : /\ widths[n] \in Widths \ {0}
                           /\ values[n] \in Nat /\ values[n] \in 0 .. Power[widths[n]] - 1
  <2>1. DOMAIN widths = 1 .. N /\ \A n \in 1 .. N : widths[n] \in Widths \ {0} /\ values[n] \in Nat
    OBVIOUS
  <2>2. ASSUME NEW n \in 1 .. N PROVE values[n] \in 0 .. Power[widths[n]] - 1
    <3>1. Power[widths[n]] \in Nat
      BY <2>1, PowerFacts
    <3> QED
      BY <2>1, <3>1
  <2> QED
    BY <2>1, <2>2
<1>2. \A n \in 1 .. N : /\ writes[n] \in Written /\ writes[n].ok
                        /\ writes[n].bytes = PutUint(values[n], widths[n])
                        /\ PutUint(values[n], widths[n]) \in Seq(Byte)
  <2>1. \A n \in 1 .. N : PutUint(values[n], widths[n]) \in Seq(Byte)
    BY <1>1, PutUintFacts
  <2>2. \A n \in 1 .. N : writes[n] = Wrote(PutUint(values[n], widths[n]))
    BY <1>1 DEF writeUint
  <2> HIDE DEF writes
  <2> QED
    BY <2>1, <2>2, WrittenFacts
<1>3. Len(writes) = N
  BY <1>1
<1>4. writeUints(values, widths) = Joined(writes)
  BY DEF writeUints
<1> HIDE DEF writes
<1>5. /\ Joined(writes).ok /\ Joined(writes).bytes \in Seq(Byte)
      /\ \E rest : LeftAfter(rest, writes, N)
  BY <1>2, <1>3, JoinedLeaves
<1>6. Joined(writes) \in Written
  BY <1>2, <1>3, JoinedNeedsAll
<1>7. PICK rest : LeftAfter(rest, writes, N)
  BY <1>5
<1> DEFINE left == Joined(writes).bytes \o t
           next(g, n) == IF g.ok
                         THEN IF readUint(g.rest, widths[n]).ok
                              THEN Got(Append(g.value, readUint(g.rest, widths[n]).value),
                                       readUint(g.rest, widths[n]).rest)
                              ELSE Fails
                         ELSE Fails
           f == [n \in 0 .. N |-> Got(SubSeq(values, 1, n), rest[n] \o t)]
           Loop(g) == g = [n \in 0 .. N |-> IF n = 0 THEN Got(<< >>, left) ELSE next(g[n - 1], n)]
<1>8. f[0] = Got(<< >>, left)
  <2>1. rest[0] = Joined(writes).bytes
    BY <1>7 DEF LeftAfter
  <2>2. SubSeq(values, 1, 0) = << >>
    BY SubSeqEmpty
  <2>3. f[0] = Got(SubSeq(values, 1, 0), rest[0] \o t)
    <3> HIDE DEF Got
    <3> QED
      OBVIOUS
  <2> HIDE DEF f
  <2> QED
    BY <2>1, <2>2, <2>3
<1>9. ASSUME NEW n \in 1 .. N PROVE f[n] = next(f[n - 1], n)
  <2>1. n - 1 \in 0 .. N /\ n \in 0 .. N
    OBVIOUS
  <2>2. f[n - 1] = Got(SubSeq(values, 1, n - 1), rest[n - 1] \o t) /\ f[n] = Got(SubSeq(values, 1, n), rest[n] \o t)
    BY <2>1
  <2>3. rest[n - 1] = PutUint(values[n], widths[n]) \o rest[n] /\ rest[n] \in Seq(Byte)
    BY <1>2, <1>7, <2>1 DEF LeftAfter
  <2> DEFINE a == PutUint(values[n], widths[n])
             b == rest[n]
  <2>4. a \in Seq(Byte) /\ b \in Seq(Byte) /\ rest[n - 1] = a \o b
    BY <1>2, <2>3
  <2> HIDE DEF a, b
  <2>5. rest[n - 1] \o t = a \o (b \o t) /\ b \o t \in Seq(Byte)
    <3>1. (a \o b) \o t = a \o (b \o t) /\ b \o t \in Seq(Byte)
      BY <2>4, BytesFacts, SMTT(30)
    <3> QED
      BY ONLY <3>1, <2>4
  <2>6. readUint(a \o (b \o t), widths[n]) = Got(values[n], b \o t)
    BY <1>1, <2>5, ReadUintPrefix DEF a
  <2>7. Append(SubSeq(values, 1, n - 1), values[n]) = SubSeq(values, 1, n)
    OBVIOUS
  <2> DEFINE before == SubSeq(values, 1, n - 1)
             here == rest[n - 1] \o t
             there == b \o t
  <2>8. f[n - 1].ok /\ f[n - 1].value = before /\ f[n - 1].rest = here
    <3>1. f[n - 1] = Got(before, here)
      BY ONLY <2>2 DEF before, here
    <3> HIDE DEF f, before, here
    <3> QED
      BY ONLY <3>1 DEF Got
  <2>9. readUint(here, widths[n]) = Got(values[n], there)
    BY <2>5, <2>6
  <2>10. f[n] = Got(Append(before, values[n]), there)
    BY <2>2, <2>7 DEF b
  <2> HIDE DEF f, before, here, there
  <2>11. readUint(here, widths[n]).ok /\ readUint(here, widths[n]).value = values[n]
           /\ readUint(here, widths[n]).rest = there
    BY <2>9 DEF Got
  <2> QED
    BY <2>8, <2>10, <2>11
<1>10. Loop(f)
  <2>1. f = [n \in 0 .. N |-> f[n]]
    OBVIOUS
  <2>2. \A n \in 0 .. N : n = 0 \/ n \in 1 .. N
    OBVIOUS
  <2> HIDE DEF f, next, left
  <2> QED
    BY <1>8, <1>9, <2>1, <2>2
<1> DEFINE loop == CHOOSE g : Loop(g)
<1>11. readUints(left, widths) = loop[N]
  BY DEF readUints, Repeat, Then
<1>12. Loop(loop)
  BY <1>10
<1> HIDE DEF loop, f, next, left
<1>13. \A n \in 0 .. N : loop[n] = f[n]
  <2>1. loop[0] = f[0]
    BY <1>8, <1>12
  <2>2. ASSUME NEW n \in 1 .. N, loop[n - 1] = f[n - 1] PROVE loop[n] = f[n]
    <3>1. loop[n] = next(loop[n - 1], n)
      BY <1>12
    <3> QED
      BY <1>9, <2>2, <3>1
  <2> HIDE DEF Loop
  <2> DEFINE S == {n \in 0 .. N : loop[n] = f[n]}
  <2>3. 0 \in S
    BY <2>1, N \in Nat
  <2>4. \A n \in 1 .. N : n - 1 \in S => n \in S
    BY <2>2, N \in Nat
  <2> HIDE DEF S
  <2>5. \A n \in 0 .. N : n \in S
    BY <2>3, <2>4, InductionUpTo
  <2> QED
    BY <2>5 DEF S
<1>14. f[N] = Got(values, t)
  <2>1. rest[N] = << >> /\ SubSeq(values, 1, N) = values
    BY <1>7 DEF LeftAfter
  <2>2. rest[N] \o t = t
    BY <2>1, BytesFacts
  <2>3. f[N] = Got(SubSeq(values, 1, N), rest[N] \o t)
    BY DEF f
  <2> QED
    BY <2>1, <2>2, <2>3
<1>15. readUints(left, widths) = Got(values, t)
  BY <1>11, <1>13, <1>14
<1> QED
  BY <1>4, <1>5, <1>6, <1>15 DEF left

(* One more write. *)
LEMMA JoinedAppend ==
    ASSUME NEW writes \in Seq(Written), NEW w \in Written
    PROVE  Joined(Append(writes, w)) = IF Joined(writes).ok /\ w.ok
                                       THEN Wrote(Joined(writes).bytes \o w.bytes) ELSE Fails
<1> DEFINE N == Len(writes)
           more == Append(writes, w)
<1>1. /\ N \in Nat /\ N + 1 \in Nat /\ Len(more) = N + 1 /\ more[N + 1] = w
      /\ \A n \in 1 .. N : more[n] = writes[n] /\ writes[n] \in Written
      /\ \A n \in 1 .. N + 1 : more[n] \in Written
  OBVIOUS
<1> HIDE DEF N, more
<1>2. PICK f : JoinSteps(f, more, N + 1)
  BY <1>1, JoinedSteps
<1>3. PICK g : JoinSteps(g, writes, N)
  BY <1>1, JoinedSteps DEF N
<1>4. \A n \in 0 .. N : f[n] = g[n]
  <2>1. f[0] = g[0]
    BY <1>2, <1>3 DEF JoinSteps
  <2>2. ASSUME NEW n \in 1 .. N, f[n - 1] = g[n - 1] PROVE f[n] = g[n]
    <3>1. n \in 1 .. N + 1
      BY <1>1
    <3> QED
      BY <1>1, <1>2, <1>3, <2>2, <3>1 DEF JoinSteps
  <2>3. N \in Nat
    BY <1>1
  <2> DEFINE S == {n \in 0 .. N : f[n] = g[n]}
  <2>4. 0 \in S
    BY <2>1, <2>3
  <2>5. \A n \in 1 .. N : n - 1 \in S => n \in S
    BY <2>2, <2>3
  <2> HIDE DEF S
  <2>6. \A n \in 0 .. N : n \in S
    BY <2>3, <2>4, <2>5, InductionUpTo
  <2> QED
    BY <2>6 DEF S
<1>5. f[N] = Joined(writes) /\ f[N + 1] = Joined(more)
  <2>1. N \in 0 .. N
    BY <1>1
  <2> QED
    BY <1>2, <1>3, <1>4, <2>1 DEF JoinSteps
<1>6. f[N + 1] = IF f[N].ok /\ w.ok THEN Wrote(f[N].bytes \o w.bytes) ELSE Fails
  <2>1. N + 1 \in 1 .. N + 1 /\ (N + 1) - 1 = N
    BY <1>1
  <2> QED
    BY <1>1, <1>2, <2>1 DEF JoinSteps
<1> QED
  BY <1>5, <1>6 DEF more

LEMMA JoinedEmpty == Joined(<< >>) = Wrote(<< >>)
<1>1. Len(<< >>) = 0 /\ \A n \in 1 .. 0 : << >>[n] \in Written
  OBVIOUS
<1>2. PICK f : JoinSteps(f, << >>, 0)
  BY <1>1, JoinedSteps
<1> QED
  BY <1>2 DEF JoinSteps

(* Two writes. *)
LEMMA JoinedTwo ==
    ASSUME NEW v \in Written, NEW w \in Written
    PROVE  Joined(<<v, w>>) = IF v.ok /\ w.ok THEN Wrote(v.bytes \o w.bytes) ELSE Fails
<1>1. << >> \in Seq(Written) /\ <<v>> \in Seq(Written) /\ <<v>> = Append(<< >>, v)
        /\ <<v, w>> = Append(<<v>>, w)
  OBVIOUS
<1>2. Joined(<< >>).ok /\ Joined(<< >>).bytes = << >>
  BY JoinedEmpty DEF Wrote
<1>3. Joined(<<v>>) = IF v.ok THEN Wrote(<< >> \o v.bytes) ELSE Fails
  <2> DEFINE e == << >>
             one == <<v>>
  <2>1. e \in Seq(Written) /\ one = Append(e, v) /\ Joined(e).ok /\ Joined(e).bytes = e
    BY <1>1, <1>2
  <2> HIDE DEF e, one
  <2>2. Joined(Append(e, v)) = IF Joined(e).ok /\ v.ok THEN Wrote(Joined(e).bytes \o v.bytes) ELSE Fails
    BY <2>1, JoinedAppend
  <2> QED
    BY <2>1, <2>2 DEF e, one
<1>4. v.ok => << >> \o v.bytes = v.bytes
  BY WrittenFacts, BytesFacts
<1>5. Joined(<<v>>).ok = v.ok /\ (v.ok => Joined(<<v>>).bytes = v.bytes)
  BY <1>3, <1>4, WrittenFacts
<1>6. Joined(<<v, w>>) = IF Joined(<<v>>).ok /\ w.ok THEN Wrote(Joined(<<v>>).bytes \o w.bytes) ELSE Fails
  BY ONLY <1>1, v \in Written, w \in Written, JoinedAppend, ZenonT(30)
<1> QED
  BY ONLY <1>5, <1>6

LEMMA JoinedThree ==
    ASSUME NEW u \in Written, NEW v \in Written, NEW w \in Written
    PROVE  Joined(<<u, v, w>>) = IF u.ok /\ v.ok /\ w.ok
                                 THEN Wrote((u.bytes \o v.bytes) \o w.bytes) ELSE Fails
<1>1. <<u, v>> \in Seq(Written) /\ <<u, v, w>> = Append(<<u, v>>, w)
  OBVIOUS
<1>2. Joined(<<u, v>>) = IF u.ok /\ v.ok THEN Wrote(u.bytes \o v.bytes) ELSE Fails
  BY JoinedTwo
<1> DEFINE uv == Joined(<<u, v>>)
<1>3. /\ u.ok /\ v.ok => uv.ok /\ uv.bytes = u.bytes \o v.bytes
      /\ ~(u.ok /\ v.ok) => ~uv.ok
  <2>1. uv = IF u.ok /\ v.ok THEN Wrote(u.bytes \o v.bytes) ELSE Fails
    BY <1>2
  <2> HIDE DEF uv
  <2>2. CASE u.ok /\ v.ok
    BY <2>1, <2>2 DEF Wrote
  <2>3. CASE ~(u.ok /\ v.ok)
    BY <2>1, <2>3 DEF Fails
  <2> QED
    BY <2>2, <2>3
<1>4. Joined(<<u, v, w>>) = IF Joined(<<u, v>>).ok /\ w.ok
                            THEN Wrote(Joined(<<u, v>>).bytes \o w.bytes) ELSE Fails
  BY ONLY <1>1, w \in Written, JoinedAppend
<1> QED
  BY ONLY <1>3, <1>4

(* One more integer. *)
LEMMA WriteUintsAppend ==
    ASSUME NEW N \in Nat, NEW widths \in Seq(Widths), NEW values \in Seq(Nat),
           Len(widths) = N, Len(values) = N, NEW n \in Nat, NEW w \in Widths
    PROVE  /\ writeUints(values, widths) \in Written /\ writeUints(values, widths).ok
           /\ writeUints(Append(values, n), Append(widths, w))
                = Wrote(writeUints(values, widths).bytes \o PutUint(n, w))
<1> DEFINE writes == [i \in DOMAIN widths |-> writeUint(values[i], widths[i])]
           vs == Append(values, n)
           ws == Append(widths, w)
           more == [i \in DOMAIN ws |-> writeUint(vs[i], ws[i])]
<1>1. /\ DOMAIN widths = 1 .. N /\ DOMAIN ws = 1 .. N + 1
      /\ \A i \in 1 .. N : /\ values[i] \in Nat /\ widths[i] \in Widths
                           /\ vs[i] = values[i] /\ ws[i] = widths[i]
      /\ vs[N + 1] = n /\ ws[N + 1] = w
  OBVIOUS
<1> HIDE DEF vs, ws
<1>2. \A m \in Nat, x \in Widths : writeUint(m, x) \in Written /\ writeUint(m, x).ok
                                     /\ writeUint(m, x).bytes = PutUint(m, x)
  BY PutUintFacts, WrittenFacts DEF writeUint
<1>3. writes \in Seq(Written) /\ Len(writes) = N /\ \A i \in 1 .. N : writes[i] \in Written /\ writes[i].ok
  <2>1. \A i \in 1 .. N : writeUint(values[i], widths[i]) \in Written /\ writeUint(values[i], widths[i]).ok
    BY <1>1, <1>2
  <2> HIDE DEF writeUint
  <2> QED
    BY <1>1, <2>1
<1>4. more = Append(writes, writeUint(n, w))
  <2> DEFINE last == writeUint(n, w)
  <2>1. DOMAIN more = 1 .. N + 1 /\ \A i \in 1 .. N : more[i] = writes[i]
    <3> HIDE DEF writeUint
    <3> QED
      BY <1>1
  <2>2. more[N + 1] = last
    <3> HIDE DEF writeUint
    <3> QED
      BY <1>1
  <2>3. more = [i \in 1 .. N + 1 |-> more[i]]
    BY <1>1
  <2> DEFINE app == Append(writes, last)
  <2> HIDE DEF more, writes, last
  <2>4. DOMAIN app = 1 .. N + 1 /\ (\A i \in 1 .. N : app[i] = writes[i]) /\ app[N + 1] = last
    BY <1>3
  <2>5. app = [i \in 1 .. N + 1 |-> app[i]]
    <3>1. last \in Written
      BY <1>2 DEF last
    <3>2. app \in Seq(Written) /\ Len(app) = N + 1
      BY <1>3, <3>1
    <3> HIDE DEF app
    <3> QED
      BY <3>2
  <2>6. \A i \in 1 .. N + 1 : i = N + 1 \/ i \in 1 .. N
    OBVIOUS
  <2> HIDE DEF app
  <2>7. more = app
    BY <2>1, <2>2, <2>3, <2>4, <2>5, <2>6
  <2> QED
    BY <2>7 DEF app, last
<1>5. writeUints(values, widths) = Joined(writes) /\ writeUints(vs, ws) = Joined(more)
  BY DEF writeUints
<1> HIDE DEF writes, more
<1>6. Joined(writes).ok /\ Joined(writes) \in Written
  BY <1>3, JoinedLeaves, JoinedNeedsAll
<1>7. Joined(more) = Wrote(Joined(writes).bytes \o PutUint(n, w))
  <2>1. writeUint(n, w) \in Written /\ writeUint(n, w).ok /\ writeUint(n, w).bytes = PutUint(n, w)
    BY <1>2
  <2> DEFINE last == writeUint(n, w)
  <2> HIDE DEF last
  <2>2. Joined(Append(writes, last)) = IF Joined(writes).ok /\ last.ok
                                       THEN Wrote(Joined(writes).bytes \o last.bytes) ELSE Fails
    BY ONLY <1>3, <2>1, JoinedAppend DEF last
  <2> QED
    BY <1>4, <1>6, <2>1, <2>2 DEF last
<1> QED
  BY <1>5, <1>6, <1>7 DEF vs, ws

(* What a caller may frame: the fields fit their widths, and an unreliable
   message has no delivery ID and not the envelope's own type. *)
Frameable(m) ==
    /\ m = Framed(m.id, m.payload, m.delivery, m.deliveryID)
    /\ m.id \in 0 .. Power[ShortLen] - 1 /\ m.payload \in Seq(Byte)
    /\ m.deliveryID \in 0 .. Power[LongLen] - 1
    /\ \/ m.delivery = Unreliable /\ m.deliveryID = 0 /\ m.id # WireMessageReliable
       \/ m.delivery \in ReliableClasses

LEMMA UsedWidths ==
    /\ {1, ShortLen, WordLen, LongLen} \subseteq Widths \ {0}
    /\ \A n \in 1 .. ByteBase - 1 : n < Power[1]
    /\ {Power[1], Power[ShortLen], Power[WordLen], Power[LongLen]} \subseteq Nat \ {0}
<1>1. {1, ShortLen, WordLen, LongLen} \subseteq Widths \ {0}
  BY WidthAssumption DEF Widths
<1>2. 1 \in Widths \ {0} /\ 1 - 1 = 0
  BY <1>1
<1>3. Power[1] = ByteBase
  BY <1>2, PowerFacts, WidthAssumption
<1> QED
  BY <1>1, <1>3, PowerFacts, WidthAssumption

LEMMA CountedFacts ==
    ASSUME NEW w \in Widths, NEW s \in Seq(Byte)
    PROVE  /\ Counted(Wrote(s), w) = Wrote(PutUint(Len(s), w) \o s)
           /\ Counted(Wrote(s), w) \in Written
           /\ PutUint(Len(s), w) \in Seq(Byte) /\ Len(PutUint(Len(s), w)) = w
           /\ PutUint(Len(s), w) \o s \in Seq(Byte)
<1>1. Len(s) \in Nat
  OBVIOUS
<1>2. PutUint(Len(s), w) \in Seq(Byte) /\ Len(PutUint(Len(s), w)) = w
  BY <1>1, PutUintFacts
<1>3. PutUint(Len(s), w) \o s \in Seq(Byte)
  BY <1>2, BytesFacts
<1>4. Counted(Wrote(s), w) = Wrote(PutUint(Len(s), w) \o s)
  BY WrittenFacts DEF Counted
<1> QED
  BY <1>2, <1>3, <1>4, WrittenFacts

LEMMA BoundedFacts ==
    ASSUME NEW w \in Written, NEW max \in Nat
    PROVE  /\ Bounded(w, max) \in Written
           /\ Bounded(w, max).ok => Bounded(w, max) = w /\ w.ok /\ Len(w.bytes) <= max
  BY WrittenFacts DEF Bounded

(* A reliable envelope is read as it was written, but for one whose payload
   is empty: nothing is left to read then, and the read fails. *)
LEMMA EnvelopeRoundTrip ==
    ASSUME NEW m, Frameable(m)
    PROVE  /\ EncodeReliableEnvelope(m) \in Written
           /\ EncodeReliableEnvelope(m).ok =>
                /\ Len(EncodeReliableEnvelope(m).bytes) <= MaxWireMessagePayloadSize
                /\ EncodeReliableEnvelope(m).bytes # << >>
                /\ DecodeReliableEnvelope(EncodeReliableEnvelope(m).bytes)
                     = IF m.payload = << >> THEN Fails ELSE Got(m, << >>)
<1> DEFINE values == <<m.delivery, m.deliveryID, m.id>>
           widths == <<1, LongLen, ShortLen>>
           head == writeUints(values, widths)
           size == Len(m.payload)
           count == PutUint(size, WordLen)
           max == MaxWireMessagePayloadSize
<1>1. CASE m.delivery \notin ReliableClasses \/ m.deliveryID = 0
  BY <1>1, WrittenFacts DEF EncodeReliableEnvelope
<1>2. CASE m.delivery \in ReliableClasses /\ m.deliveryID # 0
  <2>1. /\ m.delivery \in Nat /\ m.deliveryID \in Nat /\ m.id \in Nat /\ size \in Nat
        /\ m.delivery < Power[1] /\ m.deliveryID < Power[LongLen] /\ m.id < Power[ShortLen]
        /\ m.payload \in Seq(Byte)
    <3>1. m.delivery \in 1 .. ByteBase - 1
      BY <1>2, HeaderAssumption, WidthAssumption DEF ReliableClasses, ReliableOrdered, ReliableUnordered, Byte
    <3>2. m.delivery \in Nat /\ m.delivery < Power[1]
      BY <3>1, UsedWidths
    <3>3. m.deliveryID \in 0 .. Power[LongLen] - 1 /\ m.id \in 0 .. Power[ShortLen] - 1
            /\ m.payload \in Seq(Byte)
      BY DEF Frameable
    <3>4. size \in Nat
      BY <3>3
    <3> QED
      BY <3>2, <3>3, <3>4, UsedWidths
  <2>2. values \in Seq(Nat) /\ Len(values) = 3 /\ widths \in Seq(Widths) /\ Len(widths) = 3
          /\ WordLen \in Widths
    BY <2>1, UsedWidths
  <2>3. head \in Written /\ head.ok
          /\ writeUints(Append(values, size), Append(widths, WordLen)) = Wrote(head.bytes \o count)
    <3> HIDE DEF values, widths
    <3> QED
      BY <2>1, <2>2, WriteUintsAppend
  <2>4. head.bytes \in Seq(Byte)
    BY <2>3, WrittenFacts
  <2>5. count \in Seq(Byte) /\ Len(count) = WordLen /\ Counted(Wrote(m.payload), WordLen) = Wrote(count \o m.payload)
          /\ Counted(Wrote(m.payload), WordLen) \in Written /\ count \o m.payload \in Seq(Byte)
    BY <2>1, <2>2, CountedFacts
  <2> DEFINE all == head.bytes \o (count \o m.payload)
  <2>6. Joined(<<head, writeBytes(Wrote(m.payload))>>) = Wrote(all)
    <3> DEFINE body == Counted(Wrote(m.payload), WordLen)
    <3>1. body \in Written /\ body.ok /\ body.bytes = count \o m.payload
      BY <2>5, WrittenFacts
    <3> HIDE DEF body, head, count
    <3>2. Joined(<<head, body>>) = Wrote(head.bytes \o body.bytes)
      BY <2>3, <3>1, JoinedTwo
    <3> QED
      BY <3>1, <3>2 DEF writeBytes, body
  <2> HIDE DEF head, count
  <2>7. all \in Seq(Byte) /\ Wrote(all) \in Written /\ Wrote(all).ok /\ Wrote(all).bytes = all
    BY <2>4, <2>5, BytesFacts, WrittenFacts
  <2>8. EncodeReliableEnvelope(m) = Bounded(Wrote(all), max)
    BY <1>2, <2>6 DEF EncodeReliableEnvelope, head
  <2>9. max \in Nat /\ max < Power[WordLen] /\ Power[WordLen] \in Nat
    BY LimitAssumption, UsedWidths
  <2>10. EncodeReliableEnvelope(m) \in Written
           /\ (EncodeReliableEnvelope(m).ok => EncodeReliableEnvelope(m).bytes = all /\ Len(all) <= max)
    <3> DEFINE w == Wrote(all)
               b == Bounded(w, max)
    <3>1. w \in Written /\ max \in Nat /\ w.bytes = all
      BY <2>7, <2>9
    <3> HIDE DEF w, max
    <3>2. b \in Written /\ (b.ok => b = w /\ Len(w.bytes) <= max)
      BY ONLY <3>1, BoundedFacts
    <3>3. EncodeReliableEnvelope(m) = b
      BY <2>8 DEF w
    <3> HIDE DEF b
    <3> QED
      BY ONLY <3>1, <3>2, <3>3
  <2>11. all = (head.bytes \o count) \o m.payload /\ Len(all) = Len(head.bytes) + (Len(count) + size)
    <3> DEFINE a == head.bytes
               b == count
               c == m.payload
    <3>1. a \in Seq(Byte) /\ b \in Seq(Byte) /\ c \in Seq(Byte)
      BY <2>1, <2>4, <2>5
    <3> HIDE DEF a, b, c
    <3>2. (a \o b) \o c = a \o (b \o c)
      BY ONLY <3>1, BytesAssociative
    <3>3. b \o c \in Seq(Byte) /\ Len(b \o c) = Len(b) + Len(c)
      BY ONLY <3>1, BytesFacts
    <3>4. Len(a \o (b \o c)) = Len(a) + Len(b \o c)
      BY ONLY <3>1, <3>3, BytesFacts
    <3> QED
      BY <3>2, <3>3, <3>4 DEF a, b, c
  <2>12. Len(head.bytes) \in Nat /\ Len(count) \in Nat \ {0} /\ size \in Nat
    BY <2>1, <2>4, <2>5, WidthAssumption
  <2>13. ASSUME Len(all) <= max
         PROVE  DecodeReliableEnvelope(all) = IF m.payload = << >> THEN Fails ELSE Got(m, << >>)
    <3>1. size <= max /\ size < Power[WordLen]
      <4> DEFINE a == Len(head.bytes)
                 b == Len(count)
                 c == Len(all)
      <4>1. a \in Nat /\ b \in Nat /\ size \in Nat /\ c = a + (b + size) /\ c <= max
        BY <2>11, <2>12, <2>13
      <4> HIDE DEF a, b, c, size, max
      <4> QED
        BY <2>9, <4>1
    <3> DEFINE header == <<m.delivery, m.deliveryID, m.id, size>>
               fields == <<1, LongLen, ShortLen, WordLen>>
    <3>2. header = Append(values, size) /\ fields = Append(widths, WordLen)
      OBVIOUS
    <3>3. writeUints(header, fields) = Wrote(head.bytes \o count)
      BY <2>3, <3>2
    <3>4. /\ fields \in Seq(Widths \ {0}) /\ Len(fields) = 4
          /\ header \in Seq(Nat) /\ Len(header) = 4
          /\ \A n \in 1 .. 4 : header[n] < Power[fields[n]]
      <4>1. fields \in Seq(Widths \ {0}) /\ Len(fields) = 4
        BY UsedWidths
      <4>2. header \in Seq(Nat) /\ Len(header) = 4
        BY <2>1
      <4>3. header[1] < Power[fields[1]] /\ header[2] < Power[fields[2]]
              /\ header[3] < Power[fields[3]] /\ header[4] < Power[fields[4]]
        BY <2>1, <3>1
      <4>4. \A n \in 1 .. 4 : n = 1 \/ n = 2 \/ n = 3 \/ n = 4
        OBVIOUS
      <4> HIDE DEF header, fields
      <4> QED
        BY <4>1, <4>2, <4>3, <4>4
    <3>5. readUints(all, fields) = Got(header, m.payload)
      <4>1. Wrote(head.bytes \o count).bytes = head.bytes \o count
        BY DEF Wrote
      <4> DEFINE t == m.payload
      <4>3. t \in Seq(Byte)
        BY <2>1
      <4> DEFINE k == 4
      <4>4. /\ k \in Nat /\ fields \in Seq(Widths \ {0}) /\ Len(fields) = k
            /\ header \in Seq(Nat) /\ Len(header) = k
            /\ \A n \in 1 .. k : header[n] < Power[fields[n]]
        BY <3>4
      <4> HIDE DEF header, fields, t, k
      <4>2. readUints(writeUints(header, fields).bytes \o t, fields) = Got(header, t)
        BY <4>3, <4>4, UintsRoundTrip
      <4> QED
        BY <2>11, <3>3, <4>1, <4>2 DEF t
    <3>6. /\ header[1] = m.delivery /\ header[2] = m.deliveryID
          /\ header[3] = m.id /\ header[4] = size
      OBVIOUS
    <3> HIDE DEF header, fields
    <3>7. Got(header, m.payload).ok /\ Got(header, m.payload).value = header
            /\ Got(header, m.payload).rest = m.payload
      BY DEF Got
    <3>8. ~(\/ header[1] \notin ReliableClasses \/ header[2] = 0
            \/ header[4] > MaxWireMessagePayloadSize \/ header[4] > Len(m.payload))
      BY <1>2, <2>9, <2>12, <3>1, <3>6
    <3>9. Read(m.payload, size) = IF m.payload = << >> THEN Fails ELSE Got(m.payload, << >>)
      <4>1. m.payload \o << >> = m.payload /\ << >> \in Seq(Byte)
        BY <2>1, BytesFacts
      <4>2. CASE m.payload = << >>
        BY <4>2 DEF Read
      <4>3. CASE m.payload # << >>
        BY <2>1, <4>1, <4>3, ReadPrefix
      <4> QED
        BY <4>2, <4>3
    <3>10. DecodeReliableEnvelope(all)
             = Then(Read(m.payload, size), LAMBDA inner, trailing :
                    IF trailing = << >>
                    THEN Got(Framed(m.id, inner, m.delivery, m.deliveryID), << >>) ELSE Fails)
      BY <3>5, <3>6, <3>7, <3>8 DEF DecodeReliableEnvelope, Then, fields
    <3>11. CASE m.payload = << >>
      BY <3>9, <3>10, <3>11, WrittenFacts DEF Then
    <3>12. CASE m.payload # << >>
      <4>1. Read(m.payload, size) = Got(m.payload, << >>)
        BY <3>9, <3>12
      <4>2. Got(m.payload, << >>).ok /\ Got(m.payload, << >>).value = m.payload
              /\ Got(m.payload, << >>).rest = << >>
        BY DEF Got
      <4>3. Framed(m.id, m.payload, m.delivery, m.deliveryID) = m
        BY DEF Frameable
      <4> QED
        BY <3>10, <3>12, <4>1, <4>2, <4>3 DEF Then
    <3> QED
      BY <3>11, <3>12
  <2>14. all # << >>
    <3> DEFINE a == Len(head.bytes)
               b == Len(count)
               c == Len(all)
    <3>1. a \in Nat /\ b \in Nat \ {0} /\ size \in Nat /\ c = a + (b + size)
      BY <2>11, <2>12
    <3>2. c # 0
      <4> HIDE DEF a, b, c, size
      <4> QED
        BY <3>1
    <3>3. Len(<< >>) = 0
      OBVIOUS
    <3> HIDE DEF all
    <3> QED
      BY <3>2, <3>3
  <2> HIDE DEF all
  <2> QED
    BY <2>10, <2>13, <2>14
<1> QED
  BY <1>1, <1>2 DEF Frameable

Frame(id, payload) == PutUint(id, ShortLen) \o (PutUint(Len(payload), WordLen) \o payload)

LEMMA FrameFacts ==
    ASSUME NEW id \in 0 .. Power[ShortLen] - 1, NEW s \in Seq(Byte), NEW t \in Seq(Byte),
           Len(s) <= MaxWireMessagePayloadSize
    PROVE  /\ Joined(<<writeUint(id, ShortLen), writeBytes(Wrote(s))>>) = Wrote(Frame(id, s))
           /\ Frame(id, s) \in Seq(Byte) /\ Frame(id, s) # << >>
           /\ ~(Len(Frame(id, s) \o t) < wireMessageHeaderSize)
           /\ LET after == (PutUint(Len(s), WordLen) \o s) \o t
              IN  /\ readUint(Frame(id, s) \o t, ShortLen) = Got(id, after)
                  /\ readBytes(after, MaxWireMessagePayloadSize)
                       = IF s \o t = << >> THEN Fails ELSE Got(s, t)
<1> DEFINE first == PutUint(id, ShortLen)
           second == PutUint(Len(s), WordLen) \o s
           count == PutUint(Len(s), WordLen)
<1>1. ShortLen \in Widths \ {0} /\ WordLen \in Widths \ {0} /\ id \in Nat
        /\ ShortLen \in Nat \ {0} /\ WordLen \in Nat \ {0}
  BY UsedWidths, WidthAssumption
<1>2. first \in Seq(Byte) /\ Len(first) = ShortLen
  BY <1>1, PutUintFacts
<1>3. second \in Seq(Byte) /\ Counted(Wrote(s), WordLen) = Wrote(second)
        /\ count \in Seq(Byte) /\ Len(count) = WordLen
  BY <1>1, CountedFacts
<1>4. Len(second) = WordLen + Len(s) /\ Len(s) \in Nat /\ Len(t) \in Nat
  <2> HIDE DEF count
  <2>1. Len(count \o s) = Len(count) + Len(s)
    BY <1>3, BytesFacts
  <2>2. second = count \o s
    BY DEF count
  <2> HIDE DEF second
  <2> QED
    BY <1>3, <2>1, <2>2
<1>5. Joined(<<writeUint(id, ShortLen), writeBytes(Wrote(s))>>) = Wrote(first \o second)
  <2> DEFINE v == Wrote(first)
             w == Wrote(second)
  <2>1. v \in Written /\ v.ok /\ v.bytes = first /\ w \in Written /\ w.ok /\ w.bytes = second
    BY <1>2, <1>3, WrittenFacts
  <2> HIDE DEF v, w, first, second
  <2>2. Joined(<<v, w>>) = Wrote(first \o second)
    BY <2>1, JoinedTwo
  <2> QED
    BY <1>3, <2>2 DEF v, w, first, writeUint, writeBytes
<1> HIDE DEF first, second, count
<1>6. first \o second \in Seq(Byte) /\ Len(first \o second) = Len(first) + Len(second)
        /\ first \o second # << >>
        /\ Len((first \o second) \o t) = (Len(first) + Len(second)) + Len(t)
        /\ (first \o second) \o t = first \o (second \o t) /\ second \o t \in Seq(Byte)
  <2>1. first \o second \in Seq(Byte) /\ Len(first \o second) = Len(first) + Len(second)
          /\ second \o t \in Seq(Byte)
    BY <1>2, <1>3, BytesFacts
  <2>2. first # << >>
    BY <1>1, <1>2
  <2>3. first \o second # << >>
    BY <1>2, <1>3, <2>2, BytesFacts
  <2>4. (first \o second) \o t = first \o (second \o t)
    <3>1. first \in Seq(Byte) /\ second \in Seq(Byte) /\ t \in Seq(Byte)
      BY <1>2, <1>3
    <3> QED
      BY ONLY <3>1, BytesFacts
  <2> DEFINE both == first \o second
  <2>5. both \in Seq(Byte)
    BY <2>1
  <2> HIDE DEF both
  <2>6. Len(both \o t) = Len(both) + Len(t)
    BY <2>5, BytesFacts
  <2> QED
    BY <2>1, <2>3, <2>4, <2>6 DEF both
<1>7. ~(Len((first \o second) \o t) < wireMessageHeaderSize)
  BY <1>1, <1>2, <1>4, <1>6 DEF wireMessageHeaderSize
<1>8. readUint((first \o second) \o t, ShortLen) = Got(id, second \o t)
  BY <1>1, <1>6, ReadUintPrefix DEF first
<1>9. readBytes(second \o t, MaxWireMessagePayloadSize) = IF s \o t = << >> THEN Fails ELSE Got(s, t)
  <2>1. MaxWireMessagePayloadSize \in 0 .. Power[WordLen] - 1
    BY LimitAssumption, UsedWidths
  <2> QED
    BY <1>1, <2>1, CountedRoundTrip DEF second, readBytes
<1> QED
  BY <1>5, <1>6, <1>7, <1>8, <1>9 DEF Frame, first, second

(* A framed message is read as it was written, but for an empty payload in
   an envelope or at the end of the data. *)
LEMMA FramedRoundTrip ==
    ASSUME NEW m, Frameable(m), NEW t \in Seq(Byte)
    PROVE  /\ EncodeFramed(m) \in Written
           /\ EncodeFramed(m).ok =>
                /\ EncodeFramed(m).bytes \in Seq(Byte) /\ EncodeFramed(m).bytes # << >>
                /\ DecodeFramed(EncodeFramed(m).bytes \o t)
                     = IF m.payload = << >> /\ (m.delivery # Unreliable \/ t = << >>)
                       THEN Fails ELSE Got(m, t)
<1> DEFINE max == MaxWireMessagePayloadSize
           envelope == EncodeReliableEnvelope(m)
<1>0. max \in Nat /\ m.id \in 0 .. Power[ShortLen] - 1 /\ m.payload \in Seq(Byte)
  BY LimitAssumption DEF Frameable
<1>1. ASSUME NEW id \in 0 .. Power[ShortLen] - 1, NEW w \in Written
      PROVE  /\ ~w.ok => Joined(<<writeUint(id, ShortLen), writeBytes(w)>>) = Fails
  <2>1. writeUint(id, ShortLen) \in Written
    <3>1. ShortLen \in Widths /\ id \in Nat
      BY UsedWidths
    <3> QED
      BY <3>1, PutUintFacts, WrittenFacts DEF writeUint
  <2>2. ~w.ok => writeBytes(w) = Fails
    BY DEF writeBytes, Counted
  <2> DEFINE v == writeUint(id, ShortLen)
  <2> HIDE DEF v
  <2>3. Joined(<<v, Fails>>) = Fails
    BY <2>1, WrittenFacts, JoinedTwo DEF v
  <2> QED
    BY <2>2, <2>3 DEF v
<1>2. CASE m.delivery = Unreliable
  <2> DEFINE w == Bounded(Wrote(m.payload), max)
  <2>1. EncodeFramed(m) = Joined(<<writeUint(m.id, ShortLen), writeBytes(w)>>)
    BY <1>2 DEF EncodeFramed, Unreliable, ReliableClasses, ReliableOrdered, ReliableUnordered
  <2>2. Wrote(m.payload) \in Written /\ Wrote(m.payload).bytes = m.payload
    BY <1>0, WrittenFacts
  <2>3. w \in Written /\ (w.ok => w = Wrote(m.payload) /\ Len(m.payload) <= max)
    BY <1>0, <2>2, BoundedFacts
  <2> HIDE DEF w
  <2>4. CASE ~w.ok
    BY <1>0, <1>1, <2>1, <2>3, <2>4, WrittenFacts
  <2>5. CASE w.ok
    <3> DEFINE frame == Frame(m.id, m.payload)
               after == (PutUint(Len(m.payload), WordLen) \o m.payload) \o t
    <3>1. /\ EncodeFramed(m) = Wrote(frame) /\ frame \in Seq(Byte) /\ frame # << >>
          /\ ~(Len(frame \o t) < wireMessageHeaderSize)
          /\ readUint(frame \o t, ShortLen) = Got(m.id, after)
          /\ readBytes(after, max) = IF m.payload \o t = << >> THEN Fails ELSE Got(m.payload, t)
      BY <1>0, <2>1, <2>3, <2>5, FrameFacts
    <3>2. m.id # WireMessageReliable /\ m.deliveryID = 0
      BY <1>2 DEF Frameable, Unreliable, ReliableClasses, ReliableOrdered, ReliableUnordered
    <3>3. m = Framed(m.id, m.payload, Unreliable, 0)
      BY <1>2, <3>2 DEF Frameable
    <3> HIDE DEF frame, after
    <3>4. DecodeFramed(frame \o t)
            = IF readBytes(after, max).ok
              THEN Got(Framed(m.id, readBytes(after, max).value, Unreliable, 0), readBytes(after, max).rest)
              ELSE Fails
      <4>1. Got(m.id, after).ok /\ Got(m.id, after).value = m.id /\ Got(m.id, after).rest = after
        BY DEF Got
      <4> QED
        BY <3>1, <3>2, <4>1 DEF DecodeFramed, Then
    <3>5. m.payload \o t = << >> <=> m.payload = << >> /\ t = << >>
      BY <1>0, BytesFacts
    <3>6. DecodeFramed(frame \o t) = IF m.payload \o t = << >> THEN Fails ELSE Got(m, t)
      <4>1. CASE m.payload \o t = << >>
        BY <3>1, <3>4, <4>1, WrittenFacts
      <4>2. CASE m.payload \o t # << >>
        <5>1. readBytes(after, max) = Got(m.payload, t)
          BY <3>1, <4>2
        <5>2. Got(m.payload, t).ok /\ Got(m.payload, t).value = m.payload /\ Got(m.payload, t).rest = t
          BY DEF Got
        <5> QED
          BY <3>3, <3>4, <4>2, <5>1, <5>2
      <4> QED
        BY <4>1, <4>2
    <3>7. Wrote(frame) \in Written /\ Wrote(frame).bytes = frame
      BY <3>1, WrittenFacts
    <3> QED
      BY <1>2, <3>1, <3>5, <3>6, <3>7
  <2> QED
    BY <2>4, <2>5
<1>3. CASE m.delivery \in ReliableClasses
  <2>0. m.delivery # Unreliable /\ WireMessageReliable \in 0 .. Power[ShortLen] - 1
    BY <1>3, HeaderAssumption, UsedWidths
       DEF Unreliable, ReliableClasses, ReliableOrdered, ReliableUnordered, WireMessageReliable
  <2>1. EncodeFramed(m) = Joined(<<writeUint(WireMessageReliable, ShortLen), writeBytes(envelope)>>)
    BY <1>3, <2>0 DEF EncodeFramed
  <2>2. /\ envelope \in Written
        /\ envelope.ok => /\ Len(envelope.bytes) <= max /\ envelope.bytes # << >>
                          /\ DecodeReliableEnvelope(envelope.bytes)
                               = IF m.payload = << >> THEN Fails ELSE Got(m, << >>)
    BY EnvelopeRoundTrip
  <2> HIDE DEF envelope
  <2>4. CASE ~envelope.ok
    BY <1>1, <2>0, <2>1, <2>2, <2>4, WrittenFacts
  <2>5. CASE envelope.ok
    <3> DEFINE s == envelope.bytes
               frame == Frame(WireMessageReliable, s)
               after == (PutUint(Len(s), WordLen) \o s) \o t
    <3>0. envelope = Wrote(s) /\ s \in Seq(Byte) /\ s # << >> /\ Len(s) <= max
      BY <2>2, <2>5, WrittenFacts
    <3>1. /\ EncodeFramed(m) = Wrote(frame) /\ frame \in Seq(Byte) /\ frame # << >>
          /\ ~(Len(frame \o t) < wireMessageHeaderSize)
          /\ readUint(frame \o t, ShortLen) = Got(WireMessageReliable, after)
          /\ readBytes(after, max) = IF s \o t = << >> THEN Fails ELSE Got(s, t)
      <4> HIDE DEF s
      <4> QED
        BY <1>0, <2>0, <2>1, <3>0, FrameFacts
    <3>2. s \o t # << >>
      BY <3>0, BytesFacts
    <3>3. readBytes(after, max) = Got(s, t)
      BY <3>1, <3>2
    <3>4. DecodeReliableEnvelope(s) = IF m.payload = << >> THEN Fails ELSE Got(m, << >>)
      BY <2>2, <2>5
    <3> HIDE DEF s, frame, after
    <3>5. DecodeFramed(frame \o t) = IF DecodeReliableEnvelope(s).ok
                                     THEN Got(DecodeReliableEnvelope(s).value, t) ELSE Fails
      <4>1. /\ Got(WireMessageReliable, after).ok /\ Got(WireMessageReliable, after).value = WireMessageReliable
            /\ Got(WireMessageReliable, after).rest = after
            /\ Got(s, t).ok /\ Got(s, t).value = s /\ Got(s, t).rest = t
        BY DEF Got
      <4> QED
        BY <3>1, <3>3, <4>1 DEF DecodeFramed, Then
    <3>6. DecodeFramed(frame \o t) = IF m.payload = << >> THEN Fails ELSE Got(m, t)
      <4>1. CASE m.payload = << >>
        BY <3>4, <3>5, <4>1, WrittenFacts
      <4>2. CASE m.payload # << >>
        <5>1. DecodeReliableEnvelope(s) = Got(m, << >>)
          BY <3>4, <4>2
        <5>2. Got(m, << >>).ok /\ Got(m, << >>).value = m
          BY DEF Got
        <5> QED
          BY <3>5, <4>2, <5>1, <5>2
      <4> QED
        BY <4>1, <4>2
    <3>7. Wrote(frame) \in Written /\ Wrote(frame).bytes = frame
      BY <3>1, WrittenFacts
    <3> QED
      BY <2>0, <3>1, <3>6, <3>7
  <2> QED
    BY <2>4, <2>5
<1> QED
  BY <1>2, <1>3 DEF Frameable

(* A message the other end cannot read back: an empty payload in an envelope,
   or at the end of the packet. *)
Unreadable(messages, i) ==
    messages[i].payload = << >> /\ (messages[i].delivery # Unreliable \/ i = Len(messages))

(* The loop over the messages of a packet. *)
DecodeMessages(count, left) ==
    Repeat(count, << >>, left, LAMBDA n, done, rest :
        Then(DecodeFramed(rest), LAMBDA framed, more : Got(Append(done, framed), more)))

LEMMA MessagesRoundTrip ==
    ASSUME NEW Messages, \A m \in Messages : Frameable(m), NEW messages \in Seq(Messages),
           NEW writes, writes = [i \in DOMAIN messages |-> EncodeFramed(messages[i])]
    PROVE  /\ Joined(writes) \in Written
           /\ Joined(writes).ok =>
                DecodeMessages(Len(messages), Joined(writes).bytes)
                  = IF \E i \in DOMAIN messages : Unreadable(messages, i)
                    THEN Fails ELSE Got(messages, << >>)
<1> DEFINE N == Len(messages)
<1>1. /\ N \in Nat /\ DOMAIN messages = 1 .. N /\ Len(writes) = N
      /\ \A n \in 1 .. N : messages[n] \in Messages /\ writes[n] = EncodeFramed(messages[n])
  OBVIOUS
<1>2. \A n \in 1 .. N : Frameable(messages[n])
  BY <1>1
<1>3. << >> \in Seq(Byte)
  BY BytesFacts
<1>4. \A n \in 1 .. N : /\ writes[n] \in Written
                        /\ writes[n].ok => writes[n].bytes \in Seq(Byte) /\ writes[n].bytes # << >>
  BY <1>1, <1>2, <1>3, FramedRoundTrip
<1>5. Joined(writes) \in Written /\ (Joined(writes).ok => \A n \in 1 .. N : writes[n].ok)
  <2> HIDE DEF N
  <2> QED
    BY <1>1, <1>4, JoinedNeedsAll
<1>6. ASSUME Joined(writes).ok
      PROVE  DecodeMessages(N, Joined(writes).bytes)
               = IF \E i \in 1 .. N : Unreadable(messages, i) THEN Fails ELSE Got(messages, << >>)
  <2>1. \A n \in 1 .. N : writes[n] \in Written /\ writes[n].ok
    BY <1>4, <1>5, <1>6
  <2>2. PICK rest : LeftAfter(rest, writes, N)
    <3> HIDE DEF N
    <3> QED
      BY <1>1, <2>1, JoinedLeaves
  <2>3. \A n \in 0 .. N : rest[n] \in Seq(Byte)
    BY <2>2 DEF LeftAfter
  <2>4. ASSUME NEW n \in 1 .. N PROVE rest[n] = << >> <=> n = N
    <3>1. CASE n = N
      BY <2>2, <3>1 DEF LeftAfter
    <3>2. CASE n # N
      <4>1. n + 1 \in 1 .. N /\ (n + 1) - 1 = n /\ n + 1 \in 0 .. N
        <5>1. N \in Nat
          BY <1>1
        <5> HIDE DEF N
        <5> QED
          BY <3>2, <5>1
      <4>2. rest[n] = writes[n + 1].bytes \o rest[n + 1]
        BY <2>2, <4>1 DEF LeftAfter
      <4>3. writes[n + 1].bytes \in Seq(Byte) /\ writes[n + 1].bytes # << >> /\ rest[n + 1] \in Seq(Byte)
        BY <1>4, <2>1, <2>3, <4>1
      <4>4. writes[n + 1].bytes \o rest[n + 1] # << >>
        BY <4>3, BytesFacts
      <4> QED
        BY <3>2, <4>2, <4>4
    <3> QED
      BY <3>1, <3>2
  <2>5. ASSUME NEW n \in 1 .. N
        PROVE  DecodeFramed(rest[n - 1]) = IF Unreadable(messages, n) THEN Fails ELSE Got(messages[n], rest[n])
    <3>1. n \in 0 .. N /\ rest[n] \in Seq(Byte) /\ rest[n - 1] = writes[n].bytes \o rest[n]
      <4>1. n \in 0 .. N
        BY <1>1
      <4> HIDE DEF N
      <4> QED
        BY <2>2, <2>3, <4>1 DEF LeftAfter
    <3>2. DecodeFramed(writes[n].bytes \o rest[n])
            = IF messages[n].payload = << >> /\ (messages[n].delivery # Unreliable \/ rest[n] = << >>)
              THEN Fails ELSE Got(messages[n], rest[n])
      BY <1>1, <1>2, <2>1, <3>1, FramedRoundTrip
    <3> QED
      BY <2>4, <3>1, <3>2 DEF Unreadable
  <2> DEFINE left == Joined(writes).bytes
             next(g, n) == IF g.ok
                           THEN IF DecodeFramed(g.rest).ok
                                THEN Got(Append(g.value, DecodeFramed(g.rest).value), DecodeFramed(g.rest).rest)
                                ELSE Fails
                           ELSE Fails
             Bad(n) == \E i \in 1 .. n : Unreadable(messages, i)
             f == [n \in 0 .. N |-> IF Bad(n) THEN Fails ELSE Got(SubSeq(messages, 1, n), rest[n])]
             Loop(g) == g = [n \in 0 .. N |-> IF n = 0 THEN Got(<< >>, left) ELSE next(g[n - 1], n)]
  <2>6. f[0] = Got(<< >>, left)
    <3>1. rest[0] = left /\ SubSeq(messages, 1, 0) = << >> /\ 0 \in 0 .. N
      BY <1>1, <2>2, SubSeqEmpty DEF LeftAfter
    <3>2. ~Bad(0)
      OBVIOUS
    <3>3. f[0] = IF Bad(0) THEN Fails ELSE Got(SubSeq(messages, 1, 0), rest[0])
      <4> HIDE DEF Got, Bad
      <4> QED
        BY <3>1
    <3> HIDE DEF f, left, Bad
    <3> QED
      BY <3>1, <3>2, <3>3
  <2>7. ASSUME NEW n \in 1 .. N PROVE f[n] = next(f[n - 1], n)
    <3>1. n \in 0 .. N /\ n - 1 \in 0 .. N
      BY <1>1
    <3>2. /\ f[n] = IF Bad(n) THEN Fails ELSE Got(SubSeq(messages, 1, n), rest[n])
          /\ f[n - 1] = IF Bad(n - 1) THEN Fails ELSE Got(SubSeq(messages, 1, n - 1), rest[n - 1])
      <4> HIDE DEF Bad
      <4> QED
        BY <3>1
    <3>3. Bad(n) <=> Bad(n - 1) \/ Unreadable(messages, n)
      <4>1. \A i \in 1 .. n : i = n \/ i \in 1 .. n - 1
        BY <1>1
      <4>2. n \in 1 .. n /\ \A i \in 1 .. n - 1 : i \in 1 .. n
        BY <1>1
      <4> QED
        BY <4>1, <4>2
    <3> HIDE DEF f, Bad
    <3>4. CASE Bad(n - 1)
      BY <3>2, <3>3, <3>4, WrittenFacts
    <3>5. CASE ~Bad(n - 1)
      <4> DEFINE before == SubSeq(messages, 1, n - 1)
                 here == rest[n - 1]
      <4>1. f[n - 1] = Got(before, here)
        BY <3>2, <3>5
      <4>2. Append(before, messages[n]) = SubSeq(messages, 1, n)
        BY <1>1
      <4> HIDE DEF before
      <4>3. f[n - 1].ok /\ f[n - 1].value = before /\ f[n - 1].rest = here
        BY ONLY <4>1 DEF Got
      <4>4. CASE Unreadable(messages, n)
        <5>1. DecodeFramed(here) = Fails
          BY <2>5, <4>4
        <5>2. ~DecodeFramed(here).ok
          BY <5>1, WrittenFacts
        <5>3. f[n] = Fails
          BY <3>2, <3>3, <4>4
        <5> QED
          BY <4>3, <5>2, <5>3
      <4>5. CASE ~Unreadable(messages, n)
        <5>1. DecodeFramed(here) = Got(messages[n], rest[n])
          BY <2>5, <4>5
        <5> DEFINE d == DecodeFramed(here)
        <5>2. d = Got(messages[n], rest[n])
          BY <5>1
        <5> HIDE DEF d
        <5>3. d.ok /\ d.value = messages[n] /\ d.rest = rest[n]
          BY ONLY <5>2 DEF Got
        <5>4. f[n] = Got(Append(before, messages[n]), rest[n])
          BY <3>2, <3>3, <3>5, <4>2, <4>5
        <5> QED
          BY <4>3, <5>3, <5>4 DEF d
      <4> QED
        BY <4>4, <4>5
    <3> QED
      BY <3>4, <3>5
  <2>8. Loop(f)
    <3>1. f = [n \in 0 .. N |-> f[n]]
      <4> HIDE DEF Bad, Got
      <4> QED
        OBVIOUS
    <3>2. \A n \in 0 .. N : n = 0 \/ n \in 1 .. N
      BY <1>1
    <3> HIDE DEF f, next, left
    <3> QED
      BY <2>6, <2>7, <3>1, <3>2
  <2> DEFINE loop == CHOOSE g : Loop(g)
  <2>9. DecodeMessages(N, left) = loop[N]
    BY DEF DecodeMessages, Repeat, Then
  <2>10. Loop(loop)
    <3> HIDE DEF f, next, left
    <3> QED
      BY <2>8
  <2> HIDE DEF loop, f, next, left
  <2>11. \A n \in 0 .. N : loop[n] = f[n]
    <3>1. loop[0] = f[0]
      BY <1>1, <2>6, <2>10
    <3>2. ASSUME NEW n \in 1 .. N, loop[n - 1] = f[n - 1] PROVE loop[n] = f[n]
      <4>1. loop[n] = next(loop[n - 1], n)
        BY <1>1, <2>10
      <4> QED
        BY <2>7, <3>2, <4>1
    <3>3. N \in Nat
      BY <1>1
    <3> HIDE DEF Loop, N
    <3> QED
      BY ONLY <3>1, <3>2, <3>3, AgreeUpTo
  <2>12. f[N] = IF Bad(N) THEN Fails ELSE Got(messages, << >>)
    <3>1. rest[N] = << >> /\ SubSeq(messages, 1, N) = messages /\ N \in 0 .. N
      BY <1>1, <2>2 DEF LeftAfter
    <3>2. f[N] = IF Bad(N) THEN Fails ELSE Got(SubSeq(messages, 1, N), rest[N])
      <4> HIDE DEF Bad, N
      <4> QED
        BY <3>1 DEF f
    <3> HIDE DEF Bad
    <3> QED
      BY <3>1, <3>2
  <2>13. N \in 0 .. N
    BY <1>1
  <2> HIDE DEF Bad
  <2> QED
    BY <2>9, <2>11, <2>12, <2>13 DEF left, Bad
<1> QED
  BY <1>1, <1>5, <1>6

LEMMA WriteUintsLen ==
    ASSUME NEW N \in Nat, NEW widths \in Seq(Widths), NEW values \in Seq(Nat),
           Len(widths) = N, Len(values) = N, NEW n \in Nat, NEW w \in Widths
    PROVE  Len(writeUints(Append(values, n), Append(widths, w)).bytes)
             = Len(writeUints(values, widths).bytes) + w
<1> DEFINE s == writeUints(values, widths).bytes
           t == PutUint(n, w)
<1>1. s \in Seq(Byte) /\ writeUints(Append(values, n), Append(widths, w)).bytes = s \o t
  <2> DEFINE v == writeUints(values, widths)
             more == writeUints(Append(values, n), Append(widths, w))
  <2>1. v \in Written /\ v.ok /\ more = Wrote(v.bytes \o t)
    BY WriteUintsAppend
  <2> HIDE DEF v, more, t
  <2>2. v.bytes \in Seq(Byte) /\ more.bytes = v.bytes \o t
    BY <2>1, WrittenFacts DEF Wrote
  <2> QED
    BY <2>2 DEF v, more
<1>2. t \in Seq(Byte) /\ Len(t) = w
  BY PutUintFacts
<1> HIDE DEF s, t
<1>3. Len(s \o t) = Len(s) + Len(t)
  BY <1>1, <1>2, BytesFacts
<1> QED
  BY <1>1, <1>2, <1>3 DEF s

(* The integers of the packet header. *)
LEMMA HeaderLen ==
    ASSUME NEW a \in Nat, NEW b \in Nat, NEW c \in Nat, NEW d \in Nat
    PROVE  Len(writeUints(<<a, b, c, d>>, <<WordLen, LongLen, LongLen, LongLen>>).bytes)
             = WordLen + 3 * LongLen
<1> DEFINE W == WordLen
           L == LongLen
<1>1. W \in Widths /\ L \in Widths /\ W \in Nat /\ L \in Nat
  BY UsedWidths, WidthAssumption
<1> HIDE DEF W, L
<1>2. Len(writeUints(<< >>, << >>).bytes) = 0
  <2>1. [i \in DOMAIN << >> |-> writeUint(<< >>[i], << >>[i])] = << >>
    OBVIOUS
  <2>2. writeUints(<< >>, << >>) = Wrote(<< >>)
    BY <2>1, JoinedEmpty DEF writeUints
  <2> QED
    BY <2>2 DEF Wrote
<1>3. /\ <<a>> = Append(<< >>, a) /\ <<a, b>> = Append(<<a>>, b)
      /\ <<a, b, c>> = Append(<<a, b>>, c) /\ <<a, b, c, d>> = Append(<<a, b, c>>, d)
      /\ <<W>> = Append(<< >>, W) /\ <<W, L>> = Append(<<W>>, L)
      /\ <<W, L, L>> = Append(<<W, L>>, L) /\ <<W, L, L, L>> = Append(<<W, L, L>>, L)
  OBVIOUS
<1>4. Len(writeUints(<<a>>, <<W>>).bytes) = 0 + W
  <2>1. << >> \in Seq(Widths) /\ << >> \in Seq(Nat) /\ Len(<< >>) = 0 /\ 0 \in Nat
    OBVIOUS
  <2> DEFINE vs == << >>
             ws == << >>
             k == 0
  <2>2. /\ vs \in Seq(Nat) /\ ws \in Seq(Widths) /\ Len(vs) = k /\ Len(ws) = k /\ k \in Nat
    BY <2>1
  <2>3. Len(writeUints(vs, ws).bytes) = 0
    BY <1>2
  <2> HIDE DEF vs, ws, k
  <2>4. Len(writeUints(Append(vs, a), Append(ws, W)).bytes) = Len(writeUints(vs, ws).bytes) + W
    BY ONLY <1>1, <2>2, a \in Nat, WriteUintsLen
  <2> QED
    BY <1>3, <2>3, <2>4 DEF vs, ws
<1>5. Len(writeUints(<<a, b>>, <<W, L>>).bytes) = (0 + W) + L
  <2>1. <<W>> \in Seq(Widths) /\ <<a>> \in Seq(Nat) /\ Len(<<W>>) = 1 /\ Len(<<a>>) = 1 /\ 1 \in Nat
    BY <1>1
  <2> DEFINE vs == <<a>>
             ws == <<W>>
             k == 1
  <2>2. /\ vs \in Seq(Nat) /\ ws \in Seq(Widths) /\ Len(vs) = k /\ Len(ws) = k /\ k \in Nat
    BY <2>1
  <2>3. Len(writeUints(vs, ws).bytes) = 0 + W
    BY <1>4
  <2> HIDE DEF vs, ws, k
  <2>4. Len(writeUints(Append(vs, b), Append(ws, L)).bytes) = Len(writeUints(vs, ws).bytes) + L
    BY ONLY <1>1, <2>2, b \in Nat, WriteUintsLen
  <2> QED
    BY <1>3, <2>3, <2>4 DEF vs, ws
<1>6. Len(writeUints(<<a, b, c>>, <<W, L, L>>).bytes) = ((0 + W) + L) + L
  <2>1. <<W, L>> \in Seq(Widths) /\ <<a, b>> \in Seq(Nat) /\ Len(<<W, L>>) = 2 /\ Len(<<a, b>>) = 2 /\ 2 \in Nat
    BY <1>1
  <2> DEFINE vs == <<a, b>>
             ws == <<W, L>>
             k == 2
  <2>2. /\ vs \in Seq(Nat) /\ ws \in Seq(Widths) /\ Len(vs) = k /\ Len(ws) = k /\ k \in Nat
    BY <2>1
  <2>3. Len(writeUints(vs, ws).bytes) = (0 + W) + L
    BY <1>5
  <2> HIDE DEF vs, ws, k
  <2>4. Len(writeUints(Append(vs, c), Append(ws, L)).bytes) = Len(writeUints(vs, ws).bytes) + L
    BY ONLY <1>1, <2>2, c \in Nat, WriteUintsLen
  <2> QED
    BY <1>3, <2>3, <2>4 DEF vs, ws
<1>7. Len(writeUints(<<a, b, c, d>>, <<W, L, L, L>>).bytes) = (((0 + W) + L) + L) + L
  <2>1. <<W, L, L>> \in Seq(Widths) /\ <<a, b, c>> \in Seq(Nat) /\ Len(<<W, L, L>>) = 3
          /\ Len(<<a, b, c>>) = 3 /\ 3 \in Nat
    BY <1>1
  <2> DEFINE vs == <<a, b, c>>
             ws == <<W, L, L>>
             k == 3
  <2>2. /\ vs \in Seq(Nat) /\ ws \in Seq(Widths) /\ Len(vs) = k /\ Len(ws) = k /\ k \in Nat
    BY <2>1
  <2>3. Len(writeUints(vs, ws).bytes) = ((0 + W) + L) + L
    BY <1>6
  <2> HIDE DEF vs, ws, k
  <2>4. Len(writeUints(Append(vs, d), Append(ws, L)).bytes) = Len(writeUints(vs, ws).bytes) + L
    BY ONLY <1>1, <2>2, d \in Nat, WriteUintsLen
  <2> QED
    BY <1>3, <2>3, <2>4 DEF vs, ws
<1>8. (((0 + W) + L) + L) + L = W + 3 * L
  BY <1>1
<1> QED
  BY <1>7, <1>8 DEF W, L

(* A packet is decoded into the packet that was encoded, unless one of its
   messages has an empty payload in an envelope or at the end of the packet:
   then it is refused as a whole.  No message is changed, lost, invented or
   moved (EncodePacketWithAcks and DecodePacket). *)
THEOREM PacketRoundTrip ==
    ASSUME NEW Messages, \A m \in Messages : Frameable(m), NEW messages \in Seq(Messages),
           NEW sequence \in 0 .. Power[LongLen] - 1, NEW upTo \in 0 .. Power[LongLen] - 1,
           NEW bits \in 0 .. Power[LongLen] - 1
    PROVE  LET p == Packet(sequence, upTo, bits, messages)
               write == EncodePacketWithAcks(p)
           IN  write.ok =>
                 /\ write.bytes \in Seq(Byte)
                 /\ DecodePacket(write.bytes)
                      = IF \E i \in DOMAIN messages : Unreadable(messages, i)
                        THEN Fails ELSE Got(p, << >>)
<1> DEFINE p == Packet(sequence, upTo, bits, messages)
           write == EncodePacketWithAcks(p)
           N == Len(messages)
           values == <<0, sequence, upTo, bits>>
           widths == <<WordLen, LongLen, LongLen, LongLen>>
           prefix == WireProtocolMagic \o <<WireProtocolVersion, N>>
           numbers == writeUints(values, widths)
           writes == [i \in DOMAIN messages |-> EncodeFramed(messages[i])]
           joined == Joined(writes)
           bounded == Bounded(joined, MaxWirePayloadSize)
<1> SUFFICES ASSUME write.ok
             PROVE  /\ write.bytes \in Seq(Byte)
                    /\ DecodePacket(write.bytes)
                         = IF \E i \in DOMAIN messages : Unreadable(messages, i)
                           THEN Fails ELSE Got(p, << >>)
  OBVIOUS
<1>1. p.messages = messages /\ p.sequence = sequence /\ p.ack = upTo /\ p.ackBits = bits
  BY DEF Packet
<1>2. N \in 1 .. MaxWireMessagesPerPacket
        /\ write = Joined(<<Wrote(prefix), numbers, writeBytes(bounded)>>)
  <2>1. EncodePacketWithAcks(p) = IF N \notin 1 .. MaxWireMessagesPerPacket THEN Fails
                                  ELSE Joined(<<Wrote(prefix), numbers, writeBytes(bounded)>>)
    <3> HIDE DEF p
    <3> QED
      BY <1>1 DEF EncodePacketWithAcks
  <2> DEFINE bytes == Joined(<<Wrote(prefix), numbers, writeBytes(bounded)>>)
  <2>2. write = IF N \notin 1 .. MaxWireMessagesPerPacket THEN Fails ELSE bytes
    BY <2>1
  <2> HIDE DEF write, bytes, N
  <2>3. N \in 1 .. MaxWireMessagesPerPacket
    BY <2>2, WrittenFacts
  <2> QED
    BY <2>2, <2>3 DEF bytes
<1>3. /\ prefix \in Seq(Byte) /\ Len(prefix) = 4
      /\ SubSeq(prefix, 1, 2) = WireProtocolMagic
      /\ prefix[3] = WireProtocolVersion /\ prefix[4] = N
  <2>1. 69 \in Byte /\ 83 \in Byte /\ WireProtocolVersion \in Byte /\ N \in Byte
    <3>1. <<69, 83>> \in Seq(Byte) /\ WireProtocolVersion \in Byte
      BY HeaderAssumption DEF WireProtocolMagic
    <3>2. N \in Byte
      BY <1>2, PayloadAssumption, WidthAssumption DEF Byte
    <3> QED
      BY <3>1, <3>2
  <2> DEFINE s == WireProtocolMagic
             v == WireProtocolVersion
             t == <<v, N>>
  <2>2. s \in Seq(Byte) /\ Len(s) = 2
    BY HeaderAssumption DEF WireProtocolMagic
  <2> HIDE DEF N, v
  <2>3. t \in Seq(Byte) /\ Len(t) = 2 /\ t[1] = v /\ t[2] = N
    BY <2>1 DEF v
  <2>4. prefix = s \o t
    BY DEF v
  <2> HIDE DEF s, t, prefix
  <2>5. Len(s \o t) = 4 /\ s \o t \in Seq(Byte) /\ SubSeq(s \o t, 1, 2) = s
    <3>1. Len(s \o t) = Len(s) + Len(t) /\ s \o t \in Seq(Byte) /\ SubSeq(s \o t, 1, Len(s)) = s
      BY ONLY <2>2, <2>3, SplitPrefix
    <3>2. Len(s) = 2 /\ Len(s) + Len(t) = 4
      BY <2>2, <2>3
    <3> QED
      BY ONLY <3>1, <3>2
  <2>6. (s \o t)[3] = t[1] /\ (s \o t)[4] = t[2]
    <3>1. 3 \in 1 .. 4 /\ 4 \in 1 .. 4 /\ ~(3 <= 2) /\ ~(4 <= 2) /\ 3 - 2 = 1 /\ 4 - 2 = 2
      OBVIOUS
    <3>2. \A i \in 1 .. 4 : (s \o t)[i] = IF i <= 2 THEN s[i] ELSE t[i - 2]
      <4>1. \A i \in 1 .. Len(s) + Len(t) : (s \o t)[i] = IF i <= Len(s) THEN s[i] ELSE t[i - Len(s)]
        BY ONLY <2>2, <2>3, ConcatProperties
      <4>2. Len(s) = 2 /\ Len(s) + Len(t) = 4
        BY <2>2, <2>3
      <4> QED
        BY ONLY <4>1, <4>2
    <3> QED
      BY ONLY <3>1, <3>2
  <2> QED
    BY <2>3, <2>4, <2>5, <2>6 DEF s, v
<1>4. joined \in Written
        /\ (joined.ok => DecodeMessages(N, joined.bytes)
                           = IF \E i \in DOMAIN messages : Unreadable(messages, i)
                             THEN Fails ELSE Got(messages, << >>))
  BY MessagesRoundTrip
<1> HIDE DEF write, joined
<1>5. MaxWirePayloadSize \in Nat /\ MaxWirePayloadSize < Power[WordLen] /\ Power[WordLen] \in Nat
  BY PayloadAssumption, UsedWidths
<1>6. bounded \in Written /\ (bounded.ok => bounded = joined /\ joined.ok /\ Len(joined.bytes) <= MaxWirePayloadSize)
  BY <1>4, <1>5, BoundedFacts
<1>7. /\ values \in Seq(Nat) /\ Len(values) = 4 /\ widths \in Seq(Widths) /\ Len(widths) = 4
      /\ WordLen \in Widths /\ sequence \in Nat /\ upTo \in Nat /\ bits \in Nat
  <2>1. sequence \in Nat /\ upTo \in Nat /\ bits \in Nat
    BY UsedWidths
  <2> QED
    BY <2>1, UsedWidths
<1> DEFINE body == joined.bytes
           size == Len(body)
           count == PutUint(size, WordLen)
<1>8. numbers \in Written /\ numbers.ok
  <2> DEFINE k == 4
  <2>1. k \in Nat /\ Len(values) = k /\ Len(widths) = k /\ 0 \in Nat /\ values \in Seq(Nat) /\ widths \in Seq(Widths)
          /\ WordLen \in Widths
    BY <1>7
  <2> HIDE DEF k, values, widths
  <2> QED
    BY ONLY <2>1, WriteUintsAppend
<1> HIDE DEF bounded, numbers, prefix
<1>9. bounded.ok /\ write = Wrote((prefix \o numbers.bytes) \o (count \o body))
        /\ body \in Seq(Byte) /\ count \in Seq(Byte) /\ Len(count) = WordLen
  <2> DEFINE u == Wrote(prefix)
             w == writeBytes(bounded)
  <2>1. u \in Written /\ u.ok /\ u.bytes = prefix
    BY <1>3, WrittenFacts
  <2>2. /\ ~bounded.ok => w = Fails
        /\ bounded.ok => /\ w = Wrote(count \o body) /\ w \in Written /\ body \in Seq(Byte)
                         /\ count \in Seq(Byte) /\ Len(count) = WordLen
    <3>1. ~bounded.ok => w = Fails
      BY DEF writeBytes, Counted
    <3>2. ASSUME bounded.ok PROVE bounded = Wrote(body) /\ body \in Seq(Byte)
      BY <1>6, <3>2, WrittenFacts
    <3> HIDE DEF body
    <3> QED
      BY <1>7, <3>1, <3>2, CountedFacts DEF writeBytes
  <2>3. w \in Written
    BY <2>2, WrittenFacts
  <2> HIDE DEF u, w
  <2>4. write = IF u.ok /\ numbers.ok /\ w.ok THEN Wrote((u.bytes \o numbers.bytes) \o w.bytes) ELSE Fails
    <3>1. write = Joined(<<u, numbers, w>>)
      BY <1>2 DEF u, w
    <3> QED
      BY <1>8, <2>1, <2>3, <3>1, JoinedThree
  <2>5. w.ok
    BY <2>4, WrittenFacts
  <2>6. bounded.ok
    BY <2>2, <2>5, WrittenFacts
  <2>7. w.bytes = count \o body
    <3> DEFINE x == count \o body
    <3>1. w = Wrote(x)
      BY <2>2, <2>6
    <3> HIDE DEF x
    <3>2. w.bytes = x
      BY <3>1 DEF Wrote
    <3> QED
      BY <3>2 DEF x
  <2> QED
    BY <1>8, <2>1, <2>2, <2>4, <2>5, <2>6, <2>7
<1>10. numbers.bytes \in Seq(Byte) /\ Len(numbers.bytes) = WordLen + 3 * LongLen
  <2>1. numbers.bytes \in Seq(Byte)
    BY <1>8, WrittenFacts
  <2>2. Len(numbers.bytes) = WordLen + 3 * LongLen
    BY <1>7, HeaderLen DEF numbers
  <2> QED
    BY <2>1, <2>2
<1>11. size \in Nat /\ size <= MaxWirePayloadSize /\ joined.ok
  BY <1>6, <1>9
<1> DEFINE rest == (numbers.bytes \o count) \o body
           data == prefix \o rest
<1>12. /\ write.bytes = data /\ data \in Seq(Byte) /\ rest \in Seq(Byte)
       /\ Len(data) = 4 + ((Len(numbers.bytes) + WordLen) + size)
       /\ SubSeq(data, 5, Len(data)) = rest
       /\ SubSeq(data, 1, 2) = WireProtocolMagic /\ data[3] = WireProtocolVersion /\ data[4] = N
  <2> DEFINE a == numbers.bytes
  <2>1. a \in Seq(Byte) /\ count \in Seq(Byte) /\ body \in Seq(Byte) /\ prefix \in Seq(Byte)
    BY <1>3, <1>9, <1>10
  <2> HIDE DEF a, count, body
  <2>2. a \o count \in Seq(Byte) /\ count \o body \in Seq(Byte) /\ prefix \o a \in Seq(Byte)
    BY <2>1, BytesFacts
  <2>3. (a \o count) \o body \in Seq(Byte)
    BY <2>1, <2>2, BytesFacts
  <2>4. (prefix \o a) \o (count \o body) = prefix \o ((a \o count) \o body)
    <3>1. (prefix \o a) \o (count \o body) = prefix \o (a \o (count \o body))
      <4> DEFINE cb == count \o body
      <4>1. cb \in Seq(Byte) /\ prefix \in Seq(Byte) /\ a \in Seq(Byte)
        BY <2>1, <2>2
      <4> HIDE DEF cb
      <4>2. (prefix \o a) \o cb = prefix \o (a \o cb)
        BY ONLY <4>1, BytesAssociative
      <4> QED
        BY <4>2 DEF cb
    <3>2. (a \o count) \o body = a \o (count \o body)
      BY ONLY <2>1, BytesAssociative
    <3> QED
      BY ONLY <3>1, <3>2
  <2>5. Len((a \o count) \o body) = (Len(a) + Len(count)) + Len(body)
    <3>1. Len((a \o count) \o body) = Len(a \o count) + Len(body)
      BY ONLY <2>1, <2>2, BytesFacts
    <3>2. Len(a \o count) = Len(a) + Len(count)
      BY ONLY <2>1, BytesFacts
    <3> QED
      BY ONLY <3>1, <3>2
  <2>6. rest = (a \o count) \o body
    BY DEF a
  <2> DEFINE r == rest
             d == data
  <2>7. r \in Seq(Byte) /\ Len(r) = (Len(a) + WordLen) + size /\ d = prefix \o r
    BY <1>9, <2>3, <2>5, <2>6
  <2> HIDE DEF r, d
  <2>8. /\ Len(d) = Len(prefix) + Len(r) /\ d \in Seq(Byte)
        /\ SubSeq(d, 1, Len(prefix)) = prefix /\ SubSeq(d, Len(prefix) + 1, Len(d)) = r
    BY <2>1, <2>7, SplitPrefix
  <2>9. Len(d) = 4 + Len(r) /\ SubSeq(d, 1, 4) = prefix /\ SubSeq(d, 5, Len(d)) = r /\ Len(r) \in Nat
    <3>1. Len(prefix) = 4 /\ Len(prefix) + 1 = 5
      BY <1>3
    <3>2. Len(r) \in Nat
      BY <2>7
    <3> QED
      BY ONLY <2>8, <3>1, <3>2
  <2>10. \A i \in 1 .. 4 : d[i] = prefix[i]
    <3>1. \A i \in 1 .. 4 : SubSeq(d, 1, 4)[i] = d[i]
      BY <2>8, <2>9
    <3> QED
      BY <2>9, <3>1
  <2>11. SubSeq(d, 1, 2) = SubSeq(prefix, 1, 2)
    <3>1. /\ SubSeq(d, 1, 2) = [i \in 1 .. 2 |-> d[i]]
          /\ SubSeq(prefix, 1, 2) = [i \in 1 .. 2 |-> prefix[i]]
      BY <1>3, <2>8, <2>9
    <3> QED
      BY <2>10, <3>1
  <2>12. write.bytes = (prefix \o a) \o (count \o body)
    <3> DEFINE x == (prefix \o a) \o (count \o body)
    <3>1. write = Wrote(x)
      BY <1>9 DEF a
    <3> HIDE DEF x
    <3>2. write.bytes = x
      BY <3>1 DEF Wrote
    <3> QED
      BY <3>2 DEF x
  <2>13. write.bytes = d
    BY <2>4, <2>6, <2>12 DEF d
  <2>14. d[3] = prefix[3] /\ d[4] = prefix[4]
    BY <2>10
  <2> QED
    BY <1>3, <2>7, <2>8, <2>9, <2>11, <2>13, <2>14 DEF a, r, d
<1> DEFINE header == <<0, sequence, upTo, bits, size>>
           fields == <<WordLen, LongLen, LongLen, LongLen, WordLen>>
<1>13. readUints(rest, fields) = Got(header, body)
  <2>1. header = Append(values, size) /\ fields = Append(widths, WordLen)
    OBVIOUS
  <2>2. writeUints(header, fields) = Wrote(numbers.bytes \o count)
    <3> DEFINE k == 4
    <3>1. k \in Nat /\ Len(values) = k /\ Len(widths) = k /\ values \in Seq(Nat) /\ widths \in Seq(Widths)
            /\ WordLen \in Widths /\ size \in Nat
      BY <1>7, <1>11
    <3> HIDE DEF k, values, widths, size
    <3>2. writeUints(Append(values, size), Append(widths, WordLen))
            = Wrote(writeUints(values, widths).bytes \o PutUint(size, WordLen))
      BY ONLY <3>1, WriteUintsAppend
    <3> QED
      BY <2>1, <3>2 DEF numbers, count
  <2> DEFINE k == 5
             t == body
  <2>3. /\ k \in Nat /\ fields \in Seq(Widths \ {0}) /\ Len(fields) = k
        /\ header \in Seq(Nat) /\ Len(header) = k /\ t \in Seq(Byte)
        /\ \A n \in 1 .. k : header[n] < Power[fields[n]]
    <3>1. fields \in Seq(Widths \ {0}) /\ Len(fields) = 5
      BY UsedWidths
    <3>2. header \in Seq(Nat) /\ Len(header) = 5
      BY <1>7, <1>11
    <3>3. size < Power[WordLen] /\ 0 < Power[WordLen] /\ sequence < Power[LongLen]
            /\ upTo < Power[LongLen] /\ bits < Power[LongLen]
      <4> HIDE DEF size
      <4> QED
        BY <1>5, <1>11, UsedWidths
    <3>4. /\ header[1] = 0 /\ header[2] = sequence /\ header[3] = upTo /\ header[4] = bits /\ header[5] = size
          /\ fields[1] = WordLen /\ fields[2] = LongLen /\ fields[3] = LongLen /\ fields[4] = LongLen
          /\ fields[5] = WordLen
      OBVIOUS
    <3>5. \A n \in 1 .. 5 : n = 1 \/ n = 2 \/ n = 3 \/ n = 4 \/ n = 5
      OBVIOUS
    <3> HIDE DEF header, fields, body
    <3> QED
      BY <1>9, <3>1, <3>2, <3>3, <3>4, <3>5
  <2> HIDE DEF k, t, header, fields
  <2>4. readUints(writeUints(header, fields).bytes \o t, fields) = Got(header, t)
    BY ONLY <2>3, UintsRoundTrip
  <2>5. Wrote(numbers.bytes \o count).bytes = numbers.bytes \o count
    BY DEF Wrote
  <2> QED
    BY <2>2, <2>4, <2>5 DEF t
<1>14. header[2] = sequence /\ header[3] = upTo /\ header[4] = bits /\ header[5] = size
  OBVIOUS
<1>15. ~(\/ Len(data) < wirePacketHeaderSize
         \/ Len(data) - wirePacketHeaderSize > MaxWirePayloadSize
         \/ SubSeq(data, 1, 2) # WireProtocolMagic
         \/ data[3] # WireProtocolVersion
         \/ data[4] \notin 1 .. MaxWireMessagesPerPacket)
  <2> DEFINE total == Len(data)
             n == Len(numbers.bytes)
  <2>1. total = 4 + ((n + WordLen) + size) /\ n = WordLen + 3 * LongLen
    BY <1>10, <1>12
  <2>2. ~(total < wirePacketHeaderSize) /\ ~(total - wirePacketHeaderSize > MaxWirePayloadSize)
    <3> DEFINE W == WordLen
               L == LongLen
               H == wirePacketHeaderSize
               M == MaxWirePayloadSize
    <3>1. /\ W \in Nat /\ L \in Nat /\ size \in Nat /\ size <= M /\ M \in Nat
          /\ H = 4 + W + 3 * L + W /\ total = 4 + ((n + W) + size) /\ n = W + 3 * L
      BY <1>5, <1>11, <2>1, WidthAssumption DEF wirePacketHeaderSize
    <3> HIDE DEF total, n, size, W, L, H, M
    <3>2. total = H + size /\ H \in Nat
      BY <3>1
    <3>3. ~(total < H) /\ ~(total - H > M)
      BY <3>1, <3>2
    <3> QED
      BY <3>3 DEF H, M
  <2> QED
    BY <1>2, <1>12, <2>2
<1> HIDE DEF data, rest, header, fields, body
<1>16. Got(header, body).ok /\ Got(header, body).value = header /\ Got(header, body).rest = body
  BY DEF Got
<1>17. DecodePacket(data)
         = Then(DecodeMessages(N, body), LAMBDA decoded, trailing :
                IF trailing = << >>
                THEN Got(Packet(sequence, upTo, bits, decoded), << >>) ELSE Fails)
  <2>1. readUints(SubSeq(data, 5, Len(data)), <<WordLen, LongLen, LongLen, LongLen, WordLen>>) = Got(header, body)
    BY <1>12, <1>13 DEF fields
  <2> HIDE DEF N
  <2> QED
    BY <1>12, <1>14, <1>15, <1>16, <2>1 DEF DecodePacket, Then, DecodeMessages
<1>18. DecodeMessages(N, body) = IF \E i \in DOMAIN messages : Unreadable(messages, i)
                                 THEN Fails ELSE Got(messages, << >>)
  BY <1>4, <1>11 DEF body
<1>19. CASE \E i \in DOMAIN messages : Unreadable(messages, i)
  <2>1. DecodeMessages(N, body) = Fails
    BY <1>18, <1>19
  <2>2. DecodePacket(data) = Fails
    BY <1>17, <2>1, WrittenFacts DEF Then
  <2> QED
    BY <1>12, <1>19, <2>2
<1>20. CASE ~(\E i \in DOMAIN messages : Unreadable(messages, i))
  <2>1. DecodeMessages(N, body) = Got(messages, << >>)
    BY <1>18, <1>20
  <2>2. Got(messages, << >>).ok /\ Got(messages, << >>).value = messages /\ Got(messages, << >>).rest = << >>
    BY DEF Got
  <2>3. DecodePacket(data) = Got(Packet(sequence, upTo, bits, messages), << >>)
    BY <1>17, <2>1, <2>2 DEF Then
  <2> QED
    BY <1>12, <1>20, <2>3
<1> QED
  BY <1>19, <1>20

-----------------------------------------------------------------------------
(* The codec: fields, messages and datagrams. *)

LEMMA UintReadsBack ==
    ASSUME NEW w \in Widths \ {0}, NEW n \in 0 .. Power[w] - 1, NEW t \in Seq(Byte)
    PROVE  /\ writeUint(n, w) \in Written /\ writeUint(n, w).ok
           /\ writeUint(n, w).bytes # << >>
           /\ readUint(writeUint(n, w).bytes \o t, w) = Got(n, t)
<1> DEFINE s == PutUint(n, w)
<1>1. n \in Nat /\ w \in Nat \ {0} /\ w \in Widths
  BY PowerFacts, WidthAssumption DEF Widths
<1>2. s \in Seq(Byte) /\ Len(s) = w
  BY <1>1, PutUintFacts
<1>3. s # << >>
  <2> HIDE DEF s
  <2> QED
    BY <1>1, <1>2
<1>4. readUint(s \o t, w) = Got(n, t)
  BY ReadUintPrefix
<1> HIDE DEF s
<1>5. writeUint(n, w) = Wrote(s)
  BY DEF writeUint, s
<1> QED
  BY <1>2, <1>3, <1>4, <1>5, WrittenFacts

LEMMA CountedReadsBack ==
    ASSUME NEW w \in Widths \ {0}, NEW max \in 0 .. Power[w] - 1, NEW s \in Seq(Byte), NEW t \in Seq(Byte)
    PROVE  LET write == Counted(Bounded(Wrote(s), max), w)
           IN  /\ write \in Written
               /\ write.ok => /\ write.bytes # << >>
                              /\ readCounted(write.bytes \o t, w, max)
                                   = IF s = << >> /\ t = << >> THEN Fails ELSE Got(s, t)
<1> DEFINE bound == Bounded(Wrote(s), max)
           write == Counted(bound, w)
           all == PutUint(Len(s), w) \o s
<1>1. max \in Nat /\ w \in Widths /\ w \in Nat \ {0}
  BY PowerFacts, WidthAssumption DEF Widths
<1>2. Wrote(s) \in Written /\ Wrote(s).bytes = s
  BY WrittenFacts
<1>3. bound \in Written /\ (bound.ok => bound = Wrote(s) /\ Len(s) <= max)
  BY <1>1, <1>2, BoundedFacts
<1> HIDE DEF bound
<1>4. CASE ~bound.ok
  <2>1. write = Fails
    BY <1>4 DEF Counted
  <2> QED
    BY <2>1, WrittenFacts DEF bound
<1>5. CASE bound.ok
  <2>1. /\ write = Wrote(all) /\ write \in Written /\ all \in Seq(Byte)
        /\ PutUint(Len(s), w) \in Seq(Byte) /\ Len(PutUint(Len(s), w)) = w
    BY <1>1, <1>3, <1>5, CountedFacts
  <2>2. all # << >>
    <3>1. PutUint(Len(s), w) # << >>
      <4> DEFINE c == PutUint(Len(s), w)
      <4>1. c \in Seq(Byte) /\ Len(c) = w
        BY <2>1
      <4> HIDE DEF c
      <4>2. c # << >>
        BY <1>1, <4>1
      <4> QED
        BY <4>2 DEF c
    <3> QED
      BY <2>1, <3>1, BytesFacts
  <2>3. readCounted(all \o t, w, max) = IF s \o t = << >> THEN Fails ELSE Got(s, t)
    BY <1>3, <1>5, CountedRoundTrip
  <2>4. s \o t = << >> <=> s = << >> /\ t = << >>
    BY BytesFacts
  <2> HIDE DEF write, all
  <2>5. write.bytes = all
    BY <2>1 DEF Wrote
  <2> QED
    BY <2>1, <2>2, <2>3, <2>4, <2>5 DEF write, bound
<1> QED
  BY <1>4, <1>5

LEMMA FlatReadsBack ==
    ASSUME NEW kind \in FlatKinds, NEW v, FieldTyped(kind, v), NEW t \in Seq(Byte)
    PROVE  ReadsBack(kind, v, t)
<1>1. SeenField(kind, v) = v /\ kind # "negotiation"
  BY DEF SeenField, FlatKinds
<1>2. CASE kind = "short"
  <2>1. ShortLen \in Widths \ {0} /\ v \in 0 .. Power[ShortLen] - 1
    BY <1>2, UsedWidths DEF FieldTyped
  <2>2. ~FieldEndsEmpty(kind, v)
    BY <1>2 DEF FieldEndsEmpty
  <2>3. EncodeField(kind, v) = writeUint(v, ShortLen) /\ \A s : DecodeField(kind, s) = readUint(s, ShortLen)
    BY <1>2 DEF EncodeField, DecodeField
  <2> QED
    BY <1>1, <2>1, <2>2, <2>3, UintReadsBack DEF ReadsBack
<1>3. CASE kind = "long"
  <2>1. LongLen \in Widths \ {0} /\ v \in 0 .. Power[LongLen] - 1
    BY <1>3, UsedWidths DEF FieldTyped
  <2>2. ~FieldEndsEmpty(kind, v)
    BY <1>3 DEF FieldEndsEmpty
  <2>3. EncodeField(kind, v) = writeUint(v, LongLen) /\ \A s : DecodeField(kind, s) = readUint(s, LongLen)
    BY <1>3 DEF EncodeField, DecodeField
  <2> QED
    BY <1>1, <2>1, <2>2, <2>3, UintReadsBack DEF ReadsBack
<1>4. ASSUME NEW w \in Widths \ {0}, NEW max \in 0 .. Power[w] - 1, kind \in {"string", "chat", "bytes"},
             EncodeField(kind, v) = Counted(Bounded(Wrote(v), max), w)
               \/ EncodeField(kind, v) = Fails,
             \A s : DecodeField(kind, s) = readCounted(s, w, max)
      PROVE  ReadsBack(kind, v, t)
  <2>1. v \in Seq(Byte) /\ (FieldEndsEmpty(kind, v) <=> v = << >>)
    BY <1>4 DEF FieldTyped, FieldEndsEmpty
  <2> DEFINE write == Counted(Bounded(Wrote(v), max), w)
  <2>2. /\ write \in Written
        /\ write.ok => /\ write.bytes # << >>
                       /\ readCounted(write.bytes \o t, w, max)
                            = IF v = << >> /\ t = << >> THEN Fails ELSE Got(v, t)
    BY <2>1, CountedReadsBack
  <2> HIDE DEF write
  <2>3. CASE EncodeField(kind, v) = write
    BY <1>1, <1>4, <2>1, <2>2, <2>3 DEF ReadsBack
  <2>4. CASE EncodeField(kind, v) = Fails
    BY <2>4, WrittenFacts DEF ReadsBack
  <2> QED
    BY <1>4, <2>3, <2>4 DEF write
<1>5. /\ ShortLen \in Widths \ {0} /\ WordLen \in Widths \ {0}
      /\ MaxWireStringBytes \in 0 .. Power[ShortLen] - 1 /\ MaxWireChatBytes \in 0 .. Power[ShortLen] - 1
      /\ MaxWireMessagePayloadSize \in 0 .. Power[WordLen] - 1
  BY UsedWidths, LimitAssumption
<1>6. CASE kind = "string"
  <2>1. EncodeField(kind, v) = writeString(v, MaxWireStringBytes)
          /\ \A s : DecodeField(kind, s) = readString(s, MaxWireStringBytes)
    BY <1>6 DEF EncodeField, DecodeField
  <2>2. EncodeField(kind, v) = Counted(Bounded(Wrote(v), MaxWireStringBytes), ShortLen)
          \/ EncodeField(kind, v) = Fails
    BY <2>1 DEF writeString
  <2>3. \A s : DecodeField(kind, s) = readCounted(s, ShortLen, MaxWireStringBytes)
    BY <2>1 DEF readString
  <2> QED
    BY <1>4, <1>5, <1>6, <2>2, <2>3
<1>7. CASE kind = "chat"
  <2>1. EncodeField(kind, v) = writeString(v, MaxWireChatBytes)
          /\ \A s : DecodeField(kind, s) = readString(s, MaxWireChatBytes)
    BY <1>7 DEF EncodeField, DecodeField
  <2>2. EncodeField(kind, v) = Counted(Bounded(Wrote(v), MaxWireChatBytes), ShortLen)
          \/ EncodeField(kind, v) = Fails
    BY <2>1 DEF writeString
  <2>3. \A s : DecodeField(kind, s) = readCounted(s, ShortLen, MaxWireChatBytes)
    BY <2>1 DEF readString
  <2> QED
    BY <1>4, <1>5, <1>7, <2>2, <2>3
<1>8. CASE kind = "bytes"
  <2>1. EncodeField(kind, v) = writeBytes(Bounded(Wrote(v), MaxWireMessagePayloadSize))
          /\ \A s : DecodeField(kind, s) = readBytes(s, MaxWireMessagePayloadSize)
    BY <1>8 DEF EncodeField, DecodeField
  <2>2. EncodeField(kind, v) = Counted(Bounded(Wrote(v), MaxWireMessagePayloadSize), WordLen)
    BY <2>1 DEF writeBytes
  <2>3. \A s : DecodeField(kind, s) = readCounted(s, WordLen, MaxWireMessagePayloadSize)
    BY <2>1 DEF readBytes
  <2> QED
    BY <1>4, <1>5, <1>8, <2>2, <2>3
<1> QED
  BY <1>2, <1>3, <1>6, <1>7, <1>8 DEF FlatKinds

(* How long integers one after the other are. *)
LEMMA UintsLen ==
    ASSUME NEW N \in Nat, NEW widths \in Seq(Widths), NEW values \in Seq(Nat),
           Len(widths) = N, Len(values) = N,
           NEW S, S[0] = 0, \A n \in 1 .. N : S[n] = S[n - 1] + widths[n]
    PROVE  Len(writeUints(values, widths).bytes) = S[N]
<1> DEFINE vs(n) == SubSeq(values, 1, n)
           ws(n) == SubSeq(widths, 1, n)
           L == [n \in 0 .. N |-> Len(writeUints(vs(n), ws(n)).bytes)]
<1>1. L[0] = S[0]
  <2>1. vs(0) = << >> /\ ws(0) = << >>
    BY SubSeqEmpty
  <2>2. [i \in DOMAIN << >> |-> writeUint(<< >>[i], << >>[i])] = << >>
    OBVIOUS
  <2>3. writeUints(<< >>, << >>) = Wrote(<< >>)
    BY <2>2, JoinedEmpty DEF writeUints
  <2>4. Len(writeUints(<< >>, << >>).bytes) = 0
    BY <2>3 DEF Wrote
  <2> HIDE DEF vs, ws
  <2> QED
    BY <2>1, <2>4
<1>2. ASSUME NEW n \in 1 .. N, L[n - 1] = S[n - 1] PROVE L[n] = S[n]
  <2>1. n - 1 \in Nat /\ n - 1 \in 0 .. N /\ n \in 0 .. N
    OBVIOUS
  <2>2. /\ vs(n - 1) \in Seq(Nat) /\ ws(n - 1) \in Seq(Widths)
        /\ Len(vs(n - 1)) = n - 1 /\ Len(ws(n - 1)) = n - 1
        /\ values[n] \in Nat /\ widths[n] \in Widths
        /\ Append(vs(n - 1), values[n]) = vs(n) /\ Append(ws(n - 1), widths[n]) = ws(n)
    BY <2>1
  <2> DEFINE a == vs(n - 1)
             b == ws(n - 1)
             k == n - 1
             x == values[n]
             y == widths[n]
  <2>3. /\ a \in Seq(Nat) /\ b \in Seq(Widths) /\ Len(a) = k /\ Len(b) = k /\ k \in Nat
        /\ x \in Nat /\ y \in Widths
    BY <2>1, <2>2
  <2>4. L[n - 1] = Len(writeUints(a, b).bytes) /\ L[n] = Len(writeUints(Append(a, x), Append(b, y)).bytes)
    <3> HIDE DEF vs, ws
    <3> QED
      BY <2>1, <2>2
  <2> HIDE DEF L, a, b, k, x, y
  <2>5. Len(writeUints(Append(a, x), Append(b, y)).bytes) = Len(writeUints(a, b).bytes) + y
    BY ONLY <2>3, WriteUintsLen
  <2>6. L[n] = L[n - 1] + y
    BY ONLY <2>4, <2>5
  <2> QED
    BY <1>2, <2>6 DEF y
<1> HIDE DEF L
<1>3. \A n \in 0 .. N : L[n] = S[n]
  BY ONLY <1>1, <1>2, N \in Nat, AgreeUpTo, ZenonT(30)
<1>4. vs(N) = values /\ ws(N) = widths
  OBVIOUS
<1> HIDE DEF vs, ws
<1>5. L[N] = Len(writeUints(values, widths).bytes)
  BY <1>4 DEF L
<1> QED
  BY <1>3, <1>5

(* The fields of a hello or a welcome, and of a movement, are read as they
   were written when nothing follows them. *)
LEMMA UintsReadBack ==
    ASSUME NEW widths \in Seq(Widths \ {0}), NEW values, UintsTyped(values, widths)
    PROVE  /\ writeUints(values, widths) \in Written /\ writeUints(values, widths).ok
           /\ writeUints(values, widths).bytes \in Seq(Byte)
           /\ writeUints(values, widths).bytes \o << >> = writeUints(values, widths).bytes
           /\ readUints(writeUints(values, widths).bytes, widths) = Got(values, << >>)
<1> DEFINE N == Len(widths)
           w == writeUints(values, widths)
<1>1. /\ N \in Nat /\ values \in Seq(Nat) /\ Len(values) = N /\ << >> \in Seq(Byte)
      /\ \A n \in 1 .. N : values[n] < Power[widths[n]]
  BY BytesFacts DEF UintsTyped
<1>2. /\ w \in Written /\ w.ok
      /\ readUints(w.bytes \o << >>, widths) = Got(values, << >>)
  <2> DEFINE t == << >>
  <2>1. t \in Seq(Byte) /\ Len(widths) = N
    BY <1>1
  <2> HIDE DEF N, t
  <2>2. w \in Written /\ w.ok /\ readUints(w.bytes \o t, widths) = Got(values, t)
    BY <1>1, <2>1, UintsRoundTrip
  <2> QED
    BY <2>2 DEF t
<1> HIDE DEF w
<1>3. w.bytes \in Seq(Byte)
  BY <1>2, WrittenFacts
<1>4. w.bytes \o << >> = w.bytes
  BY <1>3, BytesFacts
<1> QED
  BY <1>2, <1>3, <1>4 DEF w

LEMMA ClosingReadsBack ==
    ASSUME NEW kind \in ClosingKinds, NEW v, FieldTyped(kind, v)
    PROVE  ReadsBack(kind, v, << >>)
<1>1. SeenField(kind, v) = v /\ ~FieldEndsEmpty(kind, v)
  BY DEF SeenField, FieldEndsEmpty, ClosingKinds
<1>2. WordLen \in Nat \ {0} /\ LongLen \in Nat \ {0}
  BY WidthAssumption
<1>3. CASE kind = "negotiation"
  <2>1. EncodeField(kind, v) = EncodeNegotiation(v) /\ \A s : DecodeField(kind, s) = DecodeNegotiation(s)
    BY <1>3 DEF EncodeField, DecodeField
  <2>2. CASE v = NoNegotiation
    <3>1. EncodeField(kind, v) = Wrote(<< >>) /\ << >> \o << >> = << >>
      BY <2>1, <2>2, BytesFacts DEF EncodeNegotiation
    <3>2. DecodeField(kind, << >>) = Got(v, << >>)
      BY <2>1, <2>2 DEF DecodeNegotiation
    <3>3. Wrote(<< >>) \in Written /\ Wrote(<< >>).bytes = << >>
      BY BytesFacts, WrittenFacts
    <3> QED
      BY <1>1, <1>3, <2>2, <3>1, <3>2, <3>3 DEF ReadsBack
  <2>3. CASE v # NoNegotiation
    <3> DEFINE W == NegotiationWidths
               w == writeUints(v, W)
               S == [n \in 0 .. 3 |-> IF n = 0 THEN 0 ELSE IF n = 1 THEN 1
                                      ELSE IF n = 2 THEN 1 + LongLen ELSE (1 + LongLen) + WordLen]
    <3>1. W \in Seq(Widths \ {0}) /\ W \in Seq(Widths) /\ Len(W) = 3 /\ UintsTyped(v, W)
            /\ W[1] = 1 /\ W[2] = LongLen /\ W[3] = WordLen
      BY <1>3, UsedWidths DEF NegotiationWidths, FieldTyped
    <3>2. v \in Seq(Nat) /\ Len(v) = 3
      BY <3>1 DEF UintsTyped
    <3>3. S[0] = 0 /\ S[3] = NegotiationLen /\ \A n \in 1 .. 3 : S[n] = S[n - 1] + W[n]
      <4>1. S[0] = 0 /\ S[1] = 1 /\ S[2] = 1 + LongLen /\ S[3] = (1 + LongLen) + WordLen
        OBVIOUS
      <4>2. \A n \in 1 .. 3 : n = 1 \/ n = 2 \/ n = 3
        OBVIOUS
      <4> HIDE DEF S, W
      <4>3. ASSUME NEW n \in 1 .. 3 PROVE S[n] = S[n - 1] + W[n]
        BY <1>2, <3>1, <4>1, <4>2
      <4> QED
        BY <4>1, <4>3 DEF NegotiationLen
    <3> HIDE DEF S, W
    <3>4. Len(w.bytes) = NegotiationLen
      <4> DEFINE N == 3
      <4>1. /\ N \in Nat /\ Len(W) = N /\ Len(v) = N /\ S[0] = 0 /\ S[N] = NegotiationLen
            /\ \A n \in 1 .. N : S[n] = S[n - 1] + W[n]
        BY <3>1, <3>2, <3>3
      <4> HIDE DEF N
      <4>2. Len(writeUints(v, W).bytes) = S[N]
        BY ONLY <3>1, <3>2, <4>1, UintsLen
      <4> QED
        BY <4>1, <4>2
    <3>5. /\ w \in Written /\ w.ok /\ w.bytes \in Seq(Byte) /\ w.bytes \o << >> = w.bytes
          /\ readUints(w.bytes, W) = Got(v, << >>)
      BY <3>1, UintsReadBack
    <3>6. EncodeField(kind, v) = w
      BY <2>1, <2>3 DEF EncodeNegotiation, W
    <3> HIDE DEF w
    <3>7. w.bytes # << >> /\ ~(Len(w.bytes) < NegotiationLen)
      <4>1. NegotiationLen \in Nat \ {0}
        BY <1>2 DEF NegotiationLen
      <4> QED
        BY <3>4, <3>5, <4>1
    <3>8. DecodeField(kind, w.bytes) = Got(v, << >>)
      BY <2>1, <3>5, <3>7 DEF DecodeNegotiation, W
    <3> QED
      BY <1>1, <1>3, <2>3, <3>5, <3>6, <3>7, <3>8 DEF ReadsBack
  <2> QED
    BY <2>2, <2>3
<1>4. CASE kind = "movement"
  <2>1. EncodeField(kind, v) = EncodeMovement(v) /\ \A s : DecodeField(kind, s) = DecodeMovement(s)
    BY <1>4 DEF EncodeField, DecodeField
  <2> DEFINE W == MovementWidths
             w == writeUints(v, W)
             S == [n \in 0 .. 5 |->
                     IF n = 0 THEN 0 ELSE IF n = 1 THEN LongLen ELSE IF n = 2 THEN LongLen + LongLen
                     ELSE IF n = 3 THEN (LongLen + LongLen) + WordLen
                     ELSE IF n = 4 THEN ((LongLen + LongLen) + WordLen) + WordLen
                     ELSE (((LongLen + LongLen) + WordLen) + WordLen) + WordLen]
  <2>2. /\ W \in Seq(Widths \ {0}) /\ W \in Seq(Widths) /\ Len(W) = 5 /\ UintsTyped(v, W)
        /\ W[1] = LongLen /\ W[2] = LongLen /\ W[3] = WordLen /\ W[4] = WordLen /\ W[5] = WordLen
    BY <1>4, UsedWidths DEF MovementWidths, FieldTyped
  <2>3. v \in Seq(Nat) /\ Len(v) = 5
    BY <2>2 DEF UintsTyped
  <2>4. S[0] = 0 /\ S[5] = 2 * LongLen + 3 * WordLen /\ \A n \in 1 .. 5 : S[n] = S[n - 1] + W[n]
    <3>1. /\ S[0] = 0 /\ S[1] = LongLen /\ S[2] = LongLen + LongLen
          /\ S[3] = (LongLen + LongLen) + WordLen /\ S[4] = ((LongLen + LongLen) + WordLen) + WordLen
          /\ S[5] = (((LongLen + LongLen) + WordLen) + WordLen) + WordLen
      OBVIOUS
    <3>2. \A n \in 1 .. 5 : n = 1 \/ n = 2 \/ n = 3 \/ n = 4 \/ n = 5
      OBVIOUS
    <3> HIDE DEF S, W
    <3>3. ASSUME NEW n \in 1 .. 5 PROVE S[n] = S[n - 1] + W[n]
      BY <1>2, <2>2, <3>1, <3>2
    <3> QED
      BY <1>2, <3>1, <3>3
  <2> HIDE DEF S, W
  <2>5. Len(w.bytes) = 2 * LongLen + 3 * WordLen
    <3> DEFINE N == 5
    <3>1. /\ N \in Nat /\ Len(W) = N /\ Len(v) = N /\ S[0] = 0 /\ S[N] = 2 * LongLen + 3 * WordLen
          /\ \A n \in 1 .. N : S[n] = S[n - 1] + W[n]
      BY <2>2, <2>3, <2>4
    <3> HIDE DEF N
    <3>2. Len(writeUints(v, W).bytes) = S[N]
      BY ONLY <2>2, <2>3, <3>1, UintsLen
    <3> QED
      BY <3>1, <3>2
  <2>6. /\ w \in Written /\ w.ok /\ w.bytes \in Seq(Byte) /\ w.bytes \o << >> = w.bytes
        /\ readUints(w.bytes, W) = Got(v, << >>)
    BY <2>2, UintsReadBack
  <2>7. EncodeField(kind, v) = w
    BY <2>1 DEF EncodeMovement, W
  <2> HIDE DEF w
  <2>8. w.bytes # << >> /\ Len(w.bytes) # 3 * WordLen
    BY <1>2, <2>5, <2>6
  <2>9. DecodeField(kind, w.bytes) = Got(v, << >>)
    BY <2>1, <2>6, <2>8 DEF DecodeMovement, W
  <2> QED
    BY <1>1, <1>4, <2>6, <2>7, <2>8, <2>9 DEF ReadsBack
<1> QED
  BY <1>3, <1>4 DEF ClosingKinds

(* A message whose fields are read as they were written. *)
BodyReads(layout, body) ==
    /\ LayoutTyped(layout)
    /\ \A j \in DOMAIN layout, t \in Seq(Byte) :
          (layout[j] \in ClosingKinds => t = << >>) => ReadsBack(layout[j], body[j], t)

SeenBody(layout, body) == [j \in DOMAIN layout |-> SeenField(layout[j], body[j])]

(* The loop over the fields of a message. *)
DecodeFields(layout, payload) ==
    Repeat(Len(layout), << >>, payload, LAMBDA n, done, rest :
        Then(DecodeField(layout[n], rest), LAMBDA value, more : Got(Append(done, value), more)))

(* What is left of a payload after each of its fields, and where a decoder
   fails: at a field that ends empty with nothing left after it. *)
FieldsOver(rest, layout, body, writes, N) ==
    /\ LeftAfter(rest, writes, N)
    /\ \A n \in 1 .. N :
          /\ DecodeField(layout[n], rest[n - 1])
               = IF FieldEndsEmpty(layout[n], body[n]) /\ rest[n] = << >>
                 THEN Fails ELSE Got(SeenField(layout[n], body[n]), rest[n])
          /\ rest[n] = << >> <=>
               \/ n = N
               \/ n = N - 1 /\ layout[N] = "negotiation" /\ body[N] = NoNegotiation

FieldsStuck(stuck, rest, layout, body, N) ==
    \A n \in 1 .. N : DecodeField(layout[n], rest[n - 1])
                        = IF n \in stuck THEN Fails ELSE Got(SeenField(layout[n], body[n]), rest[n])

(* Where the fields of a message are written, and what is left after each. *)
LEMMA FieldsLeft ==
    ASSUME NEW layout, NEW body, BodyReads(layout, body),
           NEW writes, writes = [j \in DOMAIN layout |-> EncodeField(layout[j], body[j])],
           NEW N, N = Len(layout)
    PROVE  /\ N \in Nat /\ DOMAIN layout = 1 .. N /\ Len(writes) = N
           /\ \A n \in 1 .. N : writes[n] \in Written
           /\ Joined(writes) \in Written
           /\ Joined(writes).ok =>
                \E rest : FieldsOver(rest, layout, body, writes, N)
<1>1. /\ N \in Nat /\ DOMAIN layout = 1 .. N /\ Len(writes) = N
      /\ \A n \in 1 .. N : writes[n] = EncodeField(layout[n], body[n])
  BY DEF BodyReads, LayoutTyped
<1>2. << >> \in Seq(Byte)
  BY BytesFacts
<1>3. \A n \in 1 .. N, t \in Seq(Byte) :
        (layout[n] \in ClosingKinds => t = << >>) =>
          /\ writes[n] \in Written
          /\ writes[n].ok =>
               /\ writes[n].bytes = << >> <=> layout[n] = "negotiation" /\ body[n] = NoNegotiation
               /\ DecodeField(layout[n], writes[n].bytes \o t)
                    = IF FieldEndsEmpty(layout[n], body[n]) /\ t = << >>
                      THEN Fails ELSE Got(SeenField(layout[n], body[n]), t)
  BY <1>1 DEF BodyReads, ReadsBack
<1>4. \A n \in 1 .. N : writes[n] \in Written
  BY <1>2, <1>3
<1>5. Joined(writes) \in Written /\ (Joined(writes).ok => \A n \in 1 .. N : writes[n].ok)
  BY <1>1, <1>4, JoinedNeedsAll
<1>6. ASSUME Joined(writes).ok
      PROVE  \E rest : FieldsOver(rest, layout, body, writes, N)
  <2>1. \A n \in 1 .. N : writes[n] \in Written /\ writes[n].ok /\ writes[n].bytes \in Seq(Byte)
    BY <1>4, <1>5, <1>6, WrittenFacts
  <2>2. PICK rest : LeftAfter(rest, writes, N)
    BY <1>1, <2>1, JoinedLeaves
  <2>3. \A n \in 0 .. N : rest[n] \in Seq(Byte)
    BY <2>2 DEF LeftAfter
  <2>4. rest[N] = << >>
    BY <2>2 DEF LeftAfter
  <2>5. \A n \in 1 .. N : layout[n] \in ClosingKinds => n = N
    BY <1>1 DEF BodyReads, LayoutTyped
  <2>6. ASSUME NEW n \in 1 .. N
        PROVE  DecodeField(layout[n], rest[n - 1])
                 = IF FieldEndsEmpty(layout[n], body[n]) /\ rest[n] = << >>
                   THEN Fails ELSE Got(SeenField(layout[n], body[n]), rest[n])
    <3>1. n \in 0 .. N
      BY <1>1
    <3>2. rest[n] \in Seq(Byte) /\ rest[n - 1] = writes[n].bytes \o rest[n]
      BY <2>2, <2>3, <3>1 DEF LeftAfter
    <3>3. layout[n] \in ClosingKinds => rest[n] = << >>
      BY <2>4, <2>5
    <3> QED
      BY <1>3, <2>1, <3>2, <3>3
  <2>7. \A n \in 1 .. N : writes[n].bytes = << >> <=> n = N /\ layout[N] = "negotiation" /\ body[N] = NoNegotiation
    <3>1. ASSUME NEW n \in 1 .. N
          PROVE  writes[n].bytes = << >> <=> layout[n] = "negotiation" /\ body[n] = NoNegotiation
      BY <1>2, <1>3, <2>1
    <3> QED
      BY <2>5, <3>1 DEF ClosingKinds
  <2>8. ASSUME NEW n \in 1 .. N
        PROVE  rest[n] = << >> <=> \/ n = N
                                   \/ n = N - 1 /\ layout[N] = "negotiation" /\ body[N] = NoNegotiation
    <3>1. CASE n = N
      BY <2>4, <3>1
    <3>2. CASE n # N
      <4>1. n + 1 \in 1 .. N /\ (n + 1) - 1 = n /\ n + 1 \in 0 .. N /\ (n + 1 = N <=> n = N - 1)
        BY <1>1, <3>2
      <4> DEFINE a == writes[n + 1].bytes
                 b == rest[n + 1]
      <4>2. rest[n] = a \o b
        BY <2>2, <4>1 DEF LeftAfter
      <4>3. a \in Seq(Byte) /\ b \in Seq(Byte)
        BY <2>1, <2>3, <4>1
      <4>4. a = << >> <=> n + 1 = N /\ layout[N] = "negotiation" /\ body[N] = NoNegotiation
        BY <2>7, <4>1
      <4>5. n + 1 = N => b = << >>
        BY <2>4
      <4> HIDE DEF a, b
      <4>6. a \o b = << >> <=> a = << >> /\ b = << >>
        BY <4>3, BytesFacts
      <4> QED
        BY <3>2, <4>1, <4>2, <4>4, <4>5, <4>6
    <3> QED
      BY <3>1, <3>2
  <2> QED
    BY <2>2, <2>6, <2>8 DEF FieldsOver
<1> QED
  BY <1>1, <1>4, <1>5, <1>6

(* The loop over the fields fails at the first field that is stuck. *)
LEMMA FieldsLoop ==
    ASSUME NEW layout, NEW body, NEW N \in Nat, DOMAIN layout = 1 .. N, Len(layout) = N,
           NEW left, NEW rest, rest[0] = left, rest[N] = << >>,
           NEW stuck,
           FieldsStuck(stuck, rest, layout, body, N)
    PROVE  DecodeFields(layout, left)
             = IF \E i \in 1 .. N : i \in stuck THEN Fails ELSE Got(SeenBody(layout, body), << >>)
<1> DEFINE seen == SeenBody(layout, body)
           Bad(n) == \E i \in 1 .. n : i \in stuck
           next(g, n) == IF g.ok
                         THEN IF DecodeField(layout[n], g.rest).ok
                              THEN Got(Append(g.value, DecodeField(layout[n], g.rest).value),
                                       DecodeField(layout[n], g.rest).rest)
                              ELSE Fails
                         ELSE Fails
           f == [n \in 0 .. N |-> IF Bad(n) THEN Fails ELSE Got(SubSeq(seen, 1, n), rest[n])]
           Loop(g) == g = [n \in 0 .. N |-> IF n = 0 THEN Got(<< >>, left) ELSE next(g[n - 1], n)]
<1>2. /\ DOMAIN seen = 1 .. N /\ seen \in Seq({seen[i] : i \in 1 .. N}) /\ Len(seen) = N
      /\ \A n \in 1 .. N : seen[n] = SeenField(layout[n], body[n])
  <2>1. seen = [j \in 1 .. N |-> SeenField(layout[j], body[j])]
    BY DEF SeenBody
  <2> HIDE DEF seen
  <2>2. DOMAIN seen = 1 .. N /\ \A n \in 1 .. N : seen[n] = SeenField(layout[n], body[n])
    BY <2>1
  <2>3. seen = [n \in 1 .. N |-> seen[n]]
    BY <2>1
  <2>4. seen \in [1 .. N -> {seen[i] : i \in 1 .. N}]
    BY <2>3
  <2> QED
    BY <2>2, <2>4
<1> HIDE DEF seen
<1>3. f[0] = Got(<< >>, left)
  <2>1. SubSeq(seen, 1, 0) = << >> /\ 0 \in 0 .. N
    BY <1>2, SubSeqEmpty
  <2>2. ~Bad(0)
    OBVIOUS
  <2>3. f[0] = IF Bad(0) THEN Fails ELSE Got(SubSeq(seen, 1, 0), rest[0])
    <3> HIDE DEF Got, Bad
    <3> QED
      BY <2>1
  <2> HIDE DEF f, Bad
  <2> QED
    BY <2>1, <2>2, <2>3
<1>4. ASSUME NEW n \in 1 .. N PROVE f[n] = next(f[n - 1], n)
  <2>1. n \in 0 .. N /\ n - 1 \in 0 .. N
    OBVIOUS
  <2>2. /\ f[n] = IF Bad(n) THEN Fails ELSE Got(SubSeq(seen, 1, n), rest[n])
        /\ f[n - 1] = IF Bad(n - 1) THEN Fails ELSE Got(SubSeq(seen, 1, n - 1), rest[n - 1])
    <3> HIDE DEF Bad
    <3> QED
      BY <2>1
  <2>3. Bad(n) <=> Bad(n - 1) \/ n \in stuck
    <3>1. \A i \in 1 .. n : i = n \/ i \in 1 .. n - 1
      OBVIOUS
    <3>2. n \in 1 .. n /\ \A i \in 1 .. n - 1 : i \in 1 .. n
      OBVIOUS
    <3> QED
      BY <3>1, <3>2
  <2>4. DecodeField(layout[n], rest[n - 1]) = IF n \in stuck THEN Fails ELSE Got(seen[n], rest[n])
    BY <1>2 DEF FieldsStuck
  <2> HIDE DEF f, Bad
  <2>5. CASE Bad(n - 1)
    BY <2>2, <2>3, <2>5, WrittenFacts
  <2>6. CASE ~Bad(n - 1)
    <3> DEFINE before == SubSeq(seen, 1, n - 1)
               here == rest[n - 1]
               d == DecodeField(layout[n], here)
    <3>1. f[n - 1] = Got(before, here)
      BY <2>2, <2>6
    <3>2. Append(before, seen[n]) = SubSeq(seen, 1, n)
      BY <1>2, <2>1
    <3> HIDE DEF before
    <3>3. f[n - 1].ok /\ f[n - 1].value = before /\ f[n - 1].rest = here
      BY ONLY <3>1 DEF Got
    <3>4. d = IF n \in stuck THEN Fails ELSE Got(seen[n], rest[n])
      BY <2>4
    <3> HIDE DEF d
    <3>5. CASE n \in stuck
      <4>1. ~d.ok
        BY <3>4, <3>5, WrittenFacts
      <4>2. f[n] = Fails
        BY <2>2, <2>3, <3>5
      <4> QED
        BY <3>3, <4>1, <4>2 DEF d
    <3>6. CASE ~n \in stuck
      <4>1. d = Got(seen[n], rest[n])
        BY <3>4, <3>6
      <4>2. d.ok /\ d.value = seen[n] /\ d.rest = rest[n]
        BY ONLY <4>1 DEF Got
      <4>3. f[n] = Got(Append(before, seen[n]), rest[n])
        BY <2>2, <2>3, <2>6, <3>2, <3>6
      <4> QED
        BY <3>3, <4>2, <4>3 DEF d
    <3> QED
      BY <3>5, <3>6
  <2> QED
    BY <2>5, <2>6
<1>5. Loop(f)
  <2>1. f = [n \in 0 .. N |-> f[n]]
    <3> HIDE DEF Bad, Got
    <3> QED
      OBVIOUS
  <2>2. \A n \in 0 .. N : n = 0 \/ n \in 1 .. N
    OBVIOUS
  <2> HIDE DEF f, next
  <2> QED
    BY <1>3, <1>4, <2>1, <2>2
<1> DEFINE loop == CHOOSE g : Loop(g)
<1>6. DecodeFields(layout, left) = loop[N]
  BY DEF DecodeFields, Repeat, Then
<1>7. Loop(loop)
  <2> HIDE DEF f, next
  <2> QED
    BY <1>5
<1> HIDE DEF loop, f, next
<1>8. \A n \in 0 .. N : loop[n] = f[n]
  <2>1. loop[0] = f[0]
    BY <1>3, <1>7
  <2>2. ASSUME NEW n \in 1 .. N, loop[n - 1] = f[n - 1] PROVE loop[n] = f[n]
    <3>1. n \in 0 .. N /\ n # 0
      OBVIOUS
    <3>2. loop[n] = next(loop[n - 1], n)
      BY <1>7, <3>1
    <3> QED
      BY <1>4, <2>2, <3>2
  <2> HIDE DEF Loop
  <2> QED
    BY ONLY <2>1, <2>2, N \in Nat, AgreeUpTo
<1>9. f[N] = IF Bad(N) THEN Fails ELSE Got(seen, << >>)
  <2>1. SubSeq(seen, 1, N) = seen /\ N \in 0 .. N
    BY <1>2
  <2>2. f[N] = IF Bad(N) THEN Fails ELSE Got(SubSeq(seen, 1, N), rest[N])
    <3> HIDE DEF Bad
    <3> QED
      BY <2>1 DEF f
  <2> HIDE DEF Bad
  <2> QED
    BY <2>1, <2>2
<1>10. N \in 0 .. N
  OBVIOUS
<1> HIDE DEF Loop
<1> QED
  BY <1>6, <1>8, <1>9, <1>10 DEF seen

(* The fields get stuck exactly where a payload ends in an empty field. *)
LEMMA StuckAtTheEnd ==
    ASSUME NEW layout, NEW body, LayoutTyped(layout), NEW N \in Nat, N = Len(layout),
           DOMAIN layout = 1 .. N, body[N] = Last(body),
           NEW empty,
           \A n \in 1 .. N : n \in empty <=>
              n = N \/ (n = N - 1 /\ layout[N] = "negotiation" /\ body[N] = NoNegotiation)
    PROVE  (\E n \in 1 .. N : FieldEndsEmpty(layout[n], body[n]) /\ n \in empty)
             <=> BodyEndsEmpty(layout, body)
<1> DEFINE Absent == layout[N] = "negotiation" /\ body[N] = NoNegotiation
           E(n) == FieldEndsEmpty(layout[n], body[n])
<1>1. layout = << >> <=> N = 0
  BY DEF LayoutTyped
<1>2. N # 0 => Last(layout) = layout[N]
  BY DEF Last
<1>3. BodyEndsEmpty(layout, body)
        <=> N # 0 /\ IF Absent THEN E(N - 1) ELSE E(N)
  BY <1>1, <1>2 DEF BodyEndsEmpty
<1>4. N # 0 /\ Absent => N - 1 \in 1 .. N /\ ~E(N)
  <2>1. N # 0 /\ Absent => N > 1
    BY DEF LayoutTyped, ClosingKinds
  <2>2. Absent => ~E(N)
    BY DEF FieldEndsEmpty
  <2> QED
    BY <2>1, <2>2
<1>5. \A n \in 1 .. N : n \in empty <=> n = N \/ (n = N - 1 /\ Absent)
  OBVIOUS
<1>6. N # 0 => N \in 1 .. N
  OBVIOUS
<1> HIDE DEF Absent, E
<1>7. (\E n \in 1 .. N : E(n) /\ n \in empty) <=> N # 0 /\ IF Absent THEN E(N - 1) ELSE E(N)
  BY <1>4, <1>5, <1>6
<1> QED
  BY <1>3, <1>7 DEF E

(* The Decode function of a message yields the fields its Encode function was
   given, for every layout of fields that are themselves read back, unless
   the payload ends in an empty one: then it is refused. *)
THEOREM BodyRoundTrip ==
    ASSUME NEW layout, NEW body, BodyReads(layout, body), Len(body) = Len(layout)
    PROVE  /\ EncodeBody(layout, body) \in Written
           /\ EncodeBody(layout, body).ok =>
                DecodeBody(layout, EncodeBody(layout, body).bytes)
                  = IF BodyEndsEmpty(layout, body) THEN Fails ELSE Got(SeenBody(layout, body), << >>)
<1>1. PICK writes : writes = [j \in DOMAIN layout |-> EncodeField(layout[j], body[j])]
  OBVIOUS
<1>2. PICK N : N = Len(layout)
  OBVIOUS
<1>3. PICK joined : joined = Joined(writes)
  OBVIOUS
<1>4. N \in Nat /\ DOMAIN layout = 1 .. N /\ joined \in Written
  BY <1>1, <1>2, <1>3, FieldsLeft
<1>5. /\ EncodeBody(layout, body) \in Written
      /\ EncodeBody(layout, body).ok => EncodeBody(layout, body) = joined /\ joined.ok
  <2>1. EncodeBody(layout, body) = joined \/ EncodeBody(layout, body) = Bounded(joined, MaxWireMessagePayloadSize)
    BY <1>1, <1>3 DEF EncodeBody
  <2>2. MaxWireMessagePayloadSize \in Nat
    BY LimitAssumption
  <2> QED
    BY <1>4, <2>1, <2>2, BoundedFacts, SMTT(30)
<1>6. ASSUME joined.ok
      PROVE  DecodeBody(layout, joined.bytes)
               = IF BodyEndsEmpty(layout, body) THEN Fails ELSE Got(SeenBody(layout, body), << >>)
  <2>1. PICK rest :
          FieldsOver(rest, layout, body, writes, N)
    <3>1. Joined(writes).ok
      BY <1>3, <1>6
    <3> QED
      BY ONLY <1>1, <1>2, <3>1, BodyReads(layout, body), FieldsLeft
  <2>2. PICK left : left = joined.bytes
    OBVIOUS
  <2>3. rest[0] = left /\ rest[N] = << >>
    BY <1>3, <2>1, <2>2 DEF LeftAfter, FieldsOver
  <2>4. PICK empty : empty = {n \in 1 .. N : rest[n] = << >>}
    OBVIOUS
  <2>5. PICK stuck : stuck = {n \in empty : FieldEndsEmpty(layout[n], body[n])}
    OBVIOUS
  <2>6. FieldsStuck(stuck, rest, layout, body, N)
    BY <2>1, <2>4, <2>5 DEF FieldsOver, FieldsStuck
  <2>7. DecodeFields(layout, left)
          = IF \E i \in 1 .. N : i \in stuck THEN Fails ELSE Got(SeenBody(layout, body), << >>)
    <3>1. Len(layout) = N
      BY <1>2
    <3> QED
      BY ONLY <1>4, <2>3, <2>6, <3>1, FieldsLoop
  <2>8. (\E n \in 1 .. N : FieldEndsEmpty(layout[n], body[n]) /\ n \in empty)
             <=> BodyEndsEmpty(layout, body)
    <3>1. body[N] = Last(body)
      BY <1>2 DEF Last
    <3>2. LayoutTyped(layout)
      BY DEF BodyReads
    <3>3. \A n \in 1 .. N : n \in empty <=>
            n = N \/ (n = N - 1 /\ layout[N] = "negotiation" /\ body[N] = NoNegotiation)
      BY <2>1, <2>4 DEF FieldsOver
    <3> QED
      BY ONLY <1>2, <1>4, <3>1, <3>2, <3>3, StuckAtTheEnd
  <2>9. (\E i \in 1 .. N : i \in stuck) <=> BodyEndsEmpty(layout, body)
    BY <2>5, <2>8
  <2>10. PICK d : d = DecodeFields(layout, left)
    OBVIOUS
  <2>11. DecodeBody(layout, left)
           = IF d.ok THEN IF d.rest = << >> THEN Got(d.value, << >>) ELSE Fails ELSE Fails
    BY <2>10 DEF DecodeBody, DecodeFields, Then
  <2>12. CASE BodyEndsEmpty(layout, body)
    <3>1. d = Fails
      BY <2>7, <2>9, <2>10, <2>12
    <3> QED
      BY <2>2, <2>11, <2>12, <3>1, WrittenFacts
  <2>13. CASE ~BodyEndsEmpty(layout, body)
    <3>1. d = Got(SeenBody(layout, body), << >>)
      BY <2>7, <2>9, <2>10, <2>13
    <3>2. d.ok /\ d.value = SeenBody(layout, body) /\ d.rest = << >>
      BY <3>1 DEF Got
    <3> QED
      BY <2>2, <2>11, <2>13, <3>2
  <2> QED
    BY <2>12, <2>13
<1> QED
  BY <1>5, <1>6

-----------------------------------------------------------------------------
(* The client's registry holds each of its definitions under its type. *)
LEMMA KnownDefinition ==
    ASSUME NEW d \in BuiltIn \cup GameDefinitions
    PROVE  /\ d.type \in DOMAIN ClientRegistry.byType /\ ClientRegistry.byType[d.type] = d
           /\ d.id \in DOMAIN ClientRegistry.byID /\ ClientRegistry.byID[d.id] = d
<1> DEFINE all == BuiltIn \cup GameDefinitions
<1> HIDE DEF all
<1>1. d \in all /\ \A e \in all : (e.type = d.type => e = d) /\ (e.id = d.id => e = d)
  BY DefinitionsAssumption DEF all
<1>2. ClientRegistry = RegistryOf(all)
  BY DEF ClientRegistry, all
<1>3. RegistryOf(all).byID = [id \in {e.id : e \in all} |-> CHOOSE e \in all : e.id = id]
  BY DEF RegistryOf
<1>4. RegistryOf(all).byType = [type \in {e.type : e \in all} |-> CHOOSE e \in all : e.type = type]
  BY DEF RegistryOf
<1>5. (CHOOSE e \in all : e.type = d.type) = d /\ (CHOOSE e \in all : e.id = d.id) = d
  BY <1>1
<1> QED
  BY <1>1, <1>2, <1>3, <1>4, <1>5

LEMMA RegisteredType ==
    ASSUME NEW type \in DOMAIN ClientRegistry.byType
    PROVE  /\ ClientRegistry.byType[type].type = type
           /\ ClientRegistry.byType[type] \in BuiltIn \cup GameDefinitions
<1> DEFINE all == BuiltIn \cup GameDefinitions
<1> HIDE DEF all
<1>1. ClientRegistry = RegistryOf(all)
  BY DEF ClientRegistry, all
<1>2. RegistryOf(all).byType = [t \in {e.type : e \in all} |-> CHOOSE e \in all : e.type = t]
  BY DEF RegistryOf
<1>3. PICK e \in all : e.type = type
  BY <1>1, <1>2
<1>4. (CHOOSE d \in all : d.type = type).type = type /\ (CHOOSE d \in all : d.type = type) \in all
  BY <1>3
<1> QED
  BY <1>1, <1>2, <1>4 DEF all

(* A loop that collects what each of its turns yields, and fails with the
   first turn that fails. *)
Collects(g, N, got, item) ==
    g = [n \in 0 .. N |->
            IF n = 0 THEN Got(<< >>, << >>)
            ELSE IF g[n - 1].ok
                 THEN IF got[n].ok THEN Got(Append(g[n - 1].value, item[n]), got[n].rest) ELSE Fails
                 ELSE Fails]

AllOk(got, N) == \A n \in 1 .. N : got[n].ok

LEMMA CollectLoop ==
    ASSUME NEW N \in Nat, NEW got, NEW item, item = [n \in 1 .. N |-> item[n]],
           \A n \in 1 .. N : got[n].ok => got[n].rest = << >>
    PROVE  /\ \E g : Collects(g, N, got, item)
           /\ \A g : Collects(g, N, got, item) =>
                g[N] = IF AllOk(got, N) THEN Got(item, << >>) ELSE Fails
<1> DEFINE f == [n \in 0 .. N |-> IF AllOk(got, n) THEN Got(SubSeq(item, 1, n), << >>) ELSE Fails]
           next(g, n) == IF g.ok
                         THEN IF got[n].ok THEN Got(Append(g.value, item[n]), got[n].rest) ELSE Fails
                         ELSE Fails
<1>1. item \in Seq({item[n] : n \in 1 .. N}) /\ Len(item) = N /\ DOMAIN item = 1 .. N
  <2>1. item \in [1 .. N -> {item[n] : n \in 1 .. N}]
    OBVIOUS
  <2> QED
    BY <2>1
<1>2. f[0] = Got(<< >>, << >>)
  <2>1. AllOk(got, 0) /\ SubSeq(item, 1, 0) = << >> /\ 0 \in 0 .. N
    BY <1>1, SubSeqEmpty DEF AllOk
  <2> HIDE DEF Got
  <2> QED
    BY <2>1
<1>3. ASSUME NEW n \in 1 .. N PROVE f[n] = next(f[n - 1], n)
  <2>1. n \in 0 .. N /\ n - 1 \in 0 .. N
    OBVIOUS
  <2>2. /\ f[n] = IF AllOk(got, n) THEN Got(SubSeq(item, 1, n), << >>) ELSE Fails
        /\ f[n - 1] = IF AllOk(got, n - 1) THEN Got(SubSeq(item, 1, n - 1), << >>) ELSE Fails
    BY <2>1
  <2>3. AllOk(got, n) <=> AllOk(got, n - 1) /\ got[n].ok
    <3>1. (\A i \in 1 .. n : i = n \/ i \in 1 .. n - 1) /\ n \in 1 .. n /\ \A i \in 1 .. n - 1 : i \in 1 .. n
      OBVIOUS
    <3> QED
      BY <3>1 DEF AllOk
  <2>4. Append(SubSeq(item, 1, n - 1), item[n]) = SubSeq(item, 1, n)
    BY <1>1, <2>1
  <2> HIDE DEF f
  <2>5. CASE AllOk(got, n - 1)
    <3>1. f[n - 1] = Got(SubSeq(item, 1, n - 1), << >>)
      BY <2>2, <2>5
    <3>2. f[n - 1].ok /\ f[n - 1].value = SubSeq(item, 1, n - 1)
      BY <3>1 DEF Got
    <3> QED
      BY <2>2, <2>3, <2>4, <2>5, <3>2
  <2>6. CASE ~AllOk(got, n - 1)
    BY <2>2, <2>3, <2>6, WrittenFacts
  <2> QED
    BY <2>5, <2>6
<1>4. f = [n \in 0 .. N |-> f[n]]
  <2> HIDE DEF Got
  <2> QED
    OBVIOUS
<1>5. \A n \in 0 .. N : n = 0 \/ n \in 1 .. N
  OBVIOUS
<1>6. SubSeq(item, 1, N) = item /\ N \in 0 .. N
  BY <1>1
<1>7. f[N] = IF AllOk(got, N) THEN Got(item, << >>) ELSE Fails
  BY <1>6
<1> HIDE DEF f, next
<1>8. f = [n \in 0 .. N |-> IF n = 0 THEN Got(<< >>, << >>) ELSE next(f[n - 1], n)]
  BY <1>2, <1>3, <1>4, <1>5
<1>9. Collects(f, N, got, item)
  BY <1>8 DEF Collects, next
<1>10. ASSUME NEW g, Collects(g, N, got, item) PROVE g[N] = f[N]
  <2>1. g = [n \in 0 .. N |-> IF n = 0 THEN Got(<< >>, << >>) ELSE next(g[n - 1], n)]
    BY <1>10 DEF Collects, next
  <2>2. g[0] = f[0]
    BY <1>2, <2>1
  <2>3. ASSUME NEW n \in 1 .. N, g[n - 1] = f[n - 1] PROVE g[n] = f[n]
    <3>1. n \in 0 .. N /\ n # 0
      OBVIOUS
    <3>2. g[n] = next(g[n - 1], n)
      BY <2>1, <3>1
    <3> QED
      BY <1>3, <2>3, <3>2
  <2>4. \A n \in 0 .. N : g[n] = f[n]
    BY ONLY <2>2, <2>3, N \in Nat, AgreeUpTo
  <2> QED
    BY <1>6, <2>4
<1> QED
  BY <1>7, <1>9, <1>10

(* A message of a given definition, framed. *)
IDFor(class) == IF class \in ReliableClasses THEN 1 ELSE 0
FrameOf(d, out) ==
    Framed(d.id, EncodeBody(d.layout, out.message.body).bytes, out.delivery, IDFor(out.delivery))

Encodable(reg, out) ==
    /\ out.message.type \in DOMAIN reg.byType /\ Valid(out.message)
    /\ EncodeBody(reg.byType[out.message.type].layout, out.message.body).ok

(* The delivery class and ID that Datagram sets in a framed message. *)
Reframed(framed, class) ==
    [framed EXCEPT !.delivery = class, !.deliveryID = IDFor(class)]

LEMMA ReframedFacts ==
    ASSUME NEW id, NEW payload, NEW class, NEW delivery
    PROVE  Reframed(Framed(id, payload, class, 0), delivery)
             = Framed(id, payload, delivery, IDFor(delivery))
<1> DEFINE f == Framed(id, payload, class, 0)
           deliveryID == IDFor(delivery)
           g == [f EXCEPT !.delivery = delivery, !.deliveryID = deliveryID]
           h == Framed(id, payload, delivery, deliveryID)
           S == {"id", "payload", "delivery", "deliveryID"}
<1> HIDE DEF deliveryID
<1>1. f = [x \in S |-> f[x]]
  BY DEF Framed
<1>2. h = [x \in S |-> h[x]]
  BY DEF Framed
<1>3. g = [x \in S |-> g[x]]
  BY <1>1
<1>4. g["id"] = id /\ g["payload"] = payload /\ g["delivery"] = delivery /\ g["deliveryID"] = deliveryID
  BY <1>1 DEF Framed
<1>5. h["id"] = id /\ h["payload"] = payload /\ h["delivery"] = delivery /\ h["deliveryID"] = deliveryID
  BY DEF Framed
<1> HIDE DEF g, h
<1>6. \A x \in S : g[x] = h[x]
  BY <1>4, <1>5
<1>7. g = h
  BY <1>2, <1>3, <1>6
<1> QED
  BY <1>7 DEF g, h, Reframed, deliveryID

(* A datagram is written only when each of its messages can be encoded. *)
LEMMA DatagramFrames ==
    ASSUME NEW reg, NEW outs, NEW N \in Nat, Len(outs) = N, Datagram(reg, outs).ok
    PROVE  /\ \A n \in 1 .. N : Encodable(reg, outs[n])
           /\ Datagram(reg, outs)
                = EncodePacketWithAcks(Packet(0, 0, 0,
                    [n \in 1 .. N |-> FrameOf(reg.byType[outs[n].message.type], outs[n])]))
<1> DEFINE got == [n \in 1 .. N |-> EncodeMessage(reg, outs[n].message)]
           item == [n \in 1 .. N |-> Reframed(got[n].value, outs[n].delivery)]
           frames == [n \in 1 .. N |-> FrameOf(reg.byType[outs[n].message.type], outs[n])]
           Loop(g) == g = [n \in 0 .. N |->
                             IF n = 0 THEN Got(<< >>, << >>)
                             ELSE IF g[n - 1].ok
                                  THEN IF EncodeMessage(reg, outs[n].message).ok
                                       THEN Got(Append(g[n - 1].value,
                                                  Reframed(EncodeMessage(reg, outs[n].message).value,
                                                           outs[n].delivery)),
                                                EncodeMessage(reg, outs[n].message).rest)
                                       ELSE Fails
                                  ELSE Fails]
           loop == CHOOSE g : Loop(g)
<1>1. Datagram(reg, outs) = EncodeAll(loop[N])
  BY DEF Datagram, Repeat, Then, Reframed, IDFor
<1>2. ASSUME NEW n \in 1 .. N
      PROVE  \/ got[n] = Fails
             \/ /\ Encodable(reg, outs[n]) /\ got[n].ok /\ got[n].rest = << >>
                /\ item[n] = FrameOf(reg.byType[outs[n].message.type], outs[n])
  <2> DEFINE out == outs[n]
             m == out.message
             d == reg.byType[m.type]
             body == EncodeBody(d.layout, m.body)
  <2>1. got[n] = EncodeMessage(reg, m)
    OBVIOUS
  <2>2. item[n] = Reframed(got[n].value, out.delivery)
    <3> HIDE DEF got
    <3> QED
      OBVIOUS
  <2> HIDE DEF got, item
  <2>3. CASE m.type \notin DOMAIN reg.byType \/ ~Valid(m) \/ ~body.ok
    BY <2>1, <2>3 DEF EncodeMessage, AsFramed
  <2>4. CASE m.type \in DOMAIN reg.byType /\ Valid(m) /\ body.ok
    <3>1. got[n] = Got(Framed(d.id, body.bytes, d.delivery, 0), << >>)
      <4> HIDE DEF body, m
      <4> QED
        BY <2>1, <2>4 DEF EncodeMessage, AsFramed, body
    <3> HIDE DEF body
    <3>2. got[n].ok /\ got[n].rest = << >> /\ got[n].value = Framed(d.id, body.bytes, d.delivery, 0)
      BY <3>1 DEF Got
    <3>3. item[n] = Framed(d.id, body.bytes, out.delivery, IDFor(out.delivery))
      BY <2>2, <3>2, ReframedFacts
    <3> QED
      BY <2>4, <3>2, <3>3 DEF Encodable, FrameOf, body
  <2> QED
    BY <2>3, <2>4
<1>3. item = [n \in 1 .. N |-> item[n]]
  OBVIOUS
<1>4. \A n \in 1 .. N : got[n].ok => got[n].rest = << >>
  <2> HIDE DEF got, item
  <2> QED
    BY <1>2, WrittenFacts
<1>5. \A g : Loop(g) <=> Collects(g, N, got, item)
  <2>1. ASSUME NEW g
        PROVE  [n \in 0 .. N |->
                             IF n = 0 THEN Got(<< >>, << >>)
                             ELSE IF g[n - 1].ok
                                  THEN IF EncodeMessage(reg, outs[n].message).ok
                                       THEN Got(Append(g[n - 1].value,
                                                  Reframed(EncodeMessage(reg, outs[n].message).value,
                                                           outs[n].delivery)),
                                                EncodeMessage(reg, outs[n].message).rest)
                                       ELSE Fails
                                  ELSE Fails]
               = [n \in 0 .. N |->
                   IF n = 0 THEN Got(<< >>, << >>)
                   ELSE IF g[n - 1].ok
                        THEN IF got[n].ok THEN Got(Append(g[n - 1].value, item[n]), got[n].rest) ELSE Fails
                        ELSE Fails]
    <3>1. \A n \in 0 .. N : n # 0 => n \in 1 .. N
      OBVIOUS
    <3>2. \A n \in 1 .. N : /\ got[n] = EncodeMessage(reg, outs[n].message)
                            /\ item[n] = Reframed(EncodeMessage(reg, outs[n].message).value, outs[n].delivery)
      OBVIOUS
    <3> HIDE DEF got, item
    <3> QED
      BY <3>1, <3>2
  <2> HIDE DEF got, item
  <2> QED
    BY <2>1 DEF Collects
<1> HIDE DEF Loop, got, item
<1>6. Collects(loop, N, got, item)
  <2>1. \E g : Collects(g, N, got, item)
    BY ONLY <1>3, <1>4, N \in Nat, CollectLoop
  <2> QED
    BY <1>5, <2>1
<1>7. loop[N] = IF AllOk(got, N) THEN Got(item, << >>) ELSE Fails
  <2> HIDE DEF loop
  <2> QED
    BY ONLY <1>3, <1>4, <1>6, N \in Nat, CollectLoop
<1> HIDE DEF loop
<1>8. AllOk(got, N)
  <2> SUFFICES ASSUME ~AllOk(got, N) PROVE FALSE
    OBVIOUS
  <2>1. Datagram(reg, outs) = Fails
    BY <1>1, <1>7, WrittenFacts DEF EncodeAll
  <2> QED
    BY <2>1, WrittenFacts
<1>9. \A n \in 1 .. N : Encodable(reg, outs[n]) /\ item[n] = FrameOf(reg.byType[outs[n].message.type], outs[n])
  BY <1>2, <1>8, WrittenFacts DEF AllOk
<1>10. item = frames
  BY <1>3, <1>9
<1>11. Datagram(reg, outs) = EncodePacketWithAcks(Packet(0, 0, 0, item))
  <2>1. loop[N].ok /\ loop[N].value = item
    BY <1>7, <1>8 DEF Got
  <2> QED
    BY <1>1, <2>1 DEF EncodeAll
<1> QED
  BY <1>9, <1>10, <1>11

(* A registry agrees with the client's where both know a message type. *)
AgreesWithClient(reg) ==
    /\ \A type \in DOMAIN ClientRegistry.byType \cap DOMAIN reg.byType :
          reg.byType[type] = ClientRegistry.byType[type]
    /\ \A d \in BuiltIn \cup GameDefinitions : d.id \in DOMAIN reg.byID => reg.byID[d.id] = d

(* A message of a type the client knows, whose fields are read as written. *)
Sendable(out) ==
    /\ out.delivery \in ReliableClasses \cup {Unreliable}
    /\ out.message = Message(out.message.type, out.message.body)
    /\ out.message.type \in DOMAIN ClientRegistry.byType
    /\ BodyReads(KnownLayout(out.message), out.message.body)
    /\ Len(out.message.body) = Len(KnownLayout(out.message))

LEMMA FramesAreFrameable ==
    ASSUME NEW out, Sendable(out), NEW d, d = ClientRegistry.byType[out.message.type],
           EncodeBody(d.layout, out.message.body).ok
    PROVE  Frameable(FrameOf(d, out)) /\ FrameOf(d, out).delivery = out.delivery
           /\ FrameOf(d, out).id = d.id
           /\ FrameOf(d, out).payload = EncodeBody(d.layout, out.message.body).bytes
<1> DEFINE payload == EncodeBody(d.layout, out.message.body).bytes
<1>1. d \in BuiltIn \cup GameDefinitions
  BY RegisteredType DEF Sendable
<1>2. d.id \in 0 .. Power[ShortLen] - 1 /\ d.id # WireMessageReliable
  BY <1>1, DefinitionsAssumption
<1>3. payload \in Seq(Byte)
  <2>1. EncodeBody(d.layout, out.message.body) \in Written
    BY BodyRoundTrip DEF Sendable, KnownLayout
  <2> QED
    BY <2>1, WrittenFacts
<1>4. 0 \in 0 .. Power[LongLen] - 1 /\ 1 \in 0 .. Power[LongLen] - 1
  <2>1. Power[LongLen] \in Nat /\ Power[LongLen] >= 2
    <3>1. LongLen \in Widths \ {0} /\ LongLen - 1 \in Widths
      BY WidthAssumption DEF Widths
    <3>2. Power[LongLen] = ByteBase * Power[LongLen - 1] /\ Power[LongLen - 1] \in Nat \ {0}
      BY <3>1, PowerFacts
    <3>3. \A b \in Nat \ {0, 1}, q \in Nat \ {0} : b * q \in Nat /\ b * q >= 2
      OBVIOUS
    <3> QED
      BY <3>2, <3>3, WidthAssumption
  <2> QED
    BY <2>1
<1>5. out.delivery \in ReliableClasses \/ out.delivery = Unreliable
  BY DEF Sendable
<1>6. Unreliable \notin ReliableClasses
  BY DEF Unreliable, ReliableClasses, ReliableOrdered, ReliableUnordered
<1> HIDE DEF payload
<1>7. FrameOf(d, out) = Framed(d.id, payload, out.delivery, IDFor(out.delivery))
  BY DEF FrameOf, payload
<1>8. /\ IDFor(out.delivery) \in 0 .. Power[LongLen] - 1
      /\ out.delivery = Unreliable => IDFor(out.delivery) = 0
  BY <1>4, <1>6 DEF IDFor
<1> DEFINE frame == FrameOf(d, out)
<1>9. /\ frame.id = d.id /\ frame.payload = payload /\ frame.delivery = out.delivery
      /\ frame.deliveryID = IDFor(out.delivery)
  BY <1>7 DEF Framed
<1> HIDE DEF frame
<1> QED
  BY <1>2, <1>3, <1>5, <1>7, <1>8, <1>9 DEF Frameable, frame, payload

(* What the validators look at is read as it was written. *)
LEMMA ValidAsSeen ==
    ASSUME NEW out, Sendable(out), Valid(out.message),
           NEW d, d = ClientRegistry.byType[out.message.type]
    PROVE  Valid(Message(d.type, SeenBody(d.layout, out.message.body)))
<1> DEFINE m == out.message
           seen == Message(d.type, SeenBody(d.layout, m.body))
           request == Definition(256, "ObjectRequest", ObjectRequestLayout, Unreliable)
           input == Definition(257, "PlayerInput", PlayerInputLayout, Unreliable)
<1>1. d.type = m.type
  BY RegisteredType DEF Sendable
<1>2. seen.type = m.type /\ seen.body = SeenBody(d.layout, m.body)
  BY <1>1 DEF Message
<1>3. request.type = "ObjectRequest" /\ request.layout = ObjectRequestLayout
      /\ input.type = "PlayerInput" /\ input.layout = PlayerInputLayout
  BY DEF Definition
<1>4. request \in BuiltIn /\ input \in BuiltIn
  BY DEF BuiltIn
<1> HIDE DEF request, input
<1>5. ASSUME m.type = "ObjectRequest"
      PROVE  seen.body[1] = m.body[1] /\ seen.body[2] = m.body[2]
  <2>1. d.layout = <<"string", "string", "string", "bytes">>
    BY <1>3, <1>4, <1>5, KnownDefinition DEF ObjectRequestLayout
  <2>2. seen.body = [j \in DOMAIN d.layout |-> SeenField(d.layout[j], m.body[j])]
    BY <1>2 DEF SeenBody
  <2>3. 1 \in DOMAIN d.layout /\ 2 \in DOMAIN d.layout /\ d.layout[1] = "string" /\ d.layout[2] = "string"
    BY ONLY <2>1
  <2>4. \A v : SeenField("string", v) = v
    BY DEF SeenField
  <2> HIDE DEF seen, m
  <2> QED
    BY ONLY <2>2, <2>3, <2>4
<1>6. ASSUME m.type = "PlayerInput"
      PROVE  seen.body[1] = m.body[1]
  <2>1. d.layout = <<"string", "movement">>
    BY <1>3, <1>4, <1>6, KnownDefinition DEF PlayerInputLayout
  <2> HIDE DEF seen
  <2> QED
    BY <1>2, <2>1 DEF SeenBody, SeenField
<1> HIDE DEF seen
<1>7. Valid(seen)
  BY <1>2, <1>5, <1>6 DEF Valid
<1> QED
  BY <1>7 DEF seen

(* One message: decoded into what its sender put into it, kept as it is when
   its type is unknown, or refused because it ends empty. *)
LEMMA MessageRoundTrip ==
    ASSUME NEW out, Sendable(out), Valid(out.message),
           NEW d, d = ClientRegistry.byType[out.message.type],
           EncodeBody(d.layout, out.message.body).ok,
           NEW reg, AgreesWithClient(reg)
    PROVE  DecodeMessage(reg, FrameOf(d, out))
             = IF d.id \in DOMAIN reg.byID /\ BodyEndsEmpty(d.layout, out.message.body)
               THEN Fails ELSE Got(SeenAs(reg, out).message, << >>)
<1> DEFINE body == out.message.body
           payload == EncodeBody(d.layout, body).bytes
           frame == FrameOf(d, out)
<1>1. frame.id = d.id /\ frame.payload = payload
  BY FramesAreFrameable
<1>2. d \in BuiltIn \cup GameDefinitions
  BY RegisteredType DEF Sendable
<1>3. DecodeBody(d.layout, payload)
        = IF BodyEndsEmpty(d.layout, body) THEN Fails ELSE Got(SeenBody(d.layout, body), << >>)
  BY BodyRoundTrip DEF Sendable, KnownLayout
<1>4. Valid(Message(d.type, SeenBody(d.layout, body)))
  BY ValidAsSeen
<1>5. CASE d.id \notin DOMAIN reg.byID
  <2>1. SeenAs(reg, out) = [message |-> UnknownWireMessage(d.id, payload), delivery |-> out.delivery]
    BY <1>5 DEF SeenAs
  <2> HIDE DEF payload, frame
  <2>2. SeenAs(reg, out).message = UnknownWireMessage(d.id, payload)
    BY <2>1
  <2>3. DecodeMessage(reg, frame) = Got(UnknownWireMessage(d.id, payload), << >>)
    BY <1>1, <1>5 DEF DecodeMessage
  <2> QED
    BY <1>5, <2>2, <2>3 DEF frame
<1>6. CASE d.id \in DOMAIN reg.byID
  <2>1. SeenAs(reg, out)
          = [message |-> Message(d.type, SeenBody(d.layout, body)), delivery |-> out.delivery]
    BY <1>6 DEF SeenAs, SeenBody
  <2> DEFINE whole == Message(d.type, SeenBody(d.layout, body))
             left == DecodeBody(d.layout, payload)
  <2>2. SeenAs(reg, out).message = whole
    BY <2>1
  <2>3. reg.byID[d.id] = d
    BY <1>2, <1>6 DEF AgreesWithClient
  <2>4. DecodeMessage(reg, frame) = DecodeKnown(d, payload)
    <3> HIDE DEF payload, frame
    <3> QED
      BY <1>1, <1>6, <2>3 DEF DecodeMessage
  <2>5. DecodeKnown(d, payload)
          = IF left.ok THEN IF Valid(Message(d.type, left.value)) THEN Got(Message(d.type, left.value), left.rest)
                            ELSE Fails
            ELSE Fails
    BY DEF DecodeKnown, Then
  <2> HIDE DEF left
  <2>6. CASE BodyEndsEmpty(d.layout, body)
    <3>1. left = Fails
      BY <1>3, <2>6 DEF left
    <3> QED
      BY <1>6, <2>4, <2>5, <2>6, <3>1, WrittenFacts DEF frame
  <2>7. CASE ~BodyEndsEmpty(d.layout, body)
    <3>1. left = Got(SeenBody(d.layout, body), << >>)
      BY <1>3, <2>7 DEF left
    <3>2. left.ok /\ left.value = SeenBody(d.layout, body) /\ left.rest = << >>
      BY <3>1 DEF Got
    <3> QED
      BY <1>4, <1>6, <2>2, <2>4, <2>5, <2>7, <3>2 DEF frame
  <2> QED
    BY <2>6, <2>7
<1> QED
  BY <1>5, <1>6

(* A whole datagram, from messages to messages: EncodeMessage, the reliable
   envelope and EncodePacketWithAcks on one side, decodeUDPWirePacket with
   another registry on the other.  The reader sees the messages of the types
   it knows and keeps the others' payloads; or it refuses the datagram, which
   it does only when a message it knows ends in an empty field, or one without
   payload is the last one or in an envelope. *)
THEOREM DatagramRoundTrip ==
    ASSUME NEW sender, AgreesWithClient(sender), NEW reader, AgreesWithClient(reader),
           NEW N \in Nat, NEW outs, outs \in Seq(Range(outs)), Len(outs) = N,
           \A n \in 1 .. N : Sendable(outs[n]),
           Datagram(sender, outs).ok
    PROVE  /\ Datagram(sender, outs).bytes \in Seq(Byte)
           /\ Faithful(reader, outs, DecodeIncoming(reader, Datagram(sender, outs).bytes))
<1> DEFINE d(n) == ClientRegistry.byType[outs[n].message.type]
           payload(n) == EncodeBody(d(n).layout, outs[n].message.body).bytes
           frames == [n \in 1 .. N |-> FrameOf(d(n), outs[n])]
           Ends(n) == d(n).id \in DOMAIN reader.byID /\ BodyEndsEmpty(d(n).layout, outs[n].message.body)
           data == Datagram(sender, outs).bytes
           p == Packet(0, 0, 0, frames)
<1>1. DOMAIN outs = 1 .. N
  OBVIOUS
<1>2. ASSUME NEW n \in 1 .. N
      PROVE  /\ Valid(outs[n].message) /\ EncodeBody(d(n).layout, outs[n].message.body).ok
             /\ sender.byType[outs[n].message.type] = d(n)
  <2>1. Encodable(sender, outs[n])
    BY DatagramFrames
  <2>2. sender.byType[outs[n].message.type] = d(n)
    BY <2>1 DEF Encodable, Sendable, AgreesWithClient
  <2> QED
    BY <2>1, <2>2 DEF Encodable
<1>3. Datagram(sender, outs) = EncodePacketWithAcks(p)
  <2>1. [n \in 1 .. N |-> FrameOf(sender.byType[outs[n].message.type], outs[n])] = frames
    BY <1>2
  <2>2. Datagram(sender, outs)
          = EncodePacketWithAcks(Packet(0, 0, 0,
              [n \in 1 .. N |-> FrameOf(sender.byType[outs[n].message.type], outs[n])]))
    BY DatagramFrames
  <2> QED
    BY <2>1, <2>2
<1>4. ASSUME NEW n \in 1 .. N
      PROVE  /\ Frameable(frames[n]) /\ frames[n].delivery = outs[n].delivery
             /\ frames[n].payload = payload(n)
             /\ DecodeMessage(reader, frames[n])
                  = IF Ends(n) THEN Fails ELSE Got(SeenAs(reader, outs[n]).message, << >>)
  <2>1. frames[n] = FrameOf(d(n), outs[n])
    OBVIOUS
  <2>2. Frameable(FrameOf(d(n), outs[n])) /\ FrameOf(d(n), outs[n]).delivery = outs[n].delivery
        /\ FrameOf(d(n), outs[n]).payload = payload(n)
    BY <1>2, FramesAreFrameable
  <2>3. DecodeMessage(reader, FrameOf(d(n), outs[n]))
          = IF Ends(n) THEN Fails ELSE Got(SeenAs(reader, outs[n]).message, << >>)
    BY <1>2, MessageRoundTrip
  <2> HIDE DEF frames, Ends, payload, d
  <2> QED
    BY <2>1, <2>2, <2>3
<1>5. frames = [n \in 1 .. N |-> frames[n]]
  OBVIOUS
<1> HIDE DEF frames, Ends, payload, d
<1> DEFINE Messages == {frames[n] : n \in 1 .. N}
<1>6. frames \in Seq(Messages) /\ Len(frames) = N /\ DOMAIN frames = 1 .. N
  <2>1. frames \in [1 .. N -> Messages]
    BY <1>5
  <2> HIDE DEF Messages
  <2> QED
    BY <2>1
<1>7. \A m \in Messages : Frameable(m)
  BY <1>4
<1> HIDE DEF Messages
<1>8. /\ data \in Seq(Byte)
      /\ DecodePacket(data)
           = IF \E n \in 1 .. N : Unreadable(frames, n) THEN Fails ELSE Got(p, << >>)
  <2>1. 0 \in 0 .. Power[LongLen] - 1
    <3>1. Power[LongLen] \in Nat \ {0}
      BY UsedWidths
    <3> QED
      BY <3>1
  <2>2. EncodePacketWithAcks(p).ok
    BY <1>3
  <2>3. /\ EncodePacketWithAcks(p).bytes \in Seq(Byte)
        /\ DecodePacket(EncodePacketWithAcks(p).bytes)
             = IF \E n \in DOMAIN frames : Unreadable(frames, n) THEN Fails ELSE Got(p, << >>)
    BY <1>6, <1>7, <2>1, <2>2, PacketRoundTrip
  <2> QED
    BY <1>3, <1>6, <2>3
<1> SUFFICES Faithful(reader, outs, DecodeIncoming(reader, data))
  BY <1>8
<1>9. \A n \in 1 .. N : MayBeDropped(reader, outs, n) <=> Ends(n) \/ Unreadable(frames, n)
  <2> TAKE n \in 1 .. N
  <2>1. Unreadable(frames, n) <=> payload(n) = << >> /\ (outs[n].delivery # Unreliable \/ n = N)
    BY <1>4, <1>6 DEF Unreadable
  <2>2. outs[n].delivery # Unreliable <=> outs[n].delivery \in ReliableClasses
    BY DEF Sendable, Unreliable, ReliableClasses, ReliableOrdered, ReliableUnordered
  <2> QED
    BY <2>1, <2>2 DEF MayBeDropped, Ends, payload, d
<1> DEFINE got == [n \in 1 .. N |-> DecodeMessage(reader, frames[n])]
           item == [n \in 1 .. N |-> [message |-> got[n].value, delivery |-> frames[n].delivery]]
           packet == DecodePacket(data)
           Raw(g) == [n \in 0 .. Len(packet.value.messages) |->
                        IF n = 0 THEN Got(<< >>, packet.rest)
                        ELSE IF g[n - 1].ok
                             THEN IF DecodeMessage(reader, packet.value.messages[n]).ok
                                  THEN Got(Append(g[n - 1].value,
                                             [message |-> DecodeMessage(reader, packet.value.messages[n]).value,
                                              delivery |-> packet.value.messages[n].delivery]),
                                           DecodeMessage(reader, packet.value.messages[n]).rest)
                                  ELSE Fails
                             ELSE Fails]
           Loop(g) == g = Raw(g)
           loop == CHOOSE g : Loop(g)
           incoming == DecodeIncoming(reader, data)
<1>10. CASE \E n \in 1 .. N : Unreadable(frames, n)
  <2>1. incoming = Fails
    <3>1. DecodePacket(data) = Fails
      BY <1>8, <1>10
    <3> HIDE DEF data
    <3> QED
      BY <3>1, WrittenFacts DEF DecodeIncoming, Then
  <2> HIDE DEF incoming
  <2> QED
    BY <1>1, <1>9, <1>10, <2>1, WrittenFacts DEF Faithful, incoming
<1>11. CASE ~\E n \in 1 .. N : Unreadable(frames, n)
  <2>1. DecodePacket(data) = Got(p, << >>)
    BY <1>8, <1>11
  <2>2. p.messages = frames
    BY DEF Packet
  <2>3. packet.ok /\ packet.value = p /\ packet.rest = << >>
    <3> HIDE DEF data, p
    <3> QED
      BY <2>1 DEF Got
  <2> HIDE DEF data, p
  <2>4. incoming = loop[N]
    <3>1. incoming = IF packet.ok THEN loop[Len(packet.value.messages)] ELSE Fails
      BY DEF DecodeIncoming, Then, Repeat
    <3> HIDE DEF incoming, loop, packet
    <3> QED
      BY <1>6, <2>2, <2>3, <3>1
  <2> HIDE DEF packet
  <2>5. item = [n \in 1 .. N |-> item[n]]
    OBVIOUS
  <2>6. \A n \in 1 .. N : got[n] = IF Ends(n) THEN Fails ELSE Got(SeenAs(reader, outs[n]).message, << >>)
    BY <1>4
  <2>7. \A n \in 1 .. N :
           \/ Ends(n) /\ ~got[n].ok
           \/ /\ ~Ends(n) /\ got[n].ok /\ got[n].rest = << >>
              /\ got[n].value = SeenAs(reader, outs[n]).message
    <3> HIDE DEF got
    <3>1. \A v : Got(v, << >>).ok /\ Got(v, << >>).value = v /\ Got(v, << >>).rest = << >>
      BY DEF Got
    <3> QED
      BY <2>6, <3>1, WrittenFacts
  <2>8. \A n \in 1 .. N : got[n].ok => got[n].rest = << >>
    <3> HIDE DEF got
    <3> QED
      BY <2>7
  <2>9. ASSUME NEW n \in 1 .. N, ~Ends(n) PROVE item[n] = SeenAs(reader, outs[n])
    <3>1. item[n] = [message |-> got[n].value, delivery |-> frames[n].delivery]
      <4> HIDE DEF got
      <4> QED
        OBVIOUS
    <3> HIDE DEF got, item
    <3>2. item[n] = [message |-> SeenAs(reader, outs[n]).message, delivery |-> outs[n].delivery]
      BY <1>4, <2>7, <2>9, <3>1
    <3>3. SeenAs(reader, outs[n]) = [message |-> SeenAs(reader, outs[n]).message, delivery |-> outs[n].delivery]
      BY DEF SeenAs
    <3> QED
      BY <3>2, <3>3
  <2>10. \A g : Loop(g) <=> Collects(g, N, got, item)
    <3>1. \A n \in 0 .. N : n # 0 => n \in 1 .. N
      OBVIOUS
    <3>2. \A n \in 1 .. N : /\ got[n] = DecodeMessage(reader, frames[n])
                            /\ item[n] = [message |-> DecodeMessage(reader, frames[n]).value,
                                          delivery |-> frames[n].delivery]
      OBVIOUS
    <3> HIDE DEF got, item
    <3> DEFINE Turn(g, n) == IF DecodeMessage(reader, frames[n]).ok
                             THEN Got(Append(g[n - 1].value,
                                        [message |-> DecodeMessage(reader, frames[n]).value,
                                         delivery |-> frames[n].delivery]),
                                      DecodeMessage(reader, frames[n]).rest)
                             ELSE Fails
               Same(g, n) == IF got[n].ok THEN Got(Append(g[n - 1].value, item[n]), got[n].rest) ELSE Fails
    <3>3. \A g : \A n \in 1 .. N : Turn(g, n) = Same(g, n)
      BY <3>2
    <3> HIDE DEF Turn, Same
    <3>4. ASSUME NEW g
          PROVE  [n \in 0 .. N |-> IF n = 0 THEN Got(<< >>, << >>)
                                   ELSE IF g[n - 1].ok THEN Turn(g, n) ELSE Fails]
                 = [n \in 0 .. N |-> IF n = 0 THEN Got(<< >>, << >>)
                                     ELSE IF g[n - 1].ok THEN Same(g, n) ELSE Fails]
      BY <3>1, <3>3
    <3>5. packet.value.messages = frames /\ Len(packet.value.messages) = N /\ packet.rest = << >>
      BY <1>6, <2>2, <2>3
    <3>6. ASSUME NEW g
          PROVE  Raw(g) = [n \in 0 .. N |-> IF n = 0 THEN Got(<< >>, << >>)
                                            ELSE IF g[n - 1].ok THEN Turn(g, n) ELSE Fails]
      BY <3>5 DEF Turn
    <3> HIDE DEF Raw
    <3>7. ASSUME NEW g
          PROVE  Loop(g) <=> g = [n \in 0 .. N |-> IF n = 0 THEN Got(<< >>, << >>)
                                     ELSE IF g[n - 1].ok THEN Same(g, n) ELSE Fails]
      BY <3>4, <3>6
    <3> QED
      BY <3>7 DEF Collects, Same
  <2> HIDE DEF Loop, Raw, got, item
  <2>11. Collects(loop, N, got, item)
    <3>1. \E g : Collects(g, N, got, item)
      BY ONLY <2>5, <2>8, N \in Nat, CollectLoop
    <3> QED
      BY <2>10, <3>1
  <2>12. loop[N] = IF AllOk(got, N) THEN Got(item, << >>) ELSE Fails
    <3> HIDE DEF loop
    <3> QED
      BY ONLY <2>5, <2>8, <2>11, N \in Nat, CollectLoop
  <2> HIDE DEF loop
  <2>13. CASE \E n \in 1 .. N : Ends(n)
    <3>1. ~AllOk(got, N)
      BY <2>7, <2>13 DEF AllOk
    <3>2. incoming = Fails
      BY <2>4, <2>12, <3>1
    <3> HIDE DEF incoming
    <3> QED
      BY <1>1, <1>9, <2>13, <3>2, WrittenFacts DEF Faithful, incoming, data
  <2>14. CASE ~\E n \in 1 .. N : Ends(n)
    <3>1. AllOk(got, N)
      BY <2>7, <2>14 DEF AllOk
    <3>2. incoming = Got(item, << >>)
      BY <2>4, <2>12, <3>1
    <3>3. incoming.ok /\ incoming.value = item
      <4> HIDE DEF incoming
      <4> QED
        BY <3>2 DEF Got
    <3>4. item = [n \in DOMAIN outs |-> SeenAs(reader, outs[n])]
      BY <1>1, <2>5, <2>9, <2>14
    <3> HIDE DEF incoming
    <3> QED
      BY <1>1, <1>9, <1>11, <2>14, <3>3, <3>4 DEF Faithful, incoming, data
  <2> QED
    BY <2>13, <2>14
<1> QED
  BY <1>10, <1>11

-----------------------------------------------------------------------------
(* Fields of their Go types are read as written; of values, snapshots and
   references it has to be known. *)
TreesRead(layout, body) == TreesReadBefore(Seq(Byte), layout, body)

LEMMA TypedReads ==
    ASSUME NEW layout, LayoutTyped(layout), NEW body, BodyTyped(layout, body), TreesRead(layout, body)
    PROVE  BodyReads(layout, body)
<1> SUFFICES ASSUME NEW j \in DOMAIN layout, NEW t \in Seq(Byte),
                    layout[j] \in ClosingKinds => t = << >>
             PROVE  ReadsBack(layout[j], body[j], t)
  BY DEF BodyReads
<1>1. FieldTyped(layout[j], body[j])
  BY DEF BodyTyped
<1>2. layout[j] \in FlatKinds \/ layout[j] \in ClosingKinds \/ layout[j] \in TreeKinds
  BY DEF LayoutTyped
<1>3. CASE layout[j] \in FlatKinds
  BY <1>1, <1>3, FlatReadsBack
<1>4. CASE layout[j] \in ClosingKinds
  BY <1>1, <1>4, ClosingReadsBack
<1>5. CASE layout[j] \in TreeKinds
  BY <1>5 DEF TreesRead, TreesReadBefore
<1> QED
  BY <1>2, <1>3, <1>4, <1>5

LEMMA TypedIsSendable ==
    ASSUME NEW out, out.delivery \in ReliableClasses \cup {Unreliable},
           out.message.type \in DOMAIN ClientRegistry.byType, MessageTyped(out.message),
           TreesRead(KnownLayout(out.message), out.message.body)
    PROVE  Sendable(out)
<1>1. LayoutTyped(KnownLayout(out.message))
  BY RegisteredType, DefinitionsAssumption DEF KnownLayout
<1>2. BodyTyped(KnownLayout(out.message), out.message.body)
  BY DEF MessageTyped
<1>3. BodyReads(KnownLayout(out.message), out.message.body)
  BY <1>1, <1>2, TypedReads
<1> QED
  BY <1>2, <1>3 DEF Sendable, MessageTyped, BodyTyped

-----------------------------------------------------------------------------
(* What game code may register never takes an ID or a type from the client:
   Register refuses those of the built-in messages. *)
RegistryInv ==
    /\ \A d \in BuiltIn : d.id \in DOMAIN registry.byID /\ d.type \in DOMAIN registry.byType
    /\ AgreesWithClient(registry)
    /\ DOMAIN registry.byType \subseteq {d.type : d \in BuiltIn \cup Offered}
    /\ \A type \in DOMAIN registry.byType :
          registry.byType[type].delivery \in ReliableClasses \cup {Unreliable}

LEMMA ClientAgrees == AgreesWithClient(ClientRegistry)
  BY KnownDefinition DEF AgreesWithClient

LEMMA RegistryInitially == SessionInit => RegistryInv
<1> SUFFICES ASSUME registry = DefaultRegistry PROVE RegistryInv
  BY DEF SessionInit
<1> DEFINE all == BuiltIn \cup GameDefinitions
           own == BuiltIn
<1>1. /\ own \subseteq all
      /\ \A d, e \in all : d.id = e.id \/ d.type = e.type => d = e
      /\ \A d \in all : d.delivery \in ReliableClasses \cup {Unreliable}
  BY DefinitionsAssumption
<1>2. registry = RegistryOf(own)
  BY DEF DefaultRegistry
<1>3. own \subseteq BuiltIn \cup Offered
  OBVIOUS
<1>4. \A d \in all : ClientRegistry.byType[d.type] = d
  BY KnownDefinition
<1>5. \A d \in BuiltIn \cup GameDefinitions : d \in all
  OBVIOUS
<1>6. \A d \in BuiltIn : d \in own
  OBVIOUS
<1> HIDE DEF all, own
<1>7. /\ registry.byID = [id \in {e.id : e \in own} |-> CHOOSE e \in own : e.id = id]
      /\ registry.byType = [type \in {e.type : e \in own} |-> CHOOSE e \in own : e.type = type]
  BY <1>2 DEF RegistryOf
<1>8. ASSUME NEW d \in own
      PROVE  /\ d.id \in DOMAIN registry.byID /\ registry.byID[d.id] = d
             /\ d.type \in DOMAIN registry.byType /\ registry.byType[d.type] = d
  <2>1. (CHOOSE e \in own : e.type = d.type) = d /\ (CHOOSE e \in own : e.id = d.id) = d
    BY <1>1
  <2> QED
    BY <1>7, <2>1
<1>9. \A type \in DOMAIN registry.byType : \E d \in own : d.type = type
  BY <1>7
<1>10. \A id \in DOMAIN registry.byID : \E d \in own : d.id = id
  BY <1>7
<1>11. ASSUME NEW type \in DOMAIN registry.byType
       PROVE  /\ registry.byType[type] = ClientRegistry.byType[type]
              /\ registry.byType[type].delivery \in ReliableClasses \cup {Unreliable}
              /\ type \in {d.type : d \in BuiltIn \cup Offered}
  <2>1. PICK d \in own : d.type = type
    BY <1>9
  <2> QED
    BY <1>1, <1>3, <1>4, <1>8, <2>1
<1>12. ASSUME NEW d \in BuiltIn \cup GameDefinitions, d.id \in DOMAIN registry.byID
       PROVE  registry.byID[d.id] = d
  <2>1. PICK e \in own : e.id = d.id
    BY <1>10, <1>12
  <2>2. e = d
    BY <1>1, <1>5, <2>1
  <2> QED
    BY <1>8, <2>2
<1> QED
  BY <1>6, <1>8, <1>11, <1>12 DEF RegistryInv, AgreesWithClient

LEMMA RegistryAfterRegister ==
    ASSUME RegistryInv, NEW d \in Offered, Register(d)
    PROVE  RegistryInv'
<1> DEFINE all == BuiltIn \cup GameDefinitions
<1>1. /\ d.delivery \in ReliableClasses \cup {Unreliable}
      /\ d.id \notin DOMAIN registry.byID /\ d.type \notin DOMAIN registry.byType
      /\ registry' = Registered(registry, d)
  BY DEF Register, Refused
<1>2. /\ registry'.byID = With(registry.byID, d.id, d)
      /\ registry'.byType = With(registry.byType, d.type, d)
  BY <1>1 DEF Registered
<1>3. /\ DOMAIN registry'.byID = DOMAIN registry.byID \cup {d.id}
      /\ registry'.byID[d.id] = d
      /\ \A id \in DOMAIN registry.byID : registry'.byID[id] = registry.byID[id]
  BY <1>1, <1>2 DEF With
<1>4. /\ DOMAIN registry'.byType = DOMAIN registry.byType \cup {d.type}
      /\ registry'.byType[d.type] = d
      /\ \A type \in DOMAIN registry.byType : registry'.byType[type] = registry.byType[type]
  BY <1>1, <1>2 DEF With
<1>5. ASSUME NEW e \in BuiltIn \cup GameDefinitions, e.id = d.id \/ e.type = d.type
      PROVE  d = e
  <2>1. e \notin BuiltIn
    BY <1>1, <1>5 DEF RegistryInv
  <2> QED
    BY <1>5, <2>1, OfferedAssumption
<1>6. ASSUME NEW type \in DOMAIN ClientRegistry.byType \cap DOMAIN registry'.byType
      PROVE  registry'.byType[type] = ClientRegistry.byType[type]
  <2>1. CASE type \in DOMAIN registry.byType
    BY <1>4, <2>1 DEF RegistryInv, AgreesWithClient
  <2>2. CASE type = d.type
    <3>1. /\ ClientRegistry.byType[type] \in BuiltIn \cup GameDefinitions
          /\ ClientRegistry.byType[type].type = type
      BY RegisteredType
    <3> QED
      BY <1>4, <1>5, <2>2, <3>1
  <2> QED
    BY <1>4, <2>1, <2>2
<1>7. ASSUME NEW e \in BuiltIn \cup GameDefinitions, e.id \in DOMAIN registry'.byID
      PROVE  registry'.byID[e.id] = e
  BY <1>3, <1>5, <1>7 DEF RegistryInv, AgreesWithClient
<1>8. AgreesWithClient(registry)'
  BY <1>6, <1>7 DEF AgreesWithClient
<1>9. \A e \in BuiltIn : e.id \in DOMAIN registry'.byID /\ e.type \in DOMAIN registry'.byType
  BY <1>3, <1>4 DEF RegistryInv
<1>10. DOMAIN registry'.byType \subseteq {e.type : e \in BuiltIn \cup Offered}
  BY <1>4 DEF RegistryInv
<1>11. \A type \in DOMAIN registry'.byType :
          registry'.byType[type].delivery \in ReliableClasses \cup {Unreliable}
  BY <1>1, <1>4 DEF RegistryInv
<1> QED
  BY <1>8, <1>9, <1>10, <1>11 DEF RegistryInv

LEMMA RegistryNext == RegistryInv /\ [SessionNext]_sessionVars => RegistryInv'
<1> SUFFICES ASSUME RegistryInv, [SessionNext]_sessionVars PROVE RegistryInv'
  OBVIOUS
<1>1. ASSUME NEW d \in Offered, Register(d) PROVE RegistryInv'
  BY <1>1, RegistryAfterRegister
<1>2. CASE registry' = registry
  BY <1>2 DEF RegistryInv, AgreesWithClient
<1> QED
  BY <1>1, <1>2 DEF SessionNext, Receive, AcceptPacket, HandleNext, BeginSnapshot, WriteSnapshot,
                    Expire, sessionVars

LEMMA RegistryInvariance == SessionSpec => []RegistryInv
  BY RegistryInitially, RegistryNext, PTL DEF SessionSpec

-----------------------------------------------------------------------------
(* What the server has decoded of the packet it just took. *)
LEMMA PacketIsRead ==
    ASSUME RegistryInv, NEW p \in ClientPackets, Receive(p)
    PROVE  ServerReadsWhatWasSent'
<1> DEFINE got == DecodeIncoming(registry, Datagram(ClientRegistry, p).bytes)
<1>1. AcceptPacket(p, got) /\ Datagram(ClientRegistry, p).ok
  BY DEF Receive
<1>2. p \in Seq(Range(p))
  BY ClientPacketsAssumption
<1>3. Len(p) \in Nat /\ DOMAIN p = 1 .. Len(p)
  BY <1>2
<1>4. ASSUME NEW n \in 1 .. Len(p) PROVE Sendable(p[n])
  <2>1. /\ p[n].delivery \in ReliableClasses \cup {Unreliable}
        /\ p[n].message.type \in DOMAIN ClientRegistry.byType /\ MessageTyped(p[n].message)
        /\ Range(KnownLayout(p[n].message)) \cap TreeKinds = {}
    BY <1>3, ClientPacketsAssumption
  <2>2. TreesRead(KnownLayout(p[n].message), p[n].message.body)
    BY <2>1 DEF TreesRead, TreesReadBefore, Range
  <2> QED
    BY <2>1, <2>2, TypedIsSendable
<1>5. Faithful(registry, p, got)
  <2>1. AgreesWithClient(registry)
    BY DEF RegistryInv
  <2> QED
    BY <1>1, <1>2, <1>3, <1>4, <2>1, ClientAgrees, DatagramRoundTrip
<1> HIDE DEF got
<1>6. taken' = {[sent |-> p, got |-> got]} /\ registry' = registry
  BY <1>1 DEF AcceptPacket
<1> QED
  BY <1>5, <1>6 DEF ServerReadsWhatWasSent

(* decodeUDPWirePacket reads what EncodePacketWithAcks and the client's
   encoders have written, whatever message types game code has registered by
   then: every field, class and place in the packet, with messages of unknown
   type kept as they are; or it refuses the packet, and only if bytes.Reader
   is asked for a run of no bytes at the end of the data. *)
THEOREM ServerReadsHolds == SessionSpec => []ServerReadsWhatWasSent
<1>1. SessionInit => ServerReadsWhatWasSent
  BY DEF SessionInit, ServerReadsWhatWasSent
<1>2. RegistryInv /\ ServerReadsWhatWasSent /\ [SessionNext]_sessionVars => ServerReadsWhatWasSent'
  <2> SUFFICES ASSUME RegistryInv, ServerReadsWhatWasSent, [SessionNext]_sessionVars
               PROVE  ServerReadsWhatWasSent'
    OBVIOUS
  <2>1. ASSUME NEW p \in ClientPackets, Receive(p) PROVE ServerReadsWhatWasSent'
    BY <2>1, PacketIsRead
  <2>2. CASE taken' = {}
    BY <2>2 DEF ServerReadsWhatWasSent
  <2>3. CASE UNCHANGED sessionVars
    BY <2>3 DEF ServerReadsWhatWasSent, sessionVars
  <2> QED
    BY <2>1, <2>2, <2>3 DEF SessionNext, HandleNext, Register, BeginSnapshot, WriteSnapshot, Expire
<1> QED
  BY <1>1, <1>2, RegistryInvariance, PTL DEF SessionSpec

-----------------------------------------------------------------------------
(* The wire session: what the bytes carry of a handshake. *)

(* The two messages that negotiate. *)
Negotiations == {Definition(1, "ClientHello", ClientHelloLayout, Unreliable),
                 Definition(2, "Welcome", WelcomeLayout, Unreliable)}

(* Whoever knows the type of a hello or of a welcome reads its negotiation
   fields as they were sent. *)
LEMMA NegotiationIsSeen ==
    ASSUME NEW d \in Negotiations, NEW reg, NEW out,
           out.message.type = d.type, d.id \in DOMAIN reg.byID
    PROVE  /\ SeenAs(reg, out).message.type = d.type
           /\ SeenAs(reg, out).message.body[3] = out.message.body[3]
<1>1. d \in BuiltIn
  BY DEF Negotiations, BuiltIn
<1>2. ClientRegistry.byType[out.message.type] = d
  BY <1>1, KnownDefinition
<1>3. d.layout = <<"string", "string", "negotiation">>
  BY DEF Negotiations, Definition, ClientHelloLayout, WelcomeLayout
<1>4. 3 \in DOMAIN d.layout /\ d.layout[3] = "negotiation"
  BY <1>3
<1> DEFINE seen(j) == SeenField(d.layout[j], out.message.body[j])
<1>5. SeenAs(reg, out) = [message |-> Message(d.type, [j \in DOMAIN d.layout |-> seen(j)]),
                          delivery |-> out.delivery]
  BY <1>2 DEF SeenAs
<1>6. seen(3) = out.message.body[3]
  BY <1>4 DEF SeenField
<1> HIDE DEF seen
<1> QED
  BY <1>4, <1>5, <1>6 DEF Message

(* A hello that the server sees is one the client sent. *)
LEMMA SeenHello ==
    ASSUME NEW reg, NEW out, out.message.type \in DOMAIN ClientRegistry.byType,
           SeenAs(reg, out).message.type = "ClientHello"
    PROVE  /\ out.message.type = "ClientHello"
           /\ HelloTerms(SeenAs(reg, out).message) = HelloTerms(out.message)
<1> DEFINE d == ClientRegistry.byType[out.message.type]
           hello == Definition(1, "ClientHello", ClientHelloLayout, Unreliable)
<1>1. d.type = out.message.type
  BY RegisteredType
<1>2. d.id \in DOMAIN reg.byID
  <2> SUFFICES ASSUME d.id \notin DOMAIN reg.byID PROVE FALSE
    OBVIOUS
  <2>1. SeenAs(reg, out) =
          [message |-> UnknownWireMessage(d.id, EncodeBody(d.layout, out.message.body).bytes),
           delivery |-> out.delivery]
    BY DEF SeenAs
  <2>2. SeenAs(reg, out).message.type = "Unknown"
    BY <2>1 DEF UnknownWireMessage, Message
  <2> QED
    BY <2>2
<1>3. SeenAs(reg, out).message.type = d.type
  BY <1>2 DEF SeenAs, Message
<1>4. out.message.type = hello.type /\ hello \in Negotiations /\ hello \in BuiltIn
  BY <1>1, <1>3 DEF Definition, Negotiations, BuiltIn
<1>5. d = hello
  BY <1>4, KnownDefinition
<1>6. SeenAs(reg, out).message.body[3] = out.message.body[3]
  BY <1>2, <1>4, <1>5, NegotiationIsSeen
<1> QED
  BY <1>1, <1>3, <1>6 DEF HelloTerms

-----------------------------------------------------------------------------
(* A message without trees is seen as it was sent; so it is typed. *)
LEMMA SeenTyped ==
    ASSUME NEW reg, NEW out, out.message.type \in DOMAIN ClientRegistry.byType,
           MessageTyped(out.message), Range(KnownLayout(out.message)) \cap TreeKinds = {},
           SeenAs(reg, out).message.type \in {"ClientHello", "Ping"}
    PROVE  LET m == SeenAs(reg, out).message IN BodyTyped(KnownLayout(m), m.body)
<1> DEFINE d == ClientRegistry.byType[out.message.type]
           body == out.message.body
           seen == [j \in DOMAIN d.layout |-> SeenField(d.layout[j], body[j])]
<1>1. d.id \in DOMAIN reg.byID
  <2> SUFFICES ASSUME d.id \notin DOMAIN reg.byID PROVE FALSE
    OBVIOUS
  <2>1. SeenAs(reg, out) =
          [message |-> UnknownWireMessage(d.id, EncodeBody(d.layout, body).bytes),
           delivery |-> out.delivery]
    BY DEF SeenAs
  <2>2. SeenAs(reg, out).message.type = "Unknown"
    BY <2>1 DEF UnknownWireMessage, Message
  <2> QED
    BY <2>2
<1>2. SeenAs(reg, out).message = Message(d.type, seen)
  BY <1>1 DEF SeenAs
<1>3. d.type = out.message.type /\ KnownLayout(out.message) = d.layout
  BY RegisteredType DEF KnownLayout
<1>4. LayoutTyped(d.layout)
  BY RegisteredType, DefinitionsAssumption
<1>5. BodyTyped(d.layout, body)
  BY <1>3 DEF MessageTyped
<1> HIDE DEF d, body
<1>6. \A j \in DOMAIN d.layout : seen[j] = body[j]
  <2> SUFFICES ASSUME NEW j \in DOMAIN d.layout PROVE SeenField(d.layout[j], body[j]) = body[j]
    OBVIOUS
  <2>1. d.layout[j] # "value" /\ d.layout[j] # "snapshot"
    BY <1>3 DEF Range, TreeKinds
  <2> QED
    BY <2>1 DEF SeenField
<1>7. Len(seen) = Len(d.layout)
  BY <1>4 DEF LayoutTyped
<1> HIDE DEF seen
<1>8. BodyTyped(d.layout, seen)
  BY <1>5, <1>6, <1>7 DEF BodyTyped
<1> QED
  BY <1>2, <1>3, <1>8 DEF Message, KnownLayout

-----------------------------------------------------------------------------
(* The hellos that wait to be handled are hellos of the client; and what the
   answer to a message repeats of it can be encoded. *)
InboxInv ==
    \A i \in DOMAIN inbox :
        LET m == inbox[i].message
        IN  /\ m.type = "ClientHello" => HelloTerms(m) \in Hellos
            /\ m.type \in {"ClientHello", "Ping"} => BodyTyped(KnownLayout(m), m.body)

(* What a welcome says of version and size fits its fields. *)
TermsOK ==
    /\ config.MaxPacketSize <= LargestPacketSize
    /\ client.wireVersion \in {0, ProtocolVersion}

(* The tick goroutine's copy is bound by what was agreed on when it was made. *)
CopyInv ==
    \A c \in copy : /\ NegotiatedMaxPacketSize(c.client, config) \in Nat /\ c.limit \in Nat
                    /\ NegotiatedMaxPacketSize(c.client, config) <= c.limit

SessionIInv == AgreementIInv /\ TermsOK /\ InboxInv /\ CopyInv

(* What a packet puts into the inbox.  The one fact about the codec: the
   server reads what was sent. *)
LEMMA InboxOfPacket ==
    ASSUME InboxInv, NEW p \in ClientPackets, Receive(p), ServerReadsWhatWasSent'
    PROVE  InboxInv'
<1> DEFINE got == DecodeIncoming(registry, Datagram(ClientRegistry, p).bytes)
<1>1. AcceptPacket(p, got)
  BY DEF Receive
<1> HIDE DEF got
<1>2. CASE ~got.ok
  BY <1>1, <1>2 DEF AcceptPacket, InboxInv
<1>3. CASE got.ok
  <2>1. Faithful(registry, p, got)
    <3>1. taken' = {[sent |-> p, got |-> got]} /\ registry' = registry
      BY <1>1 DEF AcceptPacket
    <3>2. \A t \in taken' : Faithful(registry', t.sent, t.got)
      BY DEF ServerReadsWhatWasSent
    <3> QED
      BY <3>1, <3>2
  <2>2. got.value = [i \in DOMAIN p |-> SeenAs(registry, p[i])]
    BY <1>3, <2>1 DEF Faithful
  <2>3. DOMAIN inbox' \subseteq DOMAIN p /\ \A i \in DOMAIN inbox' : inbox'[i] = SeenAs(registry, p[i])
    BY <1>1, <1>3, <2>2 DEF AcceptPacket
  <2>4. ASSUME NEW i \in DOMAIN inbox', inbox'[i].message.type = "ClientHello"
        PROVE  HelloTerms(inbox'[i].message) \in Hellos
    <3>1. i \in DOMAIN p /\ inbox'[i] = SeenAs(registry, p[i])
      BY <2>3
    <3>2. p[i].message.type \in DOMAIN ClientRegistry.byType
      BY <3>1, ClientPacketsAssumption
    <3>3. /\ p[i].message.type = "ClientHello"
          /\ HelloTerms(inbox'[i].message) = HelloTerms(p[i].message)
      BY <2>4, <3>1, <3>2, SeenHello
    <3> QED
      BY <3>1, <3>3, ClientPacketsAssumption DEF HelloTerms
  <2>5. ASSUME NEW i \in DOMAIN inbox', inbox'[i].message.type \in {"ClientHello", "Ping"}
        PROVE  BodyTyped(KnownLayout(inbox'[i].message), inbox'[i].message.body)
    <3>1. i \in DOMAIN p /\ inbox'[i] = SeenAs(registry, p[i])
      BY <2>3
    <3>2. /\ p[i].message.type \in DOMAIN ClientRegistry.byType /\ MessageTyped(p[i].message)
          /\ Range(KnownLayout(p[i].message)) \cap TreeKinds = {}
      BY <3>1, ClientPacketsAssumption
    <3> QED
      BY <2>5, <3>1, <3>2, SeenTyped
  <2> QED
    BY <2>4, <2>5 DEF InboxInv
<1> QED
  BY <1>2, <1>3

(* Handling takes messages out of the inbox. *)
LEMMA InboxAfterHandling ==
    ASSUME InboxInv, HandleNext
    PROVE  InboxInv'
<1>1. PICK i \in DOMAIN inbox : inbox' = [j \in DOMAIN inbox \ {i} |-> inbox[j]]
  BY DEF HandleNext
<1> QED
  BY <1>1 DEF InboxInv

(* A session step is a handshake step or none. *)
LEMMA SessionStep ==
    ASSUME InboxInv, [SessionNext]_sessionVars
    PROVE  [HandshakeNext]_handshakeVars
<1>1. ASSUME NEW p \in ClientPackets, Receive(p) PROVE TakePacket \/ UNCHANGED handshakeVars
  BY <1>1 DEF Receive, AcceptPacket
<1>2. ASSUME HandleNext PROVE [HandshakeNext]_handshakeVars
  <2>1. PICK i \in DOMAIN inbox : HandleMessage(inbox[i].message)
    BY <1>2 DEF HandleNext
  <2> DEFINE m == inbox[i].message
  <2>2. CASE m.type = "ClientHello" /\ HandleHello(m)
    <3>1. HelloTerms(m) \in Hellos /\ TakeHello(HelloTerms(m))
      BY <2>2 DEF InboxInv, HandleHello
    <3> QED
      BY <3>1 DEF HandshakeNext
  <2>3. CASE UNCHANGED handshakeVars
    BY <2>3
  <2> QED
    BY <2>1, <2>2, <2>3 DEF HandleMessage, HandleOther
<1>3. ASSUME NEW d \in Offered, Register(d) PROVE UNCHANGED handshakeVars
  BY <1>3 DEF Register
<1>4. ASSUME BeginSnapshot PROVE UNCHANGED handshakeVars
  BY <1>4 DEF BeginSnapshot
<1>5. ASSUME NEW m \in Snapshots, WriteSnapshot(m) PROVE UNCHANGED handshakeVars
  BY <1>5 DEF WriteSnapshot
<1>6. ASSUME Expire PROVE Forget
  BY <1>6 DEF Expire
<1>7. ASSUME UNCHANGED sessionVars PROVE UNCHANGED handshakeVars
  BY <1>7 DEF sessionVars, handshakeVars
<1> QED
  BY <1>1, <1>2, <1>3, <1>4, <1>5, <1>6, <1>7 DEF SessionNext, HandshakeNext

(* The limit in force is never above the size agreed on; it is below it when a
   hello without terms has followed one that asked for less. *)
LimitBounded ==
    /\ NegotiatedMaxPacketSize(client, config) \in Nat /\ AgreedSize \in Nat
    /\ NegotiatedMaxPacketSize(client, config) <= AgreedSize

LEMMA LimitWithinAgreed == AgreementIInv => LimitBounded
<1> SUFFICES ASSUME AgreementIInv PROVE LimitBounded
  OBVIOUS
<1>1. /\ config.MaxPacketSize \in Nat \ {0} /\ client.maxPacketSize \in Nat \ {0}
      /\ asked.size \in Nat
  BY DEF AgreementIInv, ConfigOK, ClientOK, AskedOK
<1>2. CASE Requested(asked)
  <2>1. client.maxPacketSize = AgreedSize
    BY <1>2 DEF AgreementIInv, RecordsAgreement
  <2> QED
    BY <1>1, <2>1 DEF LimitBounded, NegotiatedMaxPacketSize, AgreedSize, Lower
<1>3. CASE ~Requested(asked)
  BY <1>1, <1>3 DEF LimitBounded, NegotiatedMaxPacketSize, AgreedSize, Lower, Requested
<1> QED
  BY <1>2, <1>3

(* The config a session runs with never changes. *)
LEMMA ConfigStays == [HandshakeNext]_handshakeVars => config' = config
  BY DEF HandshakeNext, TakePacket, TakeHello, Forget, handshakeVars

LEMMA TermsInitially == HandshakeInit => TermsOK
<1> SUFFICES ASSUME HandshakeInit PROVE TermsOK
  OBVIOUS
<1>1. PICK c \in Configs : config = Normalized(c)
  BY DEF HandshakeInit
<1>2. config.MaxPacketSize = Lower(Positive(c.MaxPacketSize, DefaultMaxPacketSize), LargestPacketSize)
  BY <1>1 DEF Normalized
<1>3. config.MaxPacketSize <= LargestPacketSize
  BY <1>2, ConfigsAssumption, PacketSizeAssumption DEF Lower, Positive
<1> QED
  BY <1>3 DEF TermsOK, HandshakeInit, NewClient

LEMMA TermsNext == AgreementIInv /\ TermsOK /\ [HandshakeNext]_handshakeVars => TermsOK'
<1> SUFFICES ASSUME AgreementIInv, TermsOK, [HandshakeNext]_handshakeVars PROVE TermsOK'
  OBVIOUS
<1>1. config' = config
  BY ConfigStays
<1> DEFINE Known(c) == c.wireVersion \in {0, ProtocolVersion}
<1>2. client = [wireProtocol |-> client.wireProtocol, wireNegotiated |-> client.wireNegotiated,
                wireVersion |-> client.wireVersion,
                wireCapabilities |-> client.wireCapabilities,
                maxPacketSize |-> client.maxPacketSize]
      /\ Known(client)
  BY DEF AgreementIInv, ClientOK, TermsOK
<1>3. CASE TakePacket
  BY <1>1, <1>2, <1>3 DEF TakePacket, MarkWireClient, Positive, ProtocolVersion, TermsOK
<1>4. ASSUME NEW hello \in Hellos, TakeHello(hello) PROVE TermsOK'
  <2> DEFINE sized == ApplyClientPacketSize(client, config, hello.size)
             welcome == NegotiateClientHello(config, hello)
  <2>1. CASE ~Negotiable(hello)
    BY <1>1, <1>4, <2>1 DEF TakeHello, Negotiated, TermsOK
  <2>2. CASE Negotiable(hello)
    <3>1. client' = ApplyNegotiatedWireState(sized, welcome)
      BY <1>4, <2>2 DEF TakeHello, Negotiated
    <3>2. welcome.version \in {0, ProtocolVersion}
      BY DEF NegotiateClientHello, Terms, NoTerms
    <3>3. sized = [client EXCEPT !.maxPacketSize = sized.maxPacketSize]
      BY <1>2 DEF ApplyClientPacketSize
    <3>4. sized.wireVersion = client.wireVersion /\ DOMAIN sized = DOMAIN client
      BY <1>2, <3>3
    <3> HIDE DEF welcome, sized
    <3>5. client'.wireVersion = IF welcome.version # 0 THEN welcome.version ELSE sized.wireVersion
      BY <1>2, <3>1, <3>4 DEF ApplyNegotiatedWireState
    <3> QED
      BY <1>1, <1>2, <3>2, <3>4, <3>5 DEF TermsOK
  <2> QED
    BY <2>1, <2>2
<1>5. CASE Forget
  BY <1>1, <1>5 DEF Forget, NewClient, TermsOK
<1>6. CASE UNCHANGED handshakeVars
  BY <1>6 DEF handshakeVars, TermsOK
<1> QED
  BY <1>3, <1>4, <1>5, <1>6 DEF HandshakeNext

LEMMA SessionInitIInv == SessionInit => SessionIInv
  BY InitEstablishes, TermsInitially DEF SessionInit, SessionIInv, InboxInv, CopyInv, NoMessages

LEMMA SessionNextIInv ==
    ASSUME SessionIInv, [SessionNext]_sessionVars, ServerReadsWhatWasSent'
    PROVE  SessionIInv'
<1>1. AgreementIInv /\ TermsOK /\ InboxInv /\ CopyInv
  BY DEF SessionIInv
<1>2. AgreementIInv' /\ TermsOK' /\ config' = config
  BY <1>1, SessionStep, StepPreserves, TermsNext, ConfigStays
<1>3. InboxInv'
  <2>1. CASE \E p \in ClientPackets : Receive(p)
    BY <1>1, <2>1, InboxOfPacket
  <2>2. CASE HandleNext
    BY <1>1, <2>2, InboxAfterHandling
  <2>3. CASE UNCHANGED inbox
    BY <1>1, <2>3 DEF InboxInv
  <2> QED
    BY <2>1, <2>2, <2>3 DEF SessionNext, Register, BeginSnapshot, WriteSnapshot, Expire, sessionVars
<1>4. CopyInv'
  <2>1. CASE BeginSnapshot
    <3>1. copy' = {[client |-> client, limit |-> AgreedSize]}
      BY <2>1 DEF BeginSnapshot
    <3> QED
      BY <1>1, <1>2, <3>1, LimitWithinAgreed DEF CopyInv, LimitBounded
  <2>2. CASE copy' = {} \/ copy' = copy
    BY <1>1, <1>2, <2>2 DEF CopyInv
  <2> QED
    BY <2>1, <2>2 DEF SessionNext, Receive, AcceptPacket, HandleNext, Register, WriteSnapshot,
                      Expire, sessionVars
<1> QED
  BY <1>2, <1>3, <1>4 DEF SessionIInv

LEMMA SessionInvariance == SessionSpec => []SessionIInv
<1>1. SessionIInv /\ [SessionNext]_sessionVars /\ ServerReadsWhatWasSent' => SessionIInv'
  BY SessionNextIInv
<1> QED
  BY <1>1, SessionInitIInv, ServerReadsHolds, PTL DEF SessionSpec

-----------------------------------------------------------------------------
(* The session keeps of a client what the handshake without bytes keeps:
   handleMessage takes no terms from a datagram that the client did not put
   into a hello. *)
THEOREM SessionImplementsHandshake == SessionSpec => ImplementsHandshake
<1>1. SessionInit => HandshakeInit
  BY DEF SessionInit
<1>2. SessionIInv /\ [SessionNext]_sessionVars => [HandshakeNext]_handshakeVars
  BY SessionStep DEF SessionIInv
<1> QED
  BY <1>1, <1>2, SessionInvariance, PTL DEF SessionSpec, HandshakeSpec, ImplementsHandshake

(* So the agreement of the handshake holds in the session. *)
COROLLARY SessionKeepsAgreement == SessionSpec => [](UsesOnlyAgreed /\ LimitIsLower)
  BY SessionImplementsHandshake, UsesOnlyAgreedHolds, LimitIsLowerHolds, PTL DEF ImplementsHandshake

-----------------------------------------------------------------------------
(* What the server writes, and what the client reads of it. *)

(* A datagram of one message that the client can read. *)
LEMMA WriteIsRead ==
    ASSUME RegistryInv, NEW out, NEW to, NEW agreed, Write(<<out>>, to, agreed),
           out.message.type \in DOMAIN registry.byType => Sendable(out)
    PROVE  ClientReadsWhatWasSent'
<1> DEFINE outs == <<out>>
           datagram == Datagram(registry, outs)
<1> SUFFICES ASSUME NEW w \in written'
             PROVE  /\ w.data \in Seq(Byte)
                    /\ Faithful(ClientRegistry, w.made, DecodeIncoming(ClientRegistry, w.data))
  BY DEF ClientReadsWhatWasSent
<1>1. datagram.ok /\ w.data = datagram.bytes /\ w.made = outs
  <2> HIDE DEF outs, datagram
  <2>1. written' = IF datagram.ok /\ Fits(datagram.bytes, to)
                   THEN {[data |-> datagram.bytes, made |-> outs, limit |-> agreed]}
                   ELSE {}
    BY DEF Write, WriteDatagram, datagram, outs
  <2> QED
    BY <2>1
<1>2. Len(outs) = 1 /\ outs[1] = out /\ outs \in Seq(Range(outs))
  BY DEF Range
<1> HIDE DEF outs
<1>3. Encodable(registry, outs[1])
  <2> DEFINE N == 1
  <2>1. N \in Nat /\ Len(outs) = N /\ 1 \in 1 .. N /\ Datagram(registry, outs).ok
    BY <1>1, <1>2
  <2> HIDE DEF N
  <2>2. \A n \in 1 .. N : Encodable(registry, outs[n])
    BY <2>1, DatagramFrames
  <2> QED
    BY <2>1, <2>2
<1>4. \A n \in 1 .. 1 : Sendable(outs[n])
  BY <1>2, <1>3 DEF Encodable
<1>5. AgreesWithClient(registry)
  BY DEF RegistryInv
<1>6. /\ Datagram(registry, outs).bytes \in Seq(Byte)
      /\ Faithful(ClientRegistry, outs,
                  DecodeIncoming(ClientRegistry, Datagram(registry, outs).bytes))
  BY <1>1, <1>2, <1>4, <1>5, ClientAgrees, DatagramRoundTrip
<1> QED
  BY <1>1, <1>6

(* A message that can be written is one the client can read, whatever class
   sendUDPResponse chooses for it. *)
Readable(m) ==
    /\ MessageTyped(m)
    /\ m.type \in DOMAIN ClientRegistry.byType => TreesRead(KnownLayout(m), m.body)

LEMMA ResponseIsRead ==
    ASSUME RegistryInv, NEW message, Readable(message),
           NEW delivery \in ReliableClasses \cup {Unreliable, Unwrapped},
           message.type \in DOMAIN registry.byType => message.type \in DOMAIN ClientRegistry.byType,
           NEW to, SendResponse(Outgoing(message, delivery), to)
    PROVE  ClientReadsWhatWasSent'
<1> DEFINE out == Outgoing(message, delivery)
           class == DeliveryOf(out, to)
           sent == [out EXCEPT !.delivery = class]
<1>1. out.message = message /\ out.delivery = delivery
  BY DEF Outgoing
<1>2. class \in ReliableClasses \cup {Unreliable}
  <2>1. \A type \in DOMAIN registry.byType :
           registry.byType[type].delivery \in ReliableClasses \cup {Unreliable}
    BY DEF RegistryInv
  <2>2. class \in {delivery, Unreliable}
        \/ (message.type \in DOMAIN registry.byType /\ class = registry.byType[message.type].delivery)
    BY <1>1 DEF DeliveryOf
  <2>3. class # Unwrapped
    <3>1. Unwrapped \notin ReliableClasses \cup {Unreliable}
      BY DEF Unwrapped, ReliableClasses, ReliableOrdered, ReliableUnordered, Unreliable
    <3> QED
      BY <1>1, <2>1, <3>1 DEF DeliveryOf
  <2> QED
    BY <2>1, <2>2, <2>3
<1>3. sent.message = message /\ sent.delivery = class
  BY DEF Outgoing
<1>4. Write(<<sent>>, to, AgreedSize')
  BY DEF SendResponse
<1> HIDE DEF sent, class
<1>5. message.type \in DOMAIN registry.byType => Sendable(sent)
  BY <1>2, <1>3, TypedIsSendable DEF Readable
<1> QED
  BY <1>3, <1>4, <1>5, WriteIsRead

-----------------------------------------------------------------------------
(* The answers the server makes itself: errors, pongs and welcomes. *)
LEMMA BuiltInReadable ==
    ASSUME NEW d \in BuiltIn, NEW body, BodyTyped(d.layout, body),
           \A j \in DOMAIN d.layout : d.layout[j] \notin TreeKinds
    PROVE  /\ Readable(Message(d.type, body))
           /\ d.type \in DOMAIN ClientRegistry.byType
<1> DEFINE m == Message(d.type, body)
<1>1. m.type = d.type /\ m.body = body /\ m = Message(m.type, m.body)
  BY DEF Message
<1> HIDE DEF m
<1>2. d.type \in DOMAIN ClientRegistry.byType /\ KnownLayout(m) = d.layout
  BY <1>1, KnownDefinition DEF KnownLayout
<1>3. MessageTyped(m) /\ TreesRead(KnownLayout(m), m.body)
  BY <1>1, <1>2 DEF MessageTyped, TreesRead, TreesReadBefore
<1> QED
  BY <1>2, <1>3 DEF Readable, m

LEMMA ErrorIsRead ==
    ASSUME RegistryInv, NEW to, SendResponse(Error, to)
    PROVE  ClientReadsWhatWasSent'
<1> DEFINE d == Definition(5, "ErrorMessage", CodeMessageLayout, Unreliable)
           body == <<1, <<33>>>>
<1>1. d \in BuiltIn /\ d.type = "ErrorMessage" /\ d.layout = <<"short", "string">>
  BY DEF BuiltIn, Definition, CodeMessageLayout
<1>2. 1 \in 0 .. Power[ShortLen] - 1 /\ 33 \in Byte
  <2>1. Power[ShortLen] \in Nat /\ 7 < Power[ShortLen]
    BY UsedWidths, HeaderAssumption DEF WireMessageReliable
  <2>2. 69 \in Byte
    <3>1. WireProtocolMagic[1] \in Byte /\ WireProtocolMagic[1] = 69
      BY HeaderAssumption DEF WireProtocolMagic
    <3> QED
      BY <3>1
  <2> QED
    BY <2>1, <2>2, WidthAssumption DEF Byte
<1>3. FieldTyped("short", 1) /\ FieldTyped("string", <<33>>)
  BY <1>2 DEF FieldTyped
<1> HIDE DEF d
<1>4. BodyTyped(d.layout, body) /\ \A j \in DOMAIN d.layout : d.layout[j] \notin TreeKinds
  BY <1>1, <1>3 DEF BodyTyped, TreeKinds
<1>5. Readable(Message("ErrorMessage", body)) /\ "ErrorMessage" \in DOMAIN ClientRegistry.byType
  BY <1>1, <1>4, BuiltInReadable
<1>6. Message("ErrorMessage", body).type = "ErrorMessage"
  BY DEF Message
<1> QED
  BY <1>5, <1>6, ResponseIsRead DEF Error

LEMMA PongIsRead ==
    ASSUME RegistryInv, NEW m, m.type = "Ping", BodyTyped(KnownLayout(m), m.body), NEW to,
           SendResponse(Outgoing(Message("Pong", m.body), Unwrapped), to)
    PROVE  ClientReadsWhatWasSent'
<1> DEFINE ping == Definition(3, "Ping", PingLayout, Unreliable)
           pong == Definition(4, "Pong", PongLayout, Unreliable)
<1>1. /\ ping \in BuiltIn /\ ping.type = "Ping" /\ ping.layout = <<"long">>
      /\ pong \in BuiltIn /\ pong.type = "Pong" /\ pong.layout = <<"long">>
  BY DEF BuiltIn, Definition, PingLayout, PongLayout
<1> HIDE DEF ping, pong
<1>2. KnownLayout(m) = pong.layout
  BY <1>1, KnownDefinition DEF KnownLayout
<1>3. \A j \in DOMAIN pong.layout : pong.layout[j] \notin TreeKinds
  BY <1>1 DEF TreeKinds
<1>4. Readable(Message("Pong", m.body)) /\ "Pong" \in DOMAIN ClientRegistry.byType
  BY <1>1, <1>2, <1>3, BuiltInReadable
<1>5. Message("Pong", m.body).type = "Pong"
  BY DEF Message
<1> QED
  BY <1>4, <1>5, ResponseIsRead

(* The negotiation fields of a welcome fit their widths. *)
TermsFit == UintsTyped(FieldsOf(WelcomeTerms(client, config)), NegotiationWidths)

LEMMA BitsFit ==
    ASSUME NEW S
    PROVE  Bits(S) \in Nat /\ Bits(S) < Power[LongLen]
<1>1. /\ CapabilityBit["delta"] = 1 /\ CapabilityBit["ordered"] = 2
      /\ CapabilityBit["unordered"] = 4 /\ CapabilityBit["future"] = 8
      /\ {"delta", "ordered", "unordered", "future"} = DOMAIN CapabilityBit
  BY DEF CapabilityBit
<1>2. Bits(S) \in 0 .. 15
  BY <1>1 DEF Bits
<1>3. Bits(DOMAIN CapabilityBit) = 15
  BY <1>1 DEF Bits
<1>4. Power[LongLen] \in Nat
  BY UsedWidths
<1> QED
  BY <1>2, <1>3, <1>4, TermsAssumption

LEMMA WelcomeFits == AgreementIInv /\ TermsOK => TermsFit
<1> SUFFICES ASSUME AgreementIInv, TermsOK PROVE TermsFit
  OBVIOUS
<1> DEFINE terms == WelcomeTerms(client, config)
<1>1. /\ config.MaxPacketSize \in Nat /\ client.maxPacketSize \in Nat
      /\ config.MaxPacketSize <= LargestPacketSize
  BY DEF AgreementIInv, ConfigOK, ClientOK, TermsOK
<1>2. terms.version \in {0, 1} /\ terms.size \in 0 .. LargestPacketSize
  <2>1. NegotiatedMaxPacketSize(client, config) \in 0 .. LargestPacketSize
    BY <1>1, PacketSizeAssumption DEF NegotiatedMaxPacketSize, Lower
  <2>2. client.wireVersion \in {0, 1}
    BY DEF TermsOK, ProtocolVersion
  <2>3. 0 \in 0 .. LargestPacketSize
    BY PacketSizeAssumption
  <2> QED
    BY <2>1, <2>2, <2>3 DEF WelcomeTerms, Terms, NoTerms
<1> HIDE DEF terms
<1>3. terms.version \in Nat /\ terms.version < Power[1]
  BY <1>2, UsedWidths, WidthAssumption
<1>4. terms.size \in Nat /\ terms.size < Power[WordLen]
  BY <1>2, UsedWidths, PacketSizeAssumption, TermsAssumption
<1> DEFINE bits == Bits(terms.capabilities)
<1>5. bits \in Nat /\ bits < Power[LongLen]
  BY BitsFit
<1> HIDE DEF bits
<1>6. UintsTyped(<<terms.version, bits, terms.size>>, <<1, LongLen, WordLen>>)
  BY <1>3, <1>4, <1>5 DEF UintsTyped
<1> QED
  BY <1>6 DEF TermsFit, FieldsOf, NegotiationWidths, terms, bits

LEMMA WelcomeFitsNext == AgreementIInv' /\ TermsOK' => TermsFit'
  BY WelcomeFits, PTL

LEMMA HelloAnswerIsRead ==
    ASSUME RegistryInv, AgreementIInv', TermsOK', NEW m, m.type = "ClientHello",
           BodyTyped(KnownLayout(m), m.body), HandleHello(m)
    PROVE  ClientReadsWhatWasSent'
<1> DEFINE hello == Definition(1, "ClientHello", ClientHelloLayout, Unreliable)
           welcome == Definition(2, "Welcome", WelcomeLayout, Unreliable)
           fields == FieldsOf(WelcomeTerms(client', config))
           name == m.body[1]
           body == <<name, name, fields>>
<1>1. /\ hello \in BuiltIn /\ hello.type = "ClientHello"
      /\ hello.layout = <<"string", "string", "negotiation">>
      /\ welcome \in BuiltIn /\ welcome.type = "Welcome"
      /\ welcome.layout = <<"string", "string", "negotiation">>
  BY DEF BuiltIn, Definition, ClientHelloLayout, WelcomeLayout
<1> HIDE DEF hello, welcome
<1>2. name \in Seq(Byte)
  <2>1. KnownLayout(m) = hello.layout
    BY <1>1, KnownDefinition DEF KnownLayout
  <2>2. FieldTyped("string", m.body[1])
    BY <1>1, <2>1 DEF BodyTyped
  <2> QED
    BY <2>2 DEF FieldTyped
<1>3. UintsTyped(fields, NegotiationWidths)
  <2>1. config' = config
    BY DEF HandleHello, TakeHello
  <2>2. TermsFit'
    BY WelcomeFitsNext
  <2> QED
    BY <2>1, <2>2 DEF TermsFit
<1> HIDE DEF name, fields
<1>4. BodyTyped(welcome.layout, body) /\ \A j \in DOMAIN welcome.layout : welcome.layout[j] \notin TreeKinds
  <2>1. FieldTyped("string", name) /\ FieldTyped("negotiation", fields)
    BY <1>2, <1>3 DEF FieldTyped
  <2> QED
    BY <1>1, <2>1 DEF BodyTyped, TreeKinds
<1>5. Readable(Message("Welcome", body)) /\ "Welcome" \in DOMAIN ClientRegistry.byType
  BY <1>1, <1>4, BuiltInReadable
<1>6. Message("Welcome", body).type = "Welcome"
  BY DEF Message
<1>7. SendResponse(Error, client') \/ SendResponse(Outgoing(Message("Welcome", body), Unwrapped), client')
  BY DEF HandleHello, name, fields
<1> HIDE DEF body
<1> QED
  BY <1>5, <1>6, <1>7, ErrorIsRead, ResponseIsRead

-----------------------------------------------------------------------------
(* The codec of values reads back what it writes in the fields that hold
   values, snapshots and references. *)
TreesReadBack == AnswersReadBefore(Seq(Byte))

LEMMA GameAnswerIsRead ==
    ASSUME TreesReadBack, RegistryInv, NEW out \in GameResponses, NEW to, SendResponse(out, to)
    PROVE  ClientReadsWhatWasSent'
<1>1. /\ out = Outgoing(out.message, out.delivery)
      /\ out.delivery \in ReliableClasses \cup {Unreliable, Unwrapped}
      /\ MessageTyped(out.message)
      /\ out.message.type \in {d.type : d \in Offered} =>
            out.message.type \in DOMAIN ClientRegistry.byType
  BY AnswersAssumption
<1>2. Readable(out.message)
  BY <1>1 DEF Readable, TreesReadBack, AnswersReadBefore, TreesRead
<1>3. ASSUME out.message.type \in DOMAIN registry.byType
      PROVE  out.message.type \in DOMAIN ClientRegistry.byType
  <2>1. PICK d \in BuiltIn \cup Offered : d.type = out.message.type
    BY <1>3 DEF RegistryInv
  <2>2. CASE d \in Offered
    BY <1>1, <2>1, <2>2
  <2>3. CASE d \in BuiltIn
    BY <2>1, <2>3, KnownDefinition
  <2> QED
    BY <2>2, <2>3
<1> QED
  BY <1>1, <1>2, <1>3, ResponseIsRead

LEMMA SnapshotIsRead ==
    ASSUME TreesReadBack, RegistryInv, NEW m \in Snapshots, WriteSnapshot(m)
    PROVE  ClientReadsWhatWasSent'
<1> DEFINE out == Outgoing(m, Unreliable)
<1>1. out.message = m /\ out.delivery = Unreliable
  BY DEF Outgoing
<1>2. PICK c \in copy : Write(<<out>>, c.client, c.limit)
  BY DEF WriteSnapshot
<1> HIDE DEF out
<1> DEFINE full == Definition(258, "WorldSnapshot", WorldSnapshotLayout, Unreliable)
           delta == Definition(262, "WorldDeltaSnapshot", WorldDeltaSnapshotLayout, Unreliable)
<1>3. full \in BuiltIn /\ full.type = "WorldSnapshot" /\ delta \in BuiltIn /\ delta.type = "WorldDeltaSnapshot"
  BY DEF BuiltIn, Definition
<1> HIDE DEF full, delta
<1>4. m.type \in DOMAIN ClientRegistry.byType /\ MessageTyped(m)
  BY <1>3, AnswersAssumption, KnownDefinition
<1>5. TreesRead(KnownLayout(m), m.body)
  BY <1>4 DEF TreesReadBack, AnswersReadBefore, TreesRead
<1>6. Sendable(out)
  BY <1>1, <1>4, <1>5, TypedIsSendable
<1> QED
  BY <1>2, <1>6, WriteIsRead

(* The client reads of a response or a snapshot what sendUDPResponse and
   sendClientSnapshot were given, whatever the client has negotiated and game
   code has registered by then, provided that the codec of values reads back
   the values inside: the envelope of delivery classes, the framing, the
   lookup of types and the encoders of all other fields take no part in any
   loss but that of a message ending in an empty field. *)
THEOREM ClientReadsHolds ==
    ASSUME TreesReadBack
    PROVE  SessionSpec => []ClientReadsWhatWasSent
<1>1. SessionInit => ClientReadsWhatWasSent
  BY DEF SessionInit, ClientReadsWhatWasSent
<1>2. /\ RegistryInv /\ SessionIInv /\ SessionIInv' /\ ClientReadsWhatWasSent
      /\ [SessionNext]_sessionVars
      => ClientReadsWhatWasSent'
  <2> SUFFICES ASSUME RegistryInv, SessionIInv, SessionIInv', ClientReadsWhatWasSent,
                      [SessionNext]_sessionVars
               PROVE  ClientReadsWhatWasSent'
    OBVIOUS
  <2>1. CASE HandleNext
    <3>1. PICK i \in DOMAIN inbox : HandleMessage(inbox[i].message)
      BY <2>1 DEF HandleNext
    <3> DEFINE m == inbox[i].message
    <3>2. m.type \in {"ClientHello", "Ping"} => BodyTyped(KnownLayout(m), m.body)
      BY DEF SessionIInv, InboxInv
    <3> HIDE DEF m
    <3>3. CASE m.type = "ClientHello" /\ HandleHello(m)
      BY <3>2, <3>3, HelloAnswerIsRead DEF SessionIInv
    <3>4. CASE m.type = "Ping" /\ SendResponse(Outgoing(Message("Pong", m.body), Unwrapped), client)
      BY <3>2, <3>4, PongIsRead
    <3>5. CASE \E out \in GameResponses \cup {Error} : SendResponse(out, client)
      BY <3>5, ErrorIsRead, GameAnswerIsRead
    <3>6. CASE written' = {}
      BY <3>6 DEF ClientReadsWhatWasSent
    <3> QED
      BY <3>1, <3>3, <3>4, <3>5, <3>6 DEF HandleMessage, HandleOther, m
  <2>2. ASSUME NEW m \in Snapshots, WriteSnapshot(m) PROVE ClientReadsWhatWasSent'
    BY <2>2, SnapshotIsRead
  <2>3. CASE written' = {}
    BY <2>3 DEF ClientReadsWhatWasSent
  <2>4. CASE UNCHANGED sessionVars
    BY <2>4 DEF ClientReadsWhatWasSent, sessionVars
  <2> QED
    BY <2>1, <2>2, <2>3, <2>4 DEF SessionNext, Receive, AcceptPacket, Register, BeginSnapshot, Expire
<1> QED
  BY <1>1, <1>2, RegistryInvariance, SessionInvariance, PTL DEF SessionSpec

-----------------------------------------------------------------------------
(* validateOutboundPacket lets through only what fits its limit. *)
LEMMA WriteFits ==
    ASSUME NEW outs, NEW to, NEW agreed \in Nat, Write(outs, to, agreed),
           NegotiatedMaxPacketSize(to, config) \in Nat,
           NegotiatedMaxPacketSize(to, config) <= agreed,
           ClientReadsWhatWasSent'
    PROVE  WithinAgreedSize'
<1> SUFFICES ASSUME NEW w \in written' PROVE Len(w.data) <= w.limit
  BY DEF WithinAgreedSize
<1> DEFINE datagram == Datagram(registry, outs)
<1>1. written' = IF datagram.ok /\ Fits(datagram.bytes, to)
                 THEN {[data |-> datagram.bytes, made |-> outs, limit |-> agreed]}
                 ELSE {}
  BY DEF Write, WriteDatagram
<1> HIDE DEF datagram
<1>2. w.limit = agreed /\ Len(w.data) <= NegotiatedMaxPacketSize(to, config)
  BY <1>1 DEF Fits
<1>3. Len(w.data) \in Nat
  BY DEF ClientReadsWhatWasSent
<1> QED
  BY <1>2, <1>3

(* A response goes to the client as the handled message has left it. *)
LEMMA LimitBoundedNext == AgreementIInv' => LimitBounded'
  BY LimitWithinAgreed, PTL

LEMMA ResponseFits ==
    ASSUME AgreementIInv', config' = config, NEW out, NEW to, to = client',
           SendResponse(out, to), ClientReadsWhatWasSent'
    PROVE  WithinAgreedSize'
<1>1. /\ NegotiatedMaxPacketSize(to, config) \in Nat /\ AgreedSize' \in Nat
      /\ NegotiatedMaxPacketSize(to, config) <= AgreedSize'
  BY LimitBoundedNext DEF LimitBounded
<1> QED
  BY <1>1, WriteFits DEF SendResponse

LEMMA WithinAgreedNext ==
    ASSUME SessionIInv, WithinAgreedSize, [SessionNext]_sessionVars,
           ServerReadsWhatWasSent', ClientReadsWhatWasSent'
    PROVE  WithinAgreedSize'
<1>1. AgreementIInv' /\ config' = config
  BY SessionNextIInv, SessionStep, ConfigStays DEF SessionIInv
<1>2. CASE HandleNext
  <2>1. PICK i \in DOMAIN inbox : HandleMessage(inbox[i].message)
    BY <1>2 DEF HandleNext
  <2> DEFINE m == inbox[i].message
  <2>2. CASE HandleHello(m)
    <3>1. \E out : SendResponse(out, client')
      BY <2>2 DEF HandleHello
    <3> QED
      BY <1>1, <3>1, ResponseFits
  <2>3. CASE UNCHANGED handshakeVars /\ \E out : SendResponse(out, client)
    BY <1>1, <2>3, ResponseFits DEF handshakeVars
  <2>4. CASE written' = {}
    BY <2>4 DEF WithinAgreedSize
  <2> QED
    BY <2>1, <2>2, <2>3, <2>4 DEF HandleMessage, HandleOther
<1>3. ASSUME NEW m \in Snapshots, WriteSnapshot(m) PROVE WithinAgreedSize'
  <2>1. PICK c \in copy : Write(<<Outgoing(m, Unreliable)>>, c.client, c.limit)
    BY <1>3 DEF WriteSnapshot
  <2>2. /\ NegotiatedMaxPacketSize(c.client, config) \in Nat /\ c.limit \in Nat
        /\ NegotiatedMaxPacketSize(c.client, config) <= c.limit
    BY DEF SessionIInv, CopyInv
  <2> QED
    BY <2>1, <2>2, WriteFits
<1>4. CASE written' = {}
  BY <1>4 DEF WithinAgreedSize
<1>5. CASE UNCHANGED sessionVars
  BY <1>5 DEF sessionVars, WithinAgreedSize
<1> QED
  BY <1>2, <1>3, <1>4, <1>5 DEF SessionNext, Receive, AcceptPacket, Register, BeginSnapshot, Expire

(* No datagram that sendWirePacket or sendClientSnapshot writes is larger than
   what the two sides agreed on, whatever hellos came between the tick
   goroutine's copy of the client and its write, and with every codec of
   values that reads back what it has written. *)
THEOREM WithinAgreedSizeHolds ==
    ASSUME TreesReadBack
    PROVE  SessionSpec => []WithinAgreedSize
<1>1. SessionInit => WithinAgreedSize
  BY DEF SessionInit, WithinAgreedSize
<1>2. /\ SessionIInv /\ WithinAgreedSize /\ [SessionNext]_sessionVars
      /\ ServerReadsWhatWasSent' /\ ClientReadsWhatWasSent'
      => WithinAgreedSize'
  BY WithinAgreedNext
<1>3. SessionSpec => []ClientReadsWhatWasSent
  BY ClientReadsHolds
<1> QED
  BY <1>1, <1>2, <1>3, SessionInvariance, ServerReadsHolds, PTL DEF SessionSpec

-----------------------------------------------------------------------------
(* A set of capabilities is what its bits say. *)
LEMMA BitsRoundTrip ==
    ASSUME NEW S \in SUBSET DOMAIN CapabilityBit
    PROVE  Capabilities(Bits(S)) = S
<1> DEFINE d == IF "delta" \in S THEN 1 ELSE 0
           o == IF "ordered" \in S THEN 1 ELSE 0
           u == IF "unordered" \in S THEN 1 ELSE 0
           f == IF "future" \in S THEN 1 ELSE 0
           bits == d + 2 * o + 4 * u + 8 * f
<1>1. /\ DOMAIN CapabilityBit = {"delta", "ordered", "unordered", "future"}
      /\ CapabilityBit["delta"] = 1 /\ CapabilityBit["ordered"] = 2
      /\ CapabilityBit["unordered"] = 4 /\ CapabilityBit["future"] = 8
  BY DEF CapabilityBit
<1>2. Bits(S) = bits
  BY <1>1 DEF Bits
<1>3. d \in {0, 1} /\ o \in {0, 1} /\ u \in {0, 1} /\ f \in {0, 1}
  OBVIOUS
<1>4. /\ d = 1 <=> "delta" \in S
      /\ o = 1 <=> "ordered" \in S
      /\ u = 1 <=> "unordered" \in S
      /\ f = 1 <=> "future" \in S
  OBVIOUS
<1> HIDE DEF d, o, u, f
<1>5. /\ (bits \div 1) % 2 = d /\ (bits \div 2) % 2 = o
      /\ (bits \div 4) % 2 = u /\ (bits \div 8) % 2 = f
  BY <1>3
<1> HIDE DEF bits
<1>6. \A c \in DOMAIN CapabilityBit : (bits \div CapabilityBit[c]) % 2 = 1 <=> c \in S
  BY <1>1, <1>4, <1>5
<1> QED
  BY <1>2, <1>6 DEF Capabilities

(* What is put into a hello or a welcome is what is taken out of it. *)
LEMMA TermsRoundTrip ==
    ASSUME NEW version, NEW capabilities \in SUBSET DOMAIN CapabilityBit, NEW size
    PROVE  TermsOf(FieldsOf(Terms(version, capabilities, size)))
             = Terms(version, capabilities, size)
  BY BitsRoundTrip DEF TermsOf, FieldsOf, Terms

(* The welcome that answers a hello with terms states what was agreed. *)
LEMMA WelcomeOfHello ==
    ASSUME AgreementIInv, NEW hello \in Hellos, TakeHello(hello), Negotiable(hello),
           Requested(hello), hello.capabilities \subseteq DOMAIN CapabilityBit
    PROVE  TermsOf(FieldsOf(WelcomeTerms(client', config)))
             = Terms(ProtocolVersion, Agreed', AgreedSize')
<1>1. /\ asked' = hello /\ config' = config
      /\ client'.wireNegotiated /\ client'.wireVersion = ProtocolVersion
      /\ client'.wireCapabilities = Agreed' /\ client'.maxPacketSize = AgreedSize'
  BY HelloRecords DEF TakeHello
<1>2. Agreed' \subseteq DOMAIN CapabilityBit
  BY <1>1 DEF Agreed
<1>3. NegotiatedMaxPacketSize(client', config) = AgreedSize'
  <2>1. hello.size \in Nat /\ config.MaxPacketSize \in Nat \ {0}
    BY HellosAssumption DEF AgreementIInv, ConfigOK
  <2>2. AgreedSize' = IF hello.size > 0 THEN Lower(hello.size, config.MaxPacketSize)
                      ELSE config.MaxPacketSize
    BY <1>1 DEF AgreedSize
  <2> QED
    BY <1>1, <2>1, <2>2 DEF NegotiatedMaxPacketSize, Lower
<1>4. WelcomeTerms(client', config) = Terms(ProtocolVersion, Agreed', AgreedSize')
  BY <1>1, <1>3 DEF WelcomeTerms
<1> QED
  BY <1>2, <1>4, TermsRoundTrip

(* The client reads the negotiation fields that the server has written. *)
LEMMA WelcomeIsRead ==
    ASSUME NEW made, NEW read, Faithful(ClientRegistry, made, read), read.ok,
           1 \in DOMAIN made, made[1].message.type = "Welcome"
    PROVE  read.value[1].message.body[3] = made[1].message.body[3]
<1> DEFINE d == Definition(2, "Welcome", WelcomeLayout, Unreliable)
<1>1. d \in Negotiations /\ d \in BuiltIn /\ d.type = "Welcome"
  BY DEF Negotiations, BuiltIn, Definition
<1>2. d.id \in DOMAIN ClientRegistry.byID
  BY <1>1, KnownDefinition
<1>3. read.value = [i \in DOMAIN made |-> SeenAs(ClientRegistry, made[i])]
  BY DEF Faithful
<1>4. SeenAs(ClientRegistry, made[1]).message.body[3] = made[1].message.body[3]
  BY <1>1, <1>2, NegotiationIsSeen
<1> QED
  BY <1>3, <1>4

(* sendUDPResponse may change the class of a response, not its message. *)
LEMMA ResponseMade ==
    ASSUME NEW message, NEW delivery, NEW to, SendResponse(Outgoing(message, delivery), to)
    PROVE  \A w \in written' : 1 \in DOMAIN w.made /\ w.made[1].message = message
<1> DEFINE out == Outgoing(message, delivery)
           outs == <<[out EXCEPT !.delivery = DeliveryOf(out, to)]>>
<1>1. \A w \in written' : w.made = outs
  <2> HIDE DEF outs
  <2>1. Write(outs, to, AgreedSize')
    BY DEF SendResponse, outs
  <2> QED
    BY <2>1 DEF Write, WriteDatagram
<1>2. outs[1].message = message /\ 1 \in DOMAIN outs
  BY DEF Outgoing
<1> QED
  BY <1>1, <1>2

LEMMA NoWelcomeWritten ==
    ASSUME \A w \in written' : w.made[1].message.type # "Welcome"
    PROVE  WelcomeStatesAgreement'
  BY DEF WelcomeStatesAgreement

LEMMA WelcomeAfterHello ==
    ASSUME SessionIInv, NEW m, m.type = "ClientHello", HelloTerms(m) \in Hellos,
           HandleHello(m), ClientReadsWhatWasSent'
    PROVE  WelcomeStatesAgreement'
<1> DEFINE hello == HelloTerms(m)
           terms == WelcomeTerms(client', config)
           answer == Message("Welcome", <<m.body[1], m.body[1], FieldsOf(terms)>>)
<1>1. TakeHello(hello)
  BY DEF HandleHello
<1>2. CASE SendResponse(Error, client')
  <2> DEFINE error == Message("ErrorMessage", <<1, <<33>>>>)
  <2>1. error.type # "Welcome"
    BY DEF Message
  <2> HIDE DEF error
  <2>2. \A w \in written' : w.made[1].message = error
    <3>1. SendResponse(Outgoing(error, Unwrapped), client')
      BY <1>2 DEF Error, error
    <3> QED
      BY <3>1, ResponseMade
  <2> QED
    BY <2>1, <2>2, NoWelcomeWritten
<1>3. CASE Negotiable(hello) /\ SendResponse(Outgoing(answer, Unwrapped), client')
  <2> SUFFICES ASSUME NEW w \in written', Requested(asked'),
                      DecodeIncoming(ClientRegistry, w.data).ok
               PROVE  TermsOf(DecodeIncoming(ClientRegistry, w.data).value[1].message.body[3])
                        = Terms(ProtocolVersion, Agreed', AgreedSize')
    BY DEF WelcomeStatesAgreement
  <2>1. answer.type = "Welcome" /\ answer.body[3] = FieldsOf(terms)
    BY DEF Message
  <2> HIDE DEF answer
  <2>2. 1 \in DOMAIN w.made /\ w.made[1].message = answer
    BY <1>3, ResponseMade
  <2>3. Faithful(ClientRegistry, w.made, DecodeIncoming(ClientRegistry, w.data))
    BY DEF ClientReadsWhatWasSent
  <2>4. DecodeIncoming(ClientRegistry, w.data).value[1].message.body[3] = FieldsOf(terms)
    BY <2>1, <2>2, <2>3, WelcomeIsRead
  <2>5. AgreementIInv /\ asked' = hello
    BY <1>1, <1>3, HelloRecords DEF SessionIInv
  <2>6. hello.capabilities \subseteq DOMAIN CapabilityBit
    BY DEF HelloTerms, TermsOf, Terms, Capabilities
  <2>7. TermsOf(FieldsOf(terms)) = Terms(ProtocolVersion, Agreed', AgreedSize')
    BY <1>1, <1>3, <2>5, <2>6, WelcomeOfHello
  <2> QED
    BY <2>4, <2>7
<1> QED
  BY <1>2, <1>3 DEF HandleHello

LEMMA WelcomeNext ==
    ASSUME RegistryInv, SessionIInv, SessionIInv', WelcomeStatesAgreement, [SessionNext]_sessionVars
    PROVE  WelcomeStatesAgreement'
<1>1. CASE HandleNext
  <2>1. PICK i \in DOMAIN inbox : HandleMessage(inbox[i].message)
    BY <1>1 DEF HandleNext
  <2> DEFINE m == inbox[i].message
  <2>2. CASE m.type = "ClientHello" /\ HandleHello(m)
    <3>1. HelloTerms(m) \in Hellos /\ BodyTyped(KnownLayout(m), m.body)
      BY <2>2 DEF SessionIInv, InboxInv
    <3>2. ClientReadsWhatWasSent'
      BY <2>2, <3>1, HelloAnswerIsRead DEF SessionIInv
    <3> QED
      BY <2>2, <3>1, <3>2, WelcomeAfterHello
  <2>3. ASSUME NEW message, NEW delivery, message.type # "Welcome",
               SendResponse(Outgoing(message, delivery), client)
        PROVE  WelcomeStatesAgreement'
    BY <2>3, ResponseMade, NoWelcomeWritten
  <2>4. CASE SendResponse(Outgoing(Message("Pong", m.body), Unwrapped), client)
    BY <2>3, <2>4 DEF Message
  <2>5. CASE \E out \in GameResponses \cup {Error} : SendResponse(out, client)
    <3>1. PICK out \in GameResponses \cup {Error} : SendResponse(out, client)
      BY <2>5
    <3>2. out = Outgoing(out.message, out.delivery) /\ out.message.type # "Welcome"
      BY AnswersAssumption DEF Error, Outgoing, Message
    <3> QED
      BY <2>3, <3>1, <3>2
  <2>6. CASE written' = {}
    BY <2>6, NoWelcomeWritten
  <2> QED
    BY <2>1, <2>2, <2>4, <2>5, <2>6 DEF HandleMessage, HandleOther
<1>2. ASSUME NEW m \in Snapshots, WriteSnapshot(m) PROVE WelcomeStatesAgreement'
  <2> DEFINE outs == <<Outgoing(m, Unreliable)>>
  <2>1. outs[1].message.type # "Welcome"
    BY AnswersAssumption DEF Outgoing
  <2> HIDE DEF outs
  <2>2. \E c \in copy : Write(outs, c.client, c.limit)
    BY <1>2 DEF WriteSnapshot, outs
  <2>3. \A w \in written' : w.made = outs
    BY <2>2 DEF Write, WriteDatagram
  <2> QED
    BY <2>1, <2>3, NoWelcomeWritten
<1>3. CASE written' = {}
  BY <1>3, NoWelcomeWritten
<1>4. CASE UNCHANGED sessionVars
  BY <1>4 DEF sessionVars, WelcomeStatesAgreement, Agreed, AgreedSize
<1> QED
  BY <1>1, <1>2, <1>3, <1>4 DEF SessionNext, Receive, AcceptPacket, Register, BeginSnapshot, Expire

(* The Welcome that answers a hello with terms, once read by the client, says
   what applyNegotiatedWireState has recorded of that very hello: earlier
   hellos, failed authentications and expired sessions leave no trace in it. *)
THEOREM WelcomeStatesAgreementHolds == SessionSpec => []WelcomeStatesAgreement
<1>1. SessionInit => WelcomeStatesAgreement
  BY DEF SessionInit, WelcomeStatesAgreement
<1>2. /\ RegistryInv /\ SessionIInv /\ SessionIInv' /\ WelcomeStatesAgreement
      /\ [SessionNext]_sessionVars
      => WelcomeStatesAgreement'
  BY WelcomeNext
<1> QED
  BY <1>1, <1>2, RegistryInvariance, SessionInvariance, PTL DEF SessionSpec
=============================================================================
