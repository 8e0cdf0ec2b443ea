---------------------- MODULE SnapshotBroadcastProofs ----------------------
(***************************************************************************)
(* Full and delta snapshots, for every set of clients, objects and values, *)
(* every drop order, full-snapshot interval and set of limits.             *)
(***************************************************************************)
EXTENDS SnapshotBroadcast, FiniteSetTheorems, WellFoundedInduction, TLAPS

Baselines == [tick : Nat, snapshot : Views, sinceFull : Nat]

InFlight == encoding \cup outbox

Typed ==
    /\ tick \in Nat /\ live \subseteq Clients /\ todo \subseteq live
    /\ baseline \in [Clients -> Baselines \cup {None}]
    /\ \A m \in InFlight : /\ m.client \in live /\ m.tick \in Nat /\ m.view \in Views
                           /\ m.kind \in {"full", "delta"}
    /\ \A m, n \in encoding : m = n
    /\ clientTick \in [Clients -> Nat] /\ DOMAIN clientView = Clients
    /\ seen \in Views
    /\ mustFull \in [Clients -> {"no", "reset", "raced"}]
    /\ raced \in [Clients -> BOOLEAN] /\ deltas \in [Clients -> Nat]

(* While no reset met an uncommitted snapshot, sinceFull counts the deltas,
   and a delta is encoded only below the interval. *)
CycleInv ==
    \A c \in Clients : ~raced[c] =>
        /\ deltas[c] <= FullInterval - 1
        /\ baseline[c] # None => baseline[c].sinceFull = deltas[c]
        /\ \A m \in encoding : m.client = c /\ m.kind = "delta" =>
              baseline[c] # None /\ baseline[c].sinceFull + 1 < FullInterval

(* A client that waits for a full snapshot after a reset has no baseline,
   and no commit is about to give it one. *)
ResetInv ==
    \A c \in Clients : mustFull[c] = "reset" =>
        baseline[c] = None /\ \A m \in encoding : m.client # c

(* What is encoded is the view that was seen, or its tail in drop order. *)
TrimInv ==
    \A m \in encoding : m.view = seen \/ \E k \in Nat : m.view = FilterView(seen, k)

(* A client is either still to do, or has one snapshot on its way, or none;
   what is on its way turns what the client has into the baseline, unless a
   snapshot before it was committed and not written. *)
DeliveryInv ==
    /\ \A c \in Clients \ live : baseline[c] = None
    /\ \A m \in InFlight : m.client \notin todo
    /\ \A m \in encoding, n \in outbox : m.client # n.client
    /\ \A m, n \in outbox : m.client = n.client => m = n
    /\ \A c \in Clients \ unsent : baseline[c] # None /\ (\A n \in outbox : n.client # c) =>
          clientTick[c] = baseline[c].tick /\ clientView[c] = baseline[c].snapshot
    /\ \A n \in outbox : baseline[n.client] # None =>
          baseline[n.client].tick = n.tick /\ baseline[n.client].snapshot = n.view
    /\ \A m \in InFlight : m.kind = "delta" /\ m.client \notin unsent =>
          ApplySnapshotDelta(clientView[m.client], m.delta) = m.view

IInv == Typed /\ CycleInv /\ ResetInv /\ TrimInv

-----------------------------------------------------------------------------
(* The operators. *)

(* A delta against what the client has gives the client the current view,
   also where values count as changed that are not (BuildSnapshotDelta). *)
LEMMA DeltaRoundTrip ==
    ASSUME NEW previous \in Views, NEW current \in Views, NEW unsorted
    PROVE  ApplySnapshotDelta(previous, BuildSnapshotDelta(previous, current, unsorted)) = current
<1> DEFINE news == DOMAIN current \ DOMAIN previous
           both == {x \in DOMAIN current \cap DOMAIN previous :
                      ~SnapshotValuesEqual(x, previous[x], current[x], unsorted)}
           delta == BuildSnapshotDelta(previous, current, unsorted)
           result == ApplySnapshotDelta(previous, delta)
<1>1. /\ delta.spawned = [o \in news |-> current[o]]
      /\ delta.changed = [o \in both |-> current[o]]
      /\ delta.despawned = DOMAIN previous \ DOMAIN current
  BY DEF BuildSnapshotDelta
<1>2. current = [o \in DOMAIN current |-> current[o]]
  BY DEF Views
<1>3. (DOMAIN previous \ (DOMAIN previous \ DOMAIN current)) \cup news \cup both = DOMAIN current
  OBVIOUS
<1>4. \A o \in DOMAIN current \ (news \cup both) : previous[o] = current[o]
  BY DEF SnapshotValuesEqual
<1> HIDE DEF news, both, delta
<1>5. DOMAIN delta.spawned = news /\ DOMAIN delta.changed = both
  BY <1>1
<1>6. result = [o \in DOMAIN current |->
                  IF o \in news THEN delta.spawned[o]
                  ELSE IF o \in both THEN delta.changed[o] ELSE previous[o]]
  BY <1>1, <1>3, <1>5 DEF ApplySnapshotDelta
<1>7. \A o \in DOMAIN current : (IF o \in news THEN delta.spawned[o]
                                 ELSE IF o \in both THEN delta.changed[o]
                                 ELSE previous[o]) = current[o]
  BY <1>1, <1>4
<1> HIDE DEF result
<1>8. result = [o \in DOMAIN current |-> current[o]]
  BY <1>6, <1>7
<1> QED
  BY <1>2, <1>8 DEF result, delta

LEMMA EmptyViewTyped == EmptyView \in Views
<1>1. EmptyView \in [{} -> Values] /\ {} \in SUBSET Objects
  BY DEF EmptyView
<1> QED
  BY <1>1 DEF Views

LEMMA FilterViewTyped ==
    ASSUME NEW view \in Views, NEW k
    PROVE  FilterView(view, k) \in Views
<1> DEFINE kept == {i \in Candidates(view) : Cardinality({j \in Candidates(view) : j < i}) >= k}
           names == {DropOrder[i] : i \in kept}
<1>1. names \subseteq DOMAIN view
  BY DEF Candidates
<1>2. FilterView(view, k) = [o \in names |-> view[o]]
  BY DEF FilterView
<1>3. PICK S \in SUBSET Objects : view \in [S -> Values]
  BY DEF Views
<1> HIDE DEF names
<1>4. names \in SUBSET Objects /\ [o \in names |-> view[o]] \in [names -> Values]
  BY <1>1, <1>3
<1> QED
  BY <1>2, <1>4 DEF Views

(* Dropping the first candidates keeps whatever comes later than something
   kept. *)
LEMMA FilterKeepsTail ==
    ASSUME NEW view, NEW k \in Nat, NEW i \in DOMAIN DropOrder, NEW j \in DOMAIN DropOrder,
           DropOrder[i] \in DOMAIN FilterView(view, k), DropOrder[j] \in DOMAIN view, i <= j
    PROVE  DropOrder[j] \in DOMAIN FilterView(view, k)
<1> DEFINE Earlier(n) == {l \in Candidates(view) : l < n}
           kept == {n \in Candidates(view) : Cardinality(Earlier(n)) >= k}
<1>1. /\ DOMAIN FilterView(view, k) = {DropOrder[n] : n \in kept}
      /\ Candidates(view) \subseteq DOMAIN DropOrder
  BY DEF FilterView, Candidates
<1>2. DOMAIN DropOrder = 1 .. Len(DropOrder) /\ Len(DropOrder) \in Nat
  BY DropOrderAssumption
<1>3. IsFiniteSet(DOMAIN DropOrder)
  BY <1>2, FS_Interval
<1>4. \A n : IsFiniteSet(Earlier(n)) /\ Cardinality(Earlier(n)) \in Nat
  <2> TAKE n
  <2>1. Earlier(n) \subseteq DOMAIN DropOrder
    BY <1>1
  <2> HIDE DEF Earlier
  <2> QED
    BY <1>3, <2>1, FS_Subset, FS_CardinalityType
<1>5. i \in kept
  BY <1>1, DropOrderAssumption
<1>6. Earlier(i) \subseteq Earlier(j)
  BY <1>1, <1>2
<1>7. j \in Candidates(view)
  BY DEF Candidates
<1> HIDE DEF Earlier
<1>8. Cardinality(Earlier(i)) <= Cardinality(Earlier(j))
  BY <1>4, <1>6, FS_Subset
<1>9. Cardinality(Earlier(j)) >= k
  BY <1>4, <1>5, <1>8
<1> QED
  BY <1>1, <1>7, <1>9

LEMMA LeastNumber ==
    ASSUME NEW T, T \subseteq Nat, T # {}
    PROVE  (CHOOSE t \in T : \A s \in T : t <= s) \in T
<1>1. IsWellFoundedOn(OpToRel(<, Nat), Nat)
  BY NatLessThanWellFounded
<1>2. PICK t \in T : \A s \in T : ~(<<s, t>> \in OpToRel(<, Nat))
  BY <1>1, WFMin
<1>3. \A s \in T : ~(s < t)
  BY <1>2 DEF OpToRel
<1>4. \A s \in T : t <= s
  BY <1>3
<1> QED
  BY <1>4

(* What one packet of encodeUDPSnapshot says. *)
LEMMA EncodedFields ==
    ASSUME NEW c, NEW view, NEW unsorted
    PROVE  LET m == EncodeUDPSnapshot(c, view, unsorted)
           IN  /\ m.client = c /\ m.tick = tick /\ m.view = view
               /\ m.kind \in {"full", "delta"}
               /\ m.kind = "delta" =>
                     /\ baseline[c] # None /\ ~ShouldSendFull(baseline[c])
                     /\ m.delta = BuildSnapshotDelta(baseline[c].snapshot, view, unsorted)
  BY DEF EncodeUDPSnapshot

(* encodeBudgetedUDPSnapshot yields at most one packet: of the whole view,
   or of its tail. *)
LEMMA EncodedForClient ==
    ASSUME NEW c, NEW view, NEW limit
    PROVE  \/ EncodeForClient(c, view, limit) = {}
           \/ EncodeForClient(c, view, limit) = {EncodeUDPSnapshot(c, view, Reordered)}
           \/ \E k \in Nat : EncodeForClient(c, view, limit)
                                = {EncodeUDPSnapshot(c, FilterView(view, k), {})}
<1> DEFINE trimmed(k) == EncodeUDPSnapshot(c, FilterView(view, k), {})
           fits == {k \in 1 .. Cardinality(DOMAIN view) : Size(trimmed(k)) <= limit}
           least == CHOOSE k \in fits : \A j \in fits : k <= j
<1>1. Filtered(c, view, limit) = IF limit = 0 \/ fits = {} THEN {} ELSE {trimmed(least)}
  BY DEF Filtered
<1>2. fits # {} => least \in Nat
  <2>1. fits \subseteq Nat
    OBVIOUS
  <2> HIDE DEF fits
  <2> QED
    BY <2>1, LeastNumber
<1> HIDE DEF fits, least
<1>3. Filtered(c, view, limit) = {} \/ \E k \in Nat : Filtered(c, view, limit) = {trimmed(k)}
  BY <1>1, <1>2
<1> QED
  BY <1>3 DEF EncodeForClient

(* One client's turn in the broadcast. *)
LEMMA EncodeEffect ==
    ASSUME Typed, NEW c \in Clients, Encode(c)
    PROVE  /\ c \in todo /\ todo' = todo \ {c} /\ encoding = {} /\ seen' \in Views
           /\ \A m, n \in encoding' : m = n
           /\ \A m \in encoding' :
                 /\ m.client = c /\ m.tick = tick /\ m.view \in Views
                 /\ m.kind \in {"full", "delta"}
                 /\ m.kind = "delta" =>
                       /\ baseline[c] # None /\ ~ShouldSendFull(baseline[c])
                       /\ \E unsorted : m.delta = BuildSnapshotDelta(baseline[c].snapshot,
                                                                     m.view, unsorted)
                 /\ m.view = seen' \/ \E k \in Nat : m.view = FilterView(seen', k)
<1>1. c \in todo /\ todo' = todo \ {c} /\ encoding = {}
  BY DEF Encode
<1>2. PICK view \in Views, limit \in Limits :
         /\ encoding' = EncodeForClient(c, view, limit) \/ encoding' = {}
         /\ seen' = IF encoding' = {} THEN EmptyView ELSE view
  BY DEF Encode
<1>3. EmptyView \in Views
  BY EmptyViewTyped
<1>4. seen' \in Views
  BY <1>2, <1>3
<1>5. CASE encoding' = {}
  BY <1>1, <1>4, <1>5
<1>6. ASSUME NEW v, NEW unsorted, encoding' = {EncodeUDPSnapshot(c, v, unsorted)},
             v = view \/ \E k \in Nat : v = FilterView(view, k)
      PROVE  /\ \A m, n \in encoding' : m = n
             /\ \A m \in encoding' :
                   /\ m.client = c /\ m.tick = tick /\ m.view \in Views
                   /\ m.kind \in {"full", "delta"}
                   /\ m.kind = "delta" =>
                         /\ baseline[c] # None /\ ~ShouldSendFull(baseline[c])
                         /\ \E u : m.delta = BuildSnapshotDelta(baseline[c].snapshot, m.view, u)
                   /\ m.view = seen' \/ \E k \in Nat : m.view = FilterView(seen', k)
  <2> DEFINE m == EncodeUDPSnapshot(c, v, unsorted)
  <2>1. /\ m.client = c /\ m.tick = tick /\ m.view = v /\ m.kind \in {"full", "delta"}
        /\ m.kind = "delta" =>
              /\ baseline[c] # None /\ ~ShouldSendFull(baseline[c])
              /\ m.delta = BuildSnapshotDelta(baseline[c].snapshot, v, unsorted)
    BY EncodedFields
  <2>2. v \in Views
    BY <1>6, FilterViewTyped
  <2>3. seen' = view
    BY <1>2, <1>6
  <2> HIDE DEF m
  <2>4. encoding' = {m}
    BY <1>6 DEF m
  <2>5. m.kind = "delta" => \E u : m.delta = BuildSnapshotDelta(baseline[c].snapshot, m.view, u)
    BY <2>1
  <2>6. m.view = seen' \/ \E k \in Nat : m.view = FilterView(seen', k)
    BY <1>6, <2>1, <2>3
  <2> QED
    BY <2>1, <2>2, <2>4, <2>5, <2>6
<1>7. CASE encoding' = EncodeForClient(c, view, limit) /\ encoding' # {}
  <2>1. CASE EncodeForClient(c, view, limit) = {EncodeUDPSnapshot(c, view, Reordered)}
    BY <1>1, <1>4, <1>6, <1>7, <2>1
  <2>2. CASE \E k \in Nat : EncodeForClient(c, view, limit)
                              = {EncodeUDPSnapshot(c, FilterView(view, k), {})}
    BY <1>1, <1>4, <1>6, <1>7, <2>2
  <2> QED
    BY <1>7, <2>1, <2>2, EncodedForClient
<1> QED
  BY <1>2, <1>5, <1>7

-----------------------------------------------------------------------------
(* Steps that only touch the receive goroutine's side: a reset, or nothing.  *)

(* ResetBaseline, as the receive goroutine's operations call it. *)
LEMMA ResetEffect ==
    ASSUME Typed, NEW c \in Clients, ResetBaseline(c)
    PROVE  /\ baseline' = [baseline EXCEPT ![c] = None]
           /\ mustFull' \in [Clients -> {"no", "reset", "raced"}]
           /\ raced' \in [Clients -> BOOLEAN]
           /\ \A d \in Clients \ {c} : mustFull'[d] = mustFull[d] /\ raced'[d] = raced[d]
           /\ mustFull'[c] = "reset" => \A m \in encoding : m.client # c
           /\ ~raced'[c] => ~raced[c] /\ \A m \in encoding : m.client # c
<1>1. baseline' = [baseline EXCEPT ![c] = None]
  BY DEF ResetBaseline, DeleteBaseline
<1>2. CASE c \in {m.client : m \in encoding}
  BY <1>1, <1>2 DEF ResetBaseline, ClientsOf, Typed
<1>3. CASE c \notin {m.client : m \in encoding}
  BY <1>1, <1>3 DEF ResetBaseline, ClientsOf, Typed
<1> QED
  BY <1>2, <1>3

LEMMA InitIInv == Init => IInv /\ DeliveryInv
<1> SUFFICES ASSUME Init PROVE IInv /\ DeliveryInv
  OBVIOUS
<1>2. Typed
  BY EmptyViewTyped DEF Init, Typed, InFlight
<1>3. CycleInv
  BY FullIntervalAssumption DEF Init, CycleInv
<1>4. ResetInv /\ TrimInv
  BY DEF Init, ResetInv, TrimInv
<1>5. DeliveryInv
  BY DEF Init, DeliveryInv, InFlight
<1> QED
  BY <1>2, <1>3, <1>4, <1>5 DEF IInv

(* A step of the receive goroutine. *)
Received(c) == Connect(c) \/ Authenticate(c) \/ MarkWireClient(c) \/ SwitchScene(c)

LEMMA ReceivedEffect ==
    ASSUME NEW c \in Clients, Received(c)
    PROVE  /\ UNCHANGED <<tick, todo, encoding, outbox, seen, deltas, unsent>>
           /\ \/ Connect(c)
              \/ /\ c \in live /\ UNCHANGED <<live, clientTick, clientView>>
                 /\ ResetBaseline(c) \/ UNCHANGED <<baseline, mustFull, raced>>
  BY DEF Received, Connect, Authenticate, MarkWireClient, SwitchScene, ResetAllowed, goroutine

LEMMA CommitEffect ==
    ASSUME Typed, Commit
    PROVE  \E m \in encoding :
              /\ encoding = {m} /\ encoding' = {} /\ outbox' = outbox \cup {m}
              /\ baseline' = [baseline EXCEPT ![m.client] =
                    [tick |-> m.tick, snapshot |-> m.view, sinceFull |-> SinceFull(m)]]
              /\ deltas' = [deltas EXCEPT ![m.client] =
                    IF m.kind = "full" THEN 0 ELSE deltas[m.client] + 1]
              /\ raced' = [raced EXCEPT ![m.client] = raced[m.client] /\ m.kind = "delta"]
              /\ seen' = EmptyView
              /\ SinceFull(m) \in Nat /\ m.client \in Clients
<1>1. PICK m \in encoding :
          /\ baseline' = [baseline EXCEPT ![m.client] =
                [tick |-> m.tick, snapshot |-> m.view, sinceFull |-> SinceFull(m)]]
          /\ outbox' = outbox \cup {m}
          /\ deltas' = [deltas EXCEPT ![m.client] = IF m.kind = "full" THEN 0 ELSE @ + 1]
          /\ raced' = [raced EXCEPT ![m.client] = @ /\ m.kind = "delta"]
  BY DEF Commit
<1>2. encoding = {m} /\ m.client \in Clients
  BY DEF Typed, InFlight
<1>3. encoding' = {} /\ seen' = EmptyView
  BY DEF Commit
<1>4. SinceFull(m) \in Nat
  <2>1. baseline[m.client] # None => baseline[m.client] \in Baselines
    BY <1>2 DEF Typed
  <2>2. baseline[m.client] # None => baseline[m.client].sinceFull \in Nat
    BY <2>1 DEF Baselines
  <2> QED
    BY <2>2 DEF SinceFull
<1> QED
  BY <1>1, <1>2, <1>3, <1>4

LEMMA NextTyped ==
    ASSUME Typed, [Next]_vars
    PROVE  Typed'
<1>1. CASE UNCHANGED vars
  BY <1>1 DEF vars, Typed, InFlight
<1>2. CASE BeginBroadcast
  <2>1. PICK gone \in SUBSET live : RemoveStaleClients(gone)
    BY <1>2 DEF BeginBroadcast
  <2>2. /\ live' = live \ gone /\ todo' = live' /\ tick' = tick + 1
        /\ encoding = {} /\ outbox = {} /\ UNCHANGED <<encoding, outbox, history>>
    BY <1>2, <2>1 DEF BeginBroadcast, RemoveStaleClients, Resting
  <2>3. baseline' \in [Clients -> Baselines \cup {None}]
    BY <2>1 DEF RemoveStaleClients, Typed
  <2> QED
    BY <2>2, <2>3 DEF Typed, InFlight, history
<1>3. ASSUME NEW c \in Clients, Encode(c) PROVE Typed'
  <2>1. /\ UNCHANGED <<tick, live, baseline, outbox, clientTick, clientView, raced, deltas>>
        /\ mustFull' = [mustFull EXCEPT ![c] = IF encoding' = {} THEN mustFull[c] ELSE "no"]
    BY <1>3 DEF Encode
  <2>2. mustFull' \in [Clients -> {"no", "reset", "raced"}]
    BY <2>1 DEF Typed
  <2>3. \A m \in InFlight' : /\ m.client \in live /\ m.tick \in Nat /\ m.view \in Views
                             /\ m.kind \in {"full", "delta"}
    BY <1>3, <2>1, EncodeEffect DEF Typed, InFlight
  <2>4. todo' \subseteq live /\ seen' \in Views /\ \A m, n \in encoding' : m = n
    BY <1>3, EncodeEffect DEF Typed
  <2> QED
    BY <2>1, <2>2, <2>3, <2>4 DEF Typed
<1>4. ASSUME NEW c \in Clients, Received(c) PROVE Typed'
  <2>1. /\ UNCHANGED <<tick, todo, encoding, outbox, seen, deltas>>
        /\ \/ Connect(c)
           \/ /\ c \in live /\ UNCHANGED <<live, clientTick, clientView>>
              /\ ResetBaseline(c) \/ UNCHANGED <<baseline, mustFull, raced>>
    BY <1>4, ReceivedEffect
  <2>2. CASE Connect(c)
    BY <2>2, EmptyViewTyped DEF Connect, Typed, InFlight, goroutine
  <2>3. CASE UNCHANGED <<live, clientTick, clientView>> /\ ResetBaseline(c)
    <3>1. baseline' \in [Clients -> Baselines \cup {None}]
      BY <2>3, ResetEffect DEF Typed
    <3> QED
      BY <2>1, <2>3, <3>1, ResetEffect DEF Typed, InFlight
  <2>4. CASE UNCHANGED <<live, clientTick, clientView>> /\ UNCHANGED <<baseline, mustFull, raced>>
    BY <2>1, <2>4 DEF Typed, InFlight
  <2> QED
    BY <2>1, <2>2, <2>3, <2>4
<1>5. CASE EncodeFails \/ WriteFails
  BY <1>5 DEF EncodeFails, WriteFails, Typed, InFlight
<1>6. CASE Commit
  <2>1. PICK m \in encoding :
              /\ encoding = {m} /\ encoding' = {} /\ outbox' = outbox \cup {m}
              /\ baseline' = [baseline EXCEPT ![m.client] =
                    [tick |-> m.tick, snapshot |-> m.view, sinceFull |-> SinceFull(m)]]
              /\ deltas' = [deltas EXCEPT ![m.client] =
                    IF m.kind = "full" THEN 0 ELSE deltas[m.client] + 1]
              /\ raced' = [raced EXCEPT ![m.client] = raced[m.client] /\ m.kind = "delta"]
              /\ seen' = EmptyView
              /\ SinceFull(m) \in Nat /\ m.client \in Clients
    BY <1>6, CommitEffect
  <2>2. UNCHANGED <<tick, live, todo, clientTick, clientView, mustFull>>
    BY <1>6 DEF Commit
  <2>3. [tick |-> m.tick, snapshot |-> m.view, sinceFull |-> SinceFull(m)] \in Baselines
    BY <2>1 DEF Typed, InFlight, Baselines
  <2>4. baseline' \in [Clients -> Baselines \cup {None}]
    BY <2>1, <2>3 DEF Typed
  <2>5. deltas' \in [Clients -> Nat]
    BY <2>1 DEF Typed
  <2>6. raced' \in [Clients -> BOOLEAN]
    <3>1. (raced[m.client] /\ m.kind = "delta") \in BOOLEAN
      OBVIOUS
    <3> QED
      BY <2>1, <3>1 DEF Typed
  <2>7. EmptyView \in Views
    BY EmptyViewTyped
  <2>8. InFlight' = InFlight
    BY <2>1 DEF InFlight
  <2> QED
    BY <2>1, <2>2, <2>4, <2>5, <2>6, <2>7, <2>8 DEF Typed
<1>7. CASE WriteSnapshot
  <2>1. PICK m \in outbox :
           /\ outbox' = outbox \ {m}
           /\ clientTick' = [clientTick EXCEPT ![m.client] = m.tick]
           /\ clientView' = [clientView EXCEPT ![m.client] =
                 IF m.kind = "full" THEN m.view ELSE ApplySnapshotDelta(@, m.delta)]
    BY <1>7 DEF WriteSnapshot
  <2>2. UNCHANGED <<tick, live, baseline, todo, encoding, seen, mustFull, raced, deltas>>
    BY <1>7 DEF WriteSnapshot
  <2>3. clientTick' \in [Clients -> Nat] /\ DOMAIN clientView' = Clients
    BY <2>1 DEF Typed, InFlight
  <2> QED
    BY <2>1, <2>2, <2>3 DEF Typed, InFlight
<1> QED
  BY <1>1, <1>2, <1>3, <1>4, <1>5, <1>6, <1>7 DEF Next, Received

(* sinceFull follows the deltas, commit by commit. *)
LEMMA NextCycle ==
    ASSUME Typed, CycleInv, [Next]_vars
    PROVE  CycleInv'
<1>1. CASE UNCHANGED <<baseline, encoding, raced, deltas>>
  BY <1>1 DEF CycleInv
<1>2. CASE BeginBroadcast
  <2>1. /\ encoding' = {} /\ UNCHANGED <<raced, deltas>>
        /\ \A c \in Clients : baseline'[c] \in {None, baseline[c]}
    BY <1>2 DEF BeginBroadcast, RemoveStaleClients, Resting, history
  <2> QED
    BY <2>1 DEF CycleInv
<1>3. ASSUME NEW c \in Clients, Encode(c) PROVE CycleInv'
  <2>1. UNCHANGED <<baseline, raced, deltas>>
    BY <1>3 DEF Encode
  <2>2. ASSUME NEW m \in encoding', m.kind = "delta"
        PROVE  m.client = c /\ baseline[c] # None /\ baseline[c].sinceFull + 1 < FullInterval
    <3>1. m.client = c /\ baseline[c] # None /\ ~ShouldSendFull(baseline[c])
      BY <1>3, <2>2, EncodeEffect
    <3>2. baseline[c] \in Baselines
      BY <3>1 DEF Typed
    <3>3. baseline[c].sinceFull \in Nat
      BY <3>2 DEF Baselines
    <3>4. baseline[c].sinceFull + 1 < FullInterval
      BY <3>1, <3>3, FullIntervalAssumption DEF ShouldSendFull
    <3> QED
      BY <3>1, <3>4
  <2> QED
    BY <2>1, <2>2 DEF CycleInv
<1>4. ASSUME NEW c \in Clients, Received(c) PROVE CycleInv'
  <2>1. UNCHANGED <<encoding, deltas>>
    BY <1>4, ReceivedEffect
  <2>2. CASE ResetBaseline(c)
    <3>1. /\ baseline' = [baseline EXCEPT ![c] = None]
          /\ \A d \in Clients \ {c} : raced'[d] = raced[d]
          /\ ~raced'[c] => ~raced[c] /\ \A m \in encoding : m.client # c
      BY <2>2, ResetEffect
    <3>2. baseline'[c] = None /\ \A d \in Clients \ {c} : baseline'[d] = baseline[d]
      BY <3>1 DEF Typed
    <3> QED
      BY <2>1, <3>1, <3>2 DEF CycleInv
  <2>3. CASE UNCHANGED <<baseline, raced>>
    BY <1>1, <2>1, <2>3
  <2> QED
    BY <1>4, <2>2, <2>3, ReceivedEffect DEF Connect
<1>5. CASE EncodeFails \/ WriteSnapshot \/ WriteFails
  BY <1>1, <1>5 DEF EncodeFails, WriteSnapshot, WriteFails
<1>6. CASE Commit
  <2>1. PICK m \in encoding :
              /\ encoding = {m} /\ encoding' = {}
              /\ baseline' = [baseline EXCEPT ![m.client] =
                    [tick |-> m.tick, snapshot |-> m.view, sinceFull |-> SinceFull(m)]]
              /\ deltas' = [deltas EXCEPT ![m.client] =
                    IF m.kind = "full" THEN 0 ELSE deltas[m.client] + 1]
              /\ raced' = [raced EXCEPT ![m.client] = raced[m.client] /\ m.kind = "delta"]
              /\ SinceFull(m) \in Nat /\ m.client \in Clients
    BY <1>6, CommitEffect
  <2> DEFINE d == m.client
  <2>2. /\ baseline'[d].sinceFull = SinceFull(m)
        /\ deltas'[d] = IF m.kind = "full" THEN 0 ELSE deltas[d] + 1
        /\ raced'[d] <=> raced[d] /\ m.kind = "delta"
        /\ \A c \in Clients \ {d} : /\ baseline'[c] = baseline[c] /\ deltas'[c] = deltas[c]
                                    /\ raced'[c] = raced[c]
    BY <2>1 DEF Typed
  <2>3. ASSUME ~raced'[d]
        PROVE  deltas'[d] <= FullInterval - 1 /\ baseline'[d].sinceFull = deltas'[d]
    <3>1. CASE m.kind = "full"
      BY <2>2, <3>1, FullIntervalAssumption DEF SinceFull
    <3>2. CASE m.kind = "delta"
      <4>1. /\ ~raced[d] /\ baseline[d] # None /\ baseline[d].sinceFull = deltas[d]
            /\ deltas[d] + 1 < FullInterval
        BY <2>1, <2>2, <2>3, <3>2 DEF CycleInv
      <4>2. deltas[d] \in Nat
        BY <2>1 DEF Typed
      <4> QED
        BY <2>2, <3>2, <4>1, <4>2, FullIntervalAssumption DEF SinceFull
    <3> QED
      BY <2>1, <3>1, <3>2 DEF Typed, InFlight
  <2> HIDE DEF d
  <2> QED
    BY <2>1, <2>2, <2>3 DEF CycleInv
<1> QED
  BY <1>1, <1>2, <1>3, <1>4, <1>5, <1>6 DEF Next, Received, vars

(* After a reset the baseline stays away until a snapshot is encoded. *)
LEMMA NextReset ==
    ASSUME Typed, ResetInv, [Next]_vars
    PROVE  ResetInv'
<1>1. CASE UNCHANGED <<baseline, encoding, mustFull>>
  BY <1>1 DEF ResetInv
<1>2. CASE BeginBroadcast
  <2>1. /\ encoding' = {} /\ UNCHANGED mustFull
        /\ \A c \in Clients : baseline'[c] \in {None, baseline[c]}
    BY <1>2 DEF BeginBroadcast, RemoveStaleClients, Resting, history
  <2> QED
    BY <2>1 DEF ResetInv
<1>3. ASSUME NEW c \in Clients, Encode(c) PROVE ResetInv'
  <2>1. /\ UNCHANGED baseline
        /\ mustFull' = [mustFull EXCEPT ![c] = IF encoding' = {} THEN mustFull[c] ELSE "no"]
        /\ \A m \in encoding' : m.client = c
    BY <1>3, EncodeEffect DEF Encode
  <2>2. /\ mustFull'[c] = IF encoding' = {} THEN mustFull[c] ELSE "no"
        /\ \A d \in Clients \ {c} : mustFull'[d] = mustFull[d]
    BY <2>1 DEF Typed
  <2> QED
    BY <2>1, <2>2 DEF ResetInv
<1>4. ASSUME NEW c \in Clients, Received(c) PROVE ResetInv'
  <2>1. UNCHANGED encoding
    BY <1>4, ReceivedEffect
  <2>2. CASE ResetBaseline(c)
    <3>1. /\ baseline' = [baseline EXCEPT ![c] = None]
          /\ \A d \in Clients \ {c} : mustFull'[d] = mustFull[d]
          /\ mustFull'[c] = "reset" => \A m \in encoding : m.client # c
      BY <2>2, ResetEffect
    <3>2. baseline'[c] = None /\ \A d \in Clients \ {c} : baseline'[d] = baseline[d]
      BY <3>1 DEF Typed
    <3> QED
      BY <2>1, <3>1, <3>2 DEF ResetInv
  <2>3. CASE UNCHANGED <<baseline, mustFull>>
    BY <1>1, <2>1, <2>3
  <2> QED
    BY <1>4, <2>2, <2>3, ReceivedEffect DEF Connect
<1>5. CASE EncodeFails \/ WriteSnapshot \/ WriteFails
  BY <1>1, <1>5 DEF EncodeFails, WriteSnapshot, WriteFails
<1>6. CASE Commit
  <2>1. PICK m \in encoding :
              /\ encoding' = {}
              /\ baseline' = [baseline EXCEPT ![m.client] =
                    [tick |-> m.tick, snapshot |-> m.view, sinceFull |-> SinceFull(m)]]
    BY <1>6, CommitEffect
  <2>2. UNCHANGED mustFull /\ \A c \in Clients : c # m.client => baseline'[c] = baseline[c]
    BY <1>6, <2>1 DEF Commit, Typed
  <2> QED
    BY <2>1, <2>2 DEF ResetInv
<1> QED
  BY <1>1, <1>2, <1>3, <1>4, <1>5, <1>6 DEF Next, Received, vars

LEMMA NextTrim ==
    ASSUME Typed, TrimInv, [Next]_vars
    PROVE  TrimInv'
<1>0. \A k : FilterView(seen, k)' = FilterView(seen', k)
  BY DEF FilterView, Candidates
<1>1. CASE UNCHANGED <<encoding, seen>>
  BY <1>0, <1>1 DEF TrimInv
<1>2. ASSUME NEW c \in Clients, Encode(c) PROVE TrimInv'
  <2>1. \A m \in encoding' : m.view = seen' \/ \E k \in Nat : m.view = FilterView(seen', k)
    BY <1>2, EncodeEffect
  <2> QED
    BY <1>0, <2>1 DEF TrimInv
<1>3. CASE Commit
  BY <1>3 DEF Commit, TrimInv
<1>4. ASSUME NEW c \in Clients, Received(c) PROVE TrimInv'
  BY <1>1, <1>4, ReceivedEffect
<1>5. CASE BeginBroadcast \/ EncodeFails \/ WriteSnapshot \/ WriteFails
  BY <1>1, <1>5 DEF BeginBroadcast, EncodeFails, WriteSnapshot, WriteFails, history
<1> QED
  BY <1>1, <1>2, <1>3, <1>4, <1>5 DEF Next, Received, vars

LEMMA NextIInv == IInv /\ [Next]_vars => IInv'
  BY NextTyped, NextCycle, NextReset, NextTrim DEF IInv

LEMMA Invariance == Spec => []IInv
  BY InitIInv, NextIInv, PTL DEF Spec

-----------------------------------------------------------------------------
(* At most FullSnapshotInterval - 1 deltas follow a full snapshot in
   commitSnapshotBaseline's count, unless a reset came between the encoding
   and the commit of a snapshot. *)
THEOREM CyclesBounded == Spec => []CycleBounded
<1>1. IInv => CycleBounded
  BY DEF IInv, CycleInv, CycleBounded
<1> QED
  BY <1>1, Invariance, PTL

(* After resetSnapshotBaseline, and unless it met an uncommitted snapshot,
   encodeUDPSnapshot's next snapshot of the client is full, however many
   broadcasts defer it. *)
THEOREM ResetsForceFull == Spec => ResetForcesFull
<1>1. IInv /\ [Next]_vars => [\A m \in encoding' \ encoding :
                                mustFull[m.client] = "reset" => m.kind = "full"]_vars
  <2> SUFFICES ASSUME IInv, Next, NEW m \in encoding' \ encoding, mustFull[m.client] = "reset"
               PROVE  m.kind = "full"
    OBVIOUS
  <2>1. ASSUME NEW c \in Clients, Encode(c) PROVE m.kind = "full"
    <3>1. /\ m.client = c /\ m.kind \in {"full", "delta"}
          /\ m.kind = "delta" => baseline[c] # None
      BY <2>1, EncodeEffect DEF IInv
    <3> QED
      BY <3>1 DEF IInv, ResetInv
  <2>2. ASSUME NEW c \in Clients, Received(c) PROVE FALSE
    BY <2>2, ReceivedEffect
  <2>3. CASE BeginBroadcast \/ EncodeFails \/ Commit \/ WriteSnapshot \/ WriteFails
    BY <2>3 DEF BeginBroadcast, EncodeFails, Commit, WriteSnapshot, WriteFails
  <2> QED
    BY <2>1, <2>2, <2>3 DEF Next, Received
<1> QED
  BY <1>1, Invariance, PTL DEF Spec, ResetForcesFull

(* filterSnapshotForLimit never gives up an object and keeps one of lower
   priority, for any number of objects and any limit. *)
THEOREM PrioritiesRespected == Spec => []PriorityRespected
<1>1. ASSUME IInv PROVE PriorityRespected
  <2> SUFFICES ASSUME NEW m \in encoding, NEW i \in DOMAIN DropOrder, NEW j \in DOMAIN DropOrder,
                      DropOrder[i] \in DOMAIN m.view, DropOrder[j] \in DOMAIN seen,
                      DropOrder[j] \notin DOMAIN m.view
               PROVE  j < i
    BY DEF PriorityRespected
  <2>1. m.view # seen
    OBVIOUS
  <2>2. PICK k \in Nat : m.view = FilterView(seen, k)
    BY <1>1, <2>1 DEF IInv, TrimInv
  <2>3. ~(i <= j)
    BY <2>2, FilterKeepsTail
  <2>4. i \in Nat /\ j \in Nat
    BY DropOrderAssumption
  <2> QED
    BY <2>3, <2>4
<1> QED
  BY <1>1, Invariance, PTL

-----------------------------------------------------------------------------
(* Deltas reach a client that has what they were built against. *)
LEMMA NextDelivery ==
    ASSUME Typed, DeliveryInv, [Next]_vars
    PROVE  DeliveryInv'
<1>1. CASE UNCHANGED <<live, baseline, todo, encoding, outbox, clientTick, clientView,
                      unsent>>
  BY <1>1 DEF DeliveryInv, InFlight
<1>2. CASE BeginBroadcast
  <2>1. PICK gone \in SUBSET live : RemoveStaleClients(gone)
    BY <1>2 DEF BeginBroadcast
  <2>2. /\ live' = live \ gone /\ encoding' = {} /\ outbox' = {} /\ outbox = {}
        /\ UNCHANGED <<clientTick, clientView, unsent>>
        /\ \A c \in Clients : baseline'[c] = IF c \in gone THEN None ELSE baseline[c]
    BY <1>2, <2>1 DEF BeginBroadcast, RemoveStaleClients, Resting, history
  <2> QED
    BY <2>2 DEF DeliveryInv, InFlight
<1>3. ASSUME NEW c \in Clients, Encode(c) PROVE DeliveryInv'
  <2>1. /\ UNCHANGED <<live, baseline, outbox, clientTick, clientView, unsent>>
        /\ c \in todo /\ todo' = todo \ {c} /\ encoding = {}
        /\ \A m \in encoding' : m.client = c
    BY <1>3, EncodeEffect DEF Encode
  <2>2. ASSUME NEW m \in encoding', m.kind = "delta", m.client \notin unsent
        PROVE  ApplySnapshotDelta(clientView[m.client], m.delta) = m.view
    <3>1. /\ baseline[c] # None /\ m.view \in Views /\ m.client = c
      BY <1>3, <2>2, EncodeEffect
    <3>2. PICK unsorted : m.delta = BuildSnapshotDelta(baseline[c].snapshot, m.view, unsorted)
      BY <1>3, <2>2, EncodeEffect
    <3>3. \A n \in outbox : n.client # c
      BY <2>1 DEF DeliveryInv, InFlight
    <3>4. clientView[c] = baseline[c].snapshot
      BY <2>2, <3>1, <3>3 DEF DeliveryInv
    <3>5. baseline[c].snapshot \in Views
      <4>1. baseline[c] \in Baselines
        BY <3>1 DEF Typed
      <4> QED
        BY <4>1 DEF Baselines
    <3> QED
      BY <3>1, <3>2, <3>4, <3>5, DeltaRoundTrip
  <2>3. \A m \in InFlight' : m \in encoding' \/ m \in outbox
    BY <2>1 DEF InFlight
  <2>4. \A m \in InFlight' : m.client \notin todo'
    BY <2>1, <2>3 DEF DeliveryInv, InFlight
  <2>5. \A m \in InFlight' : m.kind = "delta" /\ m.client \notin unsent =>
           ApplySnapshotDelta(clientView[m.client], m.delta) = m.view
    BY <2>1, <2>2, <2>3 DEF DeliveryInv, InFlight
  <2>6. \A m \in encoding', n \in outbox : m.client # n.client
    BY <2>1 DEF DeliveryInv, InFlight
  <2> QED
    BY <2>1, <2>4, <2>5, <2>6 DEF DeliveryInv
<1>4. ASSUME NEW c \in Clients, Received(c) PROVE DeliveryInv'
  <2>1. UNCHANGED <<todo, encoding, outbox, unsent>>
    BY <1>4, ReceivedEffect
  <2>2. CASE Connect(c)
    <3>1. /\ c \notin live /\ live' = live \cup {c} /\ UNCHANGED baseline
          /\ \A d \in Clients : d # c => clientTick'[d] = clientTick[d] /\ clientView'[d] = clientView[d]
      BY <2>2 DEF Connect, Typed
    <3>2. baseline[c] = None /\ \A m \in InFlight : m.client # c /\ m.client \in Clients
      BY <3>1 DEF DeliveryInv, Typed
    <3>3. InFlight' = InFlight
      BY <2>1 DEF InFlight
    <3> QED
      BY <2>1, <3>1, <3>2, <3>3 DEF DeliveryInv
  <2>3. CASE UNCHANGED <<live, clientTick, clientView>> /\ ResetBaseline(c)
    <3>1. baseline' = [baseline EXCEPT ![c] = None]
      BY <2>3, ResetEffect
    <3>2. baseline'[c] = None /\ \A d \in Clients \ {c} : baseline'[d] = baseline[d]
      BY <3>1 DEF Typed
    <3>3. InFlight' = InFlight /\ \A m \in InFlight : m.client \in Clients
      BY <2>1 DEF InFlight, Typed
    <3>4. outbox \subseteq InFlight
      BY DEF InFlight
    <3> QED
      BY <2>1, <2>3, <3>2, <3>3, <3>4 DEF DeliveryInv
  <2>4. CASE UNCHANGED <<live, clientTick, clientView, baseline>>
    BY <1>1, <2>1, <2>4
  <2> QED
    BY <1>4, <2>2, <2>3, <2>4, ReceivedEffect
<1>5. CASE EncodeFails
  <2>1. /\ encoding = {} /\ outbox' = {} /\ todo' = {}
        /\ UNCHANGED <<live, baseline, encoding, clientTick, clientView>>
        /\ unsent' = unsent \cup ClientsOf(outbox)
    BY <1>5 DEF EncodeFails
  <2>2. \A c \in Clients \ unsent' : c \notin unsent /\ \A n \in outbox : n.client # c
    BY <2>1 DEF ClientsOf
  <2> QED
    BY <2>1, <2>2 DEF DeliveryInv, InFlight
<1>5a. CASE WriteFails
  <2>1. PICK m \in outbox : outbox' = outbox \ {m} /\ unsent' = unsent \cup {m.client}
    BY <1>5a DEF WriteFails
  <2>2. UNCHANGED <<live, baseline, todo, encoding, clientTick, clientView>>
    BY <1>5a DEF WriteFails
  <2>3. InFlight' \subseteq InFlight
    BY <2>1, <2>2 DEF InFlight
  <2>4. \A c \in Clients \ unsent' : c \notin unsent /\
           ((\A n \in outbox' : n.client # c) => \A n \in outbox : n.client # c)
    BY <2>1
  <2> QED
    BY <2>1, <2>2, <2>3, <2>4 DEF DeliveryInv
<1>6. CASE Commit
  <2>1. PICK m \in encoding :
              /\ encoding = {m} /\ encoding' = {} /\ outbox' = outbox \cup {m}
              /\ baseline' = [baseline EXCEPT ![m.client] =
                    [tick |-> m.tick, snapshot |-> m.view, sinceFull |-> SinceFull(m)]]
              /\ m.client \in Clients
    BY <1>6, CommitEffect
  <2>2. UNCHANGED <<live, todo, clientTick, clientView, unsent>>
    BY <1>6 DEF Commit
  <2>3. /\ baseline'[m.client].tick = m.tick /\ baseline'[m.client].snapshot = m.view
        /\ \A c \in Clients : c # m.client => baseline'[c] = baseline[c]
    BY <2>1 DEF Typed
  <2>4. InFlight' = InFlight /\ \A n \in outbox : n.client # m.client /\ n.client \in Clients
    BY <2>1 DEF InFlight, DeliveryInv, Typed
  <2>5. m.client \in live
    BY <2>1 DEF Typed, InFlight
  <2>6. \A c \in Clients : (\A n \in outbox' : n.client # c) =>
           c # m.client /\ \A n \in outbox : n.client # c
    BY <2>1
  <2>7. \A c \in Clients \ unsent : baseline'[c] # None /\ (\A n \in outbox' : n.client # c) =>
           clientTick[c] = baseline'[c].tick /\ clientView[c] = baseline'[c].snapshot
    BY <2>3, <2>6 DEF DeliveryInv
  <2>8. \A n \in outbox' : baseline'[n.client] # None =>
           baseline'[n.client].tick = n.tick /\ baseline'[n.client].snapshot = n.view
    BY <2>1, <2>3, <2>4 DEF DeliveryInv
  <2>9. \A c \in Clients \ live : baseline'[c] = None
    BY <2>3, <2>5 DEF DeliveryInv
  <2>10. \A l, n \in outbox' : l.client = n.client => l = n
    BY <2>1, <2>4 DEF DeliveryInv
  <2> QED
    BY <2>1, <2>2, <2>4, <2>7, <2>8, <2>9, <2>10 DEF DeliveryInv
<1>7. CASE WriteSnapshot
  <2>1. PICK m \in outbox :
           /\ outbox' = outbox \ {m}
           /\ clientTick' = [clientTick EXCEPT ![m.client] = m.tick]
           /\ clientView' = [clientView EXCEPT ![m.client] =
                 IF m.kind = "full" THEN m.view
                 ELSE ApplySnapshotDelta(clientView[m.client], m.delta)]
           /\ unsent' = IF m.kind = "full" THEN unsent \ {m.client} ELSE unsent
    BY <1>7 DEF WriteSnapshot
  <2>2. UNCHANGED <<live, baseline, todo>> /\ encoding' = {} /\ encoding = {}
    BY <1>7 DEF WriteSnapshot
  <2>3. m \in InFlight /\ m.client \in Clients /\ m.kind \in {"full", "delta"}
    BY DEF Typed, InFlight
  <2>4. /\ m.client \notin unsent' =>
              clientTick'[m.client] = m.tick /\ clientView'[m.client] = m.view
        /\ \A c \in Clients : c # m.client =>
              clientTick'[c] = clientTick[c] /\ clientView'[c] = clientView[c]
    BY <2>1, <2>3 DEF Typed, DeliveryInv
  <2>5. InFlight' \subseteq InFlight /\ InFlight' = outbox'
    BY <2>1, <2>2 DEF InFlight
  <2>6. \A n \in outbox' : n.client # m.client /\ n.client \in Clients /\ n \in outbox
    BY <2>1 DEF DeliveryInv, Typed, InFlight
  <2>6a. \A c \in Clients : c # m.client => (c \in unsent' <=> c \in unsent)
    BY <2>1
  <2>7. \A c \in Clients \ unsent' : baseline[c] # None /\ (\A n \in outbox' : n.client # c) =>
           clientTick'[c] = baseline[c].tick /\ clientView'[c] = baseline[c].snapshot
    <3> SUFFICES ASSUME NEW c \in Clients \ unsent', baseline[c] # None, \A n \in outbox' : n.client # c
                 PROVE  clientTick'[c] = baseline[c].tick /\ clientView'[c] = baseline[c].snapshot
      OBVIOUS
    <3>1. CASE c = m.client
      BY <2>4, <3>1 DEF DeliveryInv
    <3>2. CASE c # m.client
      <4>1. \A n \in outbox : n.client # c
        BY <2>1, <3>2
      <4> QED
        BY <2>4, <2>6a, <3>2, <4>1 DEF DeliveryInv
    <3> QED
      BY <3>1, <3>2
  <2>8. \A n \in InFlight' : n.kind = "delta" /\ n.client \notin unsent' =>
           ApplySnapshotDelta(clientView'[n.client], n.delta) = n.view
    BY <2>4, <2>5, <2>6, <2>6a DEF DeliveryInv
  <2> QED
    BY <2>2, <2>5, <2>6, <2>7, <2>8 DEF DeliveryInv
<1> QED
  BY <1>1, <1>2, <1>3, <1>4, <1>5, <1>6, <1>7, <1>5a DEF Next, Received, vars

(* A client that applies every packet of its session has, between
   broadcasts, exactly its baseline: also after resets at any moment, after
   removal and return, and after snapshots that were trimmed or deferred.
   snapshots() that fails for one client, or a write that fails, breaks this
   for the clients whose snapshot was committed and not written, and no
   longer than until their next full snapshot. *)
THEOREM ClientsMatchBaseline == Spec => []ClientMatchesBaseline
<1>1. Init => Typed /\ DeliveryInv
  BY InitIInv DEF IInv
<1>2. Typed /\ DeliveryInv /\ [Next]_vars => Typed' /\ DeliveryInv'
  BY NextTyped, NextDelivery
<1>3. Typed /\ DeliveryInv => ClientMatchesBaseline
  BY DEF DeliveryInv, ClientMatchesBaseline, HasBaseline, Resting
<1> QED
  BY <1>1, <1>2, <1>3, PTL DEF Spec

(* The documented rule, a baseline of the previously sent snapshot, is broken
   by nothing but snapshots() failing after commitSnapshotBaseline and by
   failing writes. *)
THEOREM BaselinesWereSent == Faults = {} => (Spec => []BaselineWasSent)
<1> SUFFICES ASSUME Faults = {} PROVE Spec => []BaselineWasSent
  OBVIOUS
<1> DEFINE NoneUnsent == unsent = {}
<1>1. Init => NoneUnsent
  BY DEF Init
<1>2. NoneUnsent /\ [Next]_vars => NoneUnsent'
  BY DEF Next, vars, BeginBroadcast, Encode, EncodeFails, Commit, WriteSnapshot, WriteFails,
     Connect, Authenticate, MarkWireClient, SwitchScene, history
<1>3. NoneUnsent /\ ClientMatchesBaseline => BaselineWasSent
  BY DEF ClientMatchesBaseline, BaselineWasSent
<1> HIDE DEF NoneUnsent
<1> QED
  BY <1>1, <1>2, <1>3, ClientsMatchBaseline, PTL DEF Spec
=============================================================================
