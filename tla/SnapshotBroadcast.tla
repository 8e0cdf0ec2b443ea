------------------------- MODULE SnapshotBroadcast -------------------------
(***************************************************************************)
(* Full and delta snapshots (network/udp.go): the tick goroutine encodes a *)
(* snapshot for every client against the client's baseline, commits the    *)
(* new baseline and, when all clients are done, writes the packets.  The   *)
(* receive goroutine meanwhile resets baselines when a client              *)
(* authenticates, switches scene or switches from JSON to wire packets.    *)
(* server.mu is released between reading, committing and writing, so a     *)
(* reset can fall anywhere in between.                                     *)
(*                                                                         *)
(* The world is arbitrary: SnapshotForClient returns any view, so every    *)
(* change of objects, scenes and interest is covered.  A view is cut down  *)
(* to the size limit in priority order.  Sizes count object entries.       *)
(***************************************************************************)
EXTENDS Naturals, Sequences, FiniteSets, SnapshotDelta

CONSTANTS Clients, Values,
          DropOrder,        \* all objects, in the order snapshotDropCandidates
                            \* gives up on them: lowest priority first
          Reordered,        \* objects whose snapshot struct does not declare its
                            \* JSON fields in alphabetical order
          FullInterval,     \* Config.FullSnapshotInterval
          Limits,           \* packet-size or budget limits, in entries
          Budgeting,        \* Config.EnableBandwidthBudget
          Faults,           \* what may fail: encoding a snapshot, writing a packet
          Scenarios         \* bounds: which clients connect, ticks with a snapshot, resets

ASSUME FullIntervalAssumption == FullInterval \in Nat \ {0}
ASSUME LimitsAssumption == Limits \subseteq Nat
ASSUME ScenariosAssumption ==
    Scenarios \subseteq [clients : SUBSET Clients, ticks : Nat, resets : Nat]
ASSUME FaultsAssumption == Faults \subseteq {"encode", "write"}

Objects == {DropOrder[i] : i \in DOMAIN DropOrder}

ASSUME DropOrderAssumption ==
    /\ DropOrder \in Seq(Objects)
    /\ \A i, j \in DOMAIN DropOrder : DropOrder[i] = DropOrder[j] => i = j

Views == UNION {[S -> Values] : S \in SUBSET Objects}
EmptyView == [o \in {} |-> 0]
None == [tick |-> 0]   \* no baseline; ticks start at 1

VARIABLES
    scenario,   \* the bounds of this behaviour
    tick,       \* runtime tick of the last snapshot
    live,       \* server.clients
    wire,       \* clients with wireProtocol set
    baseline,   \* server.snapshotBaselines, None when absent
    todo,       \* tick goroutine: clients still to encode in this broadcast
    encoding,   \* tick goroutine: the snapshot encoded but not committed (a set of at most one)
    outbox,     \* tick goroutine: snapshots committed but not written
    resets,     \* how many resets so far
    clientTick, clientView,  \* history: what a client that applies every packet has
    seen,       \* history: the view SnapshotForClient gave for what is being encoded
    mustFull,   \* history: why the next snapshot of the client has to be full
    raced,      \* history: since the last full, a reset met an uncommitted snapshot
    deltas,     \* history: deltas encoded for the client since its last full
    unsent      \* history: clients with a snapshot committed but not written
                \* since their last full one

vars == <<scenario, tick, live, wire, baseline, todo, encoding, outbox, resets,
          clientTick, clientView, seen, mustFull, raced, deltas, unsent>>
goroutine == <<todo, encoding, outbox>>
history == <<clientTick, clientView, seen, mustFull, raced, deltas, unsent>>

Deltas ==
    [spawned : Views, changed : Views, despawned : SUBSET Objects]

TypeOK ==
    /\ tick \in Nat
    /\ wire \subseteq live /\ live \subseteq Clients /\ todo \subseteq Clients
    /\ \A c \in Clients :
          baseline[c] # None => /\ baseline[c].tick \in 1 .. tick
                                /\ baseline[c].snapshot \in Views
                                /\ baseline[c].sinceFull \in 0 .. FullInterval - 1
    /\ \A m \in encoding \cup outbox :
          /\ m.client \in Clients /\ m.view \in Views
          /\ m.kind \in {"full", "delta"}
          /\ m.kind = "delta" => m.delta \in Deltas
    /\ clientView \in [Clients -> Views]

Init ==
    /\ scenario \in Scenarios
    /\ tick = 0 /\ live = {} /\ wire = {} /\ resets = 0
    /\ baseline = [c \in Clients |-> None]
    /\ todo = {} /\ encoding = {} /\ outbox = {}
    /\ clientTick = [c \in Clients |-> 0]
    /\ clientView = [c \in Clients |-> EmptyView]
    /\ seen = EmptyView
    /\ mustFull = [c \in Clients |-> "no"]
    /\ raced = [c \in Clients |-> FALSE]
    /\ deltas = [c \in Clients |-> 0]
    /\ unsent = {}

-----------------------------------------------------------------------------
(* Encoding. *)

ShouldSendFull(b) == FullInterval <= 1 \/ b.sinceFull + 1 >= FullInterval

(* encodeUDPSnapshot: reads the baseline and builds the packet. *)
EncodeUDPSnapshot(c, view, unsorted) ==
    IF baseline[c] = None \/ ShouldSendFull(baseline[c])
    THEN [client |-> c, kind |-> "full", tick |-> tick, view |-> view]
    ELSE [client |-> c, kind |-> "delta", tick |-> tick, view |-> view,
          base |-> baseline[c].tick,
          delta |-> BuildSnapshotDelta(baseline[c].snapshot, view, unsorted)]

Size(m) ==
    IF m.kind = "full" THEN Cardinality(DOMAIN m.view)
    ELSE Cardinality(DOMAIN m.delta.spawned) + Cardinality(DOMAIN m.delta.changed)
            + Cardinality(m.delta.despawned)

(* The view's objects, as positions in drop order. *)
Candidates(view) == {i \in DOMAIN DropOrder : DropOrder[i] \in DOMAIN view}

(* Mutated: gives up on the most important objects first. *)
MutFilterKeepsLowest(view, k) ==
    LET kept == {i \in Candidates(view) : Cardinality({j \in Candidates(view) : j > i}) >= k}
    IN  [o \in {DropOrder[i] : i \in kept} |-> view[o]]

(* The view without its first k candidates (removeSnapshotObject). *)
FilterView(view, k) ==
    LET kept == {i \in Candidates(view) : Cardinality({j \in Candidates(view) : j < i}) >= k}
    IN  [o \in {DropOrder[i] : i \in kept} |-> view[o]]

(* filterSnapshotForLimit: the smallest number of omissions that fits; a
   limit of 0 and a view that never fits give nothing.  It works on a clone
   of the view, which holds no structs any more. *)
Filtered(c, view, limit) ==
    LET trimmed(k) == EncodeUDPSnapshot(c, FilterView(view, k), {})
        fits == {k \in 1 .. Cardinality(DOMAIN view) : Size(trimmed(k)) <= limit}
    IN  IF limit = 0 \/ fits = {} THEN {}
        ELSE {trimmed(CHOOSE k \in fits : \A j \in fits : k <= j)}

(* encodeBudgetedUDPSnapshot and validateOutboundPacket: the snapshot as it
   is, trimmed, or none (deferred, or dropped as too large). *)
EncodeForClient(c, view, limit) ==
    LET whole == EncodeUDPSnapshot(c, view, Reordered)
    IN  IF Size(whole) <= limit THEN {whole}
        ELSE IF Budgeting THEN Filtered(c, view, limit)
        ELSE {}

-----------------------------------------------------------------------------
(* The tick goroutine. *)

Resting == todo = {} /\ encoding = {} /\ outbox = {}

RemoveStaleClients(gone) ==
    /\ live' = live \ gone /\ wire' = wire \ gone
    /\ baseline' = [c \in Clients |-> IF c \in gone THEN None ELSE baseline[c]]

(* advanceAndMaybeBroadcast up to snapshotClients, on a snapshot tick:
   removeStaleClients deletes any clients that have been silent too long. *)
BeginBroadcast ==
    /\ Resting
    /\ tick < scenario.ticks
    /\ tick' = tick + 1
    /\ \E gone \in SUBSET live : RemoveStaleClients(gone)
    /\ todo' = live'
    /\ UNCHANGED <<scenario, encoding, outbox, resets, history>>

(* One client of snapshots(): SnapshotForClient, encode, budget.  A response
   may use up the budget between the reading of the limit and the
   reservation, and the snapshot is then deferred. *)
Encode(c) ==
    /\ encoding = {}
    /\ c \in todo
    /\ \E view \in Views, limit \in Limits :
          /\ \/ encoding' = EncodeForClient(c, view, limit)
             \/ Budgeting /\ encoding' = {}
          /\ seen' = IF encoding' = {} THEN EmptyView ELSE view
    /\ todo' = todo \ {c}
    /\ mustFull' = [mustFull EXCEPT ![c] = IF encoding' = {} THEN @ ELSE "no"]
    /\ UNCHANGED <<scenario, tick, live, wire, baseline, outbox, resets, clientTick, clientView,
                   raced, deltas, unsent>>

ClientsOf(packets) == {m.client : m \in packets}

(* An encoding error abandons the whole broadcast: snapshots() returns no
   packets, for the clients already committed either. *)
EncodeFails ==
    /\ "encode" \in Faults
    /\ encoding = {} /\ todo # {}
    /\ todo' = {} /\ outbox' = {}
    /\ unsent' = unsent \cup ClientsOf(outbox)
    /\ UNCHANGED <<scenario, tick, live, wire, baseline, encoding, resets, clientTick,
                   clientView, seen, mustFull, raced, deltas>>

(* Mutated: a delta does not count towards the next full snapshot. *)
MutSinceFullStuck(m) == 0

SinceFull(m) ==
    IF m.kind = "delta" /\ baseline[m.client] # None
    THEN baseline[m.client].sinceFull + 1 ELSE 0

(* commitSnapshotBaseline *)
Commit ==
    /\ \E m \in encoding :
          /\ baseline' = [baseline EXCEPT
                ![m.client] = [tick |-> m.tick, snapshot |-> m.view,
                               sinceFull |-> SinceFull(m)]]
          /\ outbox' = outbox \cup {m}
          /\ deltas' = [deltas EXCEPT ![m.client] = IF m.kind = "full" THEN 0 ELSE @ + 1]
          /\ raced' = [raced EXCEPT ![m.client] = @ /\ m.kind = "delta"]
    /\ encoding' = {} /\ seen' = EmptyView
    /\ UNCHANGED <<scenario, tick, live, wire, todo, resets, clientTick, clientView, mustFull,
                   unsent>>

(* The write loop, once every client is encoded. *)
WriteSnapshot ==
    /\ todo = {} /\ encoding = {}
    /\ \E m \in outbox :
          /\ outbox' = outbox \ {m}
          /\ clientTick' = [clientTick EXCEPT ![m.client] = m.tick]
          /\ clientView' = [clientView EXCEPT ![m.client] =
                IF m.kind = "full" THEN m.view ELSE ApplySnapshotDelta(@, m.delta)]
          /\ unsent' = IF m.kind = "full" THEN unsent \ {m.client} ELSE unsent
    /\ UNCHANGED <<scenario, tick, live, wire, baseline, todo, encoding, resets, seen, mustFull,
                   raced, deltas>>

(* A packet that cannot be written is logged and passed over. *)
WriteFails ==
    /\ "write" \in Faults
    /\ todo = {} /\ encoding = {}
    /\ \E m \in outbox :
          outbox' = outbox \ {m} /\ unsent' = unsent \cup {m.client}
    /\ UNCHANGED <<scenario, tick, live, wire, baseline, todo, encoding, resets, clientTick,
                   clientView, seen, mustFull, raced, deltas>>

-----------------------------------------------------------------------------
(* The receive goroutine. *)

(* acceptClientRequest from a new address: a session that has seen nothing. *)
Connect(c) ==
    /\ c \in scenario.clients \ live
    /\ live' = live \cup {c}
    /\ clientTick' = [clientTick EXCEPT ![c] = 0]
    /\ clientView' = [clientView EXCEPT ![c] = EmptyView]
    /\ UNCHANGED <<scenario, tick, wire, baseline, resets, goroutine, seen, mustFull, raced,
                   deltas, unsent>>

(* Mutated: the baseline survives. *)
MutResetBaselineForgotten(c) == UNCHANGED baseline

DeleteBaseline(c) == baseline' = [baseline EXCEPT ![c] = None]

(* Deletes the baseline under the mutex, and notes whether a snapshot of
   the client is between encoding and commit at that moment. *)
ResetBaseline(c) ==
    /\ DeleteBaseline(c)
    /\ IF c \in ClientsOf(encoding)
       THEN /\ mustFull' = [mustFull EXCEPT ![c] = "raced"]
            /\ raced' = [raced EXCEPT ![c] = TRUE]
       ELSE /\ mustFull' = [mustFull EXCEPT ![c] = "reset"]
            /\ UNCHANGED raced

ResetAllowed(c) == resets < scenario.resets /\ c \in live /\ resets' = resets + 1

(* authenticateClient *)
Authenticate(c) ==
    /\ ResetAllowed(c)
    /\ ResetBaseline(c)
    /\ UNCHANGED <<scenario, tick, live, wire, goroutine, clientTick, clientView, seen, deltas,
                   unsent>>

(* markWireClient, on the first wire packet of a client *)
MarkWireClient(c) ==
    /\ c \notin wire
    /\ ResetAllowed(c)
    /\ wire' = wire \cup {c}
    /\ ResetBaseline(c)
    /\ UNCHANGED <<scenario, tick, live, goroutine, clientTick, clientView, seen, deltas,
                   unsent>>

(* handleDecodedRequest with a scene-switch action.  The scene has changed
   when handleSceneSwitchRequest answers; SceneSwitchResponse is not a
   registered wire message, so the answer to a wire client fails, the
   request counts as failed, and resetSnapshotBaseline is not reached. *)
SwitchScene(c) ==
    /\ ResetAllowed(c)
    /\ IF c \in wire THEN UNCHANGED <<baseline, mustFull, raced>> ELSE ResetBaseline(c)
    /\ UNCHANGED <<scenario, tick, live, wire, goroutine, clientTick, clientView, seen, deltas,
                   unsent>>

Next ==
    \/ BeginBroadcast
    \/ \E c \in Clients :
          \/ Encode(c)
          \/ Connect(c) \/ Authenticate(c) \/ MarkWireClient(c) \/ SwitchScene(c)
    \/ EncodeFails \/ Commit \/ WriteSnapshot \/ WriteFails

Spec == Init /\ [][Next]_vars

-----------------------------------------------------------------------------
(* The baseline is what a client that applied every packet of its session
   has. *)
HasBaseline(c) ==
    clientTick[c] = baseline[c].tick /\ clientView[c] = baseline[c].snapshot

(* Between broadcasts the baseline of a client is what it has, so that the
   next delta will apply, and none is left of a session that was removed;
   after an abandoned broadcast or a failed write the client's next full
   snapshot restores this. *)
ClientMatchesBaseline ==
    Resting => \A c \in Clients \ unsent : baseline[c] # None => HasBaseline(c)

(* Architecture.md: "UDP keeps a per-client baseline of the previously sent
   visible snapshot".  Between broadcasts every baseline was sent. *)
BaselineWasSent ==
    Resting => \A c \in Clients : baseline[c] # None => HasBaseline(c)

(* At most FullInterval - 1 deltas follow a full snapshot, unless a reset
   met a snapshot that was encoded but not committed. *)
CycleBounded ==
    \A c \in Clients : ~raced[c] => deltas[c] <= FullInterval - 1

(* A reset that did not meet an uncommitted snapshot makes the next snapshot
   of the client full. *)
ResetForcesFull ==
    [][\A m \in encoding' \ encoding :
          mustFull[m.client] = "reset" => m.kind = "full"]_vars

(* A trimmed snapshot never omits an object while it keeps one that comes
   earlier in drop order, that is, one of lower priority. *)
PriorityRespected ==
    \A m \in encoding : \A i, j \in DOMAIN DropOrder :
        /\ DropOrder[i] \in DOMAIN m.view
        /\ DropOrder[j] \in DOMAIN seen \ DOMAIN m.view
        => j < i
=============================================================================
