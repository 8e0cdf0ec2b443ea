# A TLA+ model of Enserva

Enserva is an authoritative game-server runtime in Go. Game code registers
objects with hooks (`OnTick`, `OnRequest`, `OnAuthenticationAttempt`, ...); a
UDP transport receives client datagrams, routes requests to the objects and
broadcasts snapshots of the world at the tick rate. This directory models the
parts of it whose correctness depends on the order of events: what happens
when datagrams are lost, repeated or late, when the receive goroutine and the
tick goroutine meet between two critical sections, and when queues and windows
reach their limits, and what two sides understand of the bytes they exchange.

## 1. Inventory

### Who runs

* The **receive goroutine** (`UDPServer.ListenAndServe`) reads one datagram at
  a time: `acceptClientRequest` (sequence window, acknowledgement, client
  table), `acceptReliableIncomingMessages`, then the request, input or
  authentication handler and its response.
* The **tick goroutine** (`runTicks`, `advanceAndMaybeBroadcast`): retransmits,
  `Runtime.Advance`, `removeStaleClients`, and on snapshot ticks `snapshots` and
  the writes.
* **Server code** may call the `Runtime` and `Features` methods from anywhere.
* A **client** (the C# one is modelled) has a receive loop and calls
  `SendMessageAsync` and `UpdateAsync`, which await the socket.

`server.mu` protects clients, baselines and counters; `Runtime.mu` the tick and
the registry; `Runtime.hooksMu` serialises hooks; `Features.mu` scenes and
interest. No operation holds `server.mu` throughout: each critical section is
one action of the models, except where section 2 says which ones an action joins.

### Components

| Component | State | Operations | What makes it correct |
| --- | --- | --- | --- |
| Packet window (`udp.go`, `reliability.go`) | `ack`, `ackBits`, `receivedSeqs` | accept, reject | each packet handled once; acknowledgements exact |
| Reliable messages, client to server | client's pending list; server's `nextReliableOrderedID`, buffer, received IDs | send, track, resend, receive, acknowledge, expire | ordered in order; each once; no silent loss; the list drains |
| Reliable messages, server to client | `reliableOut`, `nextReliableID` | respond, queue, retransmit, acknowledge, drop | removal means delivery or exhaustion; bounded; drains |
| Snapshots and baselines | `snapshotBaselines`, per client tick, view, `snapshotsSinceFull` | encode, trim, commit, write, reset | deltas apply; resets force full snapshots |
| Bandwidth budget | `budgetAvailable`, `budgetLastRefill` | refill, reserve, read limit | never negative or over capacity; all spending accounted for |
| Input buffer | inputs by client, counters | add, consume | order, bound, nothing lost or kept past its tick |
| Client sessions | client table, IDs | create, authenticate, expire | bounded; unique IDs; silent clients go, heard clients stay |
| Scenes and interest | scene of clients and objects, interest registrations | assign, clear, switch, enable, disable, snapshot | the filter shows what scene and distance allow |
| Object registry and hooks | objects, factories, authentication handler, `mu`, `hooksMu` | register, create, remove, advance, handle | registrations by name follow the object; hooks reach registered, initialised objects; no deadlock |
| Wire codec and registry (`wire.go`, `wire_registry.go`) | registered message types | register, encode, decode | what one side reads is what the other wrote; one bad message does not change the meaning of another |
| Negotiation (`protocol.go`, `udp.go`) | a client's version, capabilities, packet size | hello, welcome, every wire packet, expiry | only what both sides have is used; no packet above the agreed size; the welcome says what is true |
| Debug server, metrics, samples, main | counters | read | not modelled |

### Hard behaviours

`PROJECT.json` lists them as hazards, each at its line. In short: a value read
before an unlock or an await and used after it (tick of an input, budget limit,
baseline, time of the tick, copy of the client, retry lists of both sides); two-step updates
(scene switch, encode and commit, negotiate and authenticate); limits (window of 64, queue, buffer, client
table, full-snapshot cycle, packet size, an empty field at the end of a
payload); and things that must end (retries, silent
clients, stored inputs).

## 2. Modules

| Module | Models | Used by |
| --- | --- | --- |
| `PacketWindow` | `clientAckBitsLocked`, pruning, `packetSequenceAcked` as operators over any window size | the next three |
| `ReceiveWindow`, `ReceiveMemory` | `acceptClientRequest`; the abstract receiver with unlimited memory | `MCClientBooks`, `UDPClientProofs` |
| `ReliableReceiver` | `acceptReliableIncomingMessages` (the client's version does the same) | the next two, `ReliableReceiverProofs` |
| `ReliableInbound`, `MCReliableInbound` | C# sender, network, server receive path, expiry | `ReliableInboundProofs` |
| `ReliableOutbound` | server responses, retry queue, network, client | `ReliableOutboundProofs` |
| `SnapshotDelta`, `SnapshotBroadcast`, `MCSnapshotBroadcast` | delta building; the broadcast against baseline resets | `SnapshotBroadcastProofs` |
| `BandwidthBudget` | the token bucket of one client | `MCClientBooks`, `UDPClientProofs` |
| `InputBuffer` | `inputBuffer` and the runtime's tick | `MCClientBooks`, `UDPClientProofs` |
| `MCClientBooks` | window, bucket and inputs of one client, one of them moving in each behaviour | |
| `ClientSessions` | client table, authentication, expiry, both goroutines and `hooksMu` | `ClientSessionsProofs` |
| `InterestFilter` | spatial hash and linear filter as operators | `Visibility` |
| `Visibility`, `MCVisibility` | scenes, interest registrations, scene switches, `SnapshotForClient` | `VisibilityProofs` |
| `ObjectRegistry`, `MCObjectRegistry` | registration, creation and removal of objects, the authentication handler, hooks and their locks | `ObjectRegistryProofs` |
| `WireBytes`, `WireMessages`, `WireRegistry` | the codec as operators: primitive reads and writes; messages, envelopes, packets; the registry | `WireSession`, `UDPClientProofs` |
| `WireValue` | the codec of the values inside snapshots, which is recursive | `MCWireSession` |
| `Negotiation`, `Handshake` | `NegotiateClientHello` and what `UDPClient` keeps of it, as operators; the abstract handshake without bytes | `WireSession`, `UDPClientProofs` |
| `WireSession`, `MCWireSession` | one client's datagrams through codec, registry and negotiation in both directions, with the tick goroutine's snapshots and game code's registrations | `UDPClientProofs` |

Every definition that stands for code has an entry under "map" in
`PROJECT.json` with its lines. Definitions named `Mut...` are deliberately wrong
variants of the definition that follows them; they show that a property can
fail and are used by no specification.

### How state and actions correspond

* *Network.* A datagram stays in a set once sent. It may be taken never (lost),
  late, or again. Nothing is assumed of delivery.
* *Packet sequences* are natural numbers; `SeqSpace` bounds them where a model
  enumerates them. The code's are 64 bits wide and start at 1. The window is a
  parameter: 64 in the code, 2 to 4 in the runs, arbitrary in the proofs.
* `ReliableInbound`: `SendMessage`/`TrackMessage` and `ResendBegin`/`ResendEnd`
  are the two sides of an await. `SendMessageFails` and `ResendFails` are a send
  that throws (`EncodePacket` or the socket): the packet sequence is used up; a new
  message is not tracked although its ID is used up, and the caller gets the
  exception (`refused`); a resend counts no attempt and ends `UpdateAsync`, with it
  all that was still due. `UpdateAsync` is not entered while it is running.
  `AcceptPacket` and `TakeIn` are the two critical sections of the server; between
  them every packet of the tick goroutine already acknowledges the message, and
  `Expire`, which is `removeStaleClients`, may remove the session, whose record the
  receive goroutine then still fills in. The client is not told. The history
  `dispatched` keeps, for each class, the IDs in the order in which the server handed
  them on. `NothingDispatchableWaits` and `NoSilentLoss` speak of the delivery classes
  the client has negotiated: the server skips the others.
* `ReliableOutbound`: `PrepareResponse`, `ReserveResponse`, `QueueResponse`,
  `WriteResponse` are the critical sections of `sendUDPResponse`;
  `CollectRetransmits`, `WriteRetransmit`, `DeferRetransmit` those of
  `retransmitReliable`. A write error is a loss. Encoding succeeds. `ClientReceive`
  joins `RecordPeerPacket` and `AcceptIncomingReliableMessages`
  (`EnservaUdpClient.cs:382-385`), two sections of the client's lock: a packet the
  client sends between them acknowledges a message a moment before it is held, and
  nothing can fail in that moment. The client stays connected (section 6).
* `SnapshotBroadcast`: the view `SnapshotForClient` returns is arbitrary, so
  every change of the world is covered. `Encode`, `Commit`, `WriteSnapshot` are
  the steps of `snapshots()` and the write loop; the other actions are the
  receive goroutine. What `Faults` allows may fail: `EncodeFails` ends the broadcast
  for every client, `WriteFails` passes one packet over. The history `unsent` names
  the clients with a snapshot that was committed and not written since the last full
  one they got. Deltas are enabled and the peer can take them. Sizes count
  object entries. `Encode` reads the baseline once, where the code reads it
  again for every trimmed attempt.
* `BandwidthBudget`: integers for the code's `float64`; time in units in which
  `Rate` bytes are refilled.
* `InputBuffer`: object type and ID are one key; `Insert` is append followed by
  the stable sort, on a list that is sorted already. `Remaining` is the loop in
  which `consume` keeps what does not match. Counters of rejections are left out.
* `ClientSessions`: an address names a client. The socket holds at most one
  waiting datagram per address. The tick goroutine is modelled from `Advance` to
  its last snapshot.
* `Visibility`: all objects stay registered; names are normalised. The scene
  handler lets a client switch its own object only. Coordinates are integers,
  not finite, or unknown.
* `ObjectRegistry`: one action per critical section. `Put` or `Bind` publishes an
  object, `DisableInterest`, `DisableScene`, `InitInterest`, `InitScene` follow
  without `mu`; `Delete`, `DropInterest`, `DropScene` are `RemoveObject`, with `mu`
  held. `OnInit` is what the sample objects do in it: it may register interest
  and a scene. `TakeHooksMu` to `ReleaseHooksMu` is any of `Advance`,
  `SnapshotForClient`, `HandleRequest` and `HandleAuthenticationAttempt`; each
  hook begins and ends, and between may call the registry. Of
  `SnapshotPriorities` the read lock and the objects called are kept. A feature
  registration is the instance that made it.
* The codec: a datagram is a sequence of bytes. An encoder yields bytes or fails,
  a decoder takes the bytes left and yields a value and the rest, or fails; `Then`
  and `Repeat` are the code's early returns and loops. A message is a type and one
  value per field of its layout, and the layouts stand for the `Encode...` and
  `Decode...` functions. `Read` does what `bytes.Reader.Read` does: it fails at the
  end of the data even for no bytes, and fills up with zeros when some are left but
  not enough. Integers have `ShortLen`, `WordLen` and `LongLen` bytes, floats are
  their bits, and a Go value is a record with a kind in place of reflection.
  `WireMessages` takes the codec of values as constant operators (`EncodeValue`,
  `DecodeValue`, with `ReadForm` and `EndsEmpty` as its reference), so that what does
  not depend on it can be proved without it; `MCWireSession` gives them those of
  `WireValue`.
* `WireSession`: `Receive` is `handleMessage` up to its loop, `HandleNext` one turn
  of the loop with its response, `BeginSnapshot` and `WriteSnapshot` are
  `snapshotClients` and the encoding for the copy it made. Every packet may come at
  any time, which covers loss, repetition and order; sequence numbers and budgets
  are left to the modules that have them. Whether authentication succeeds is free.
  `HandleHello` joins the critical sections of one hello: `applyClientPacketSize`
  (`udp.go:762-775`), `applyNegotiatedWireState` (742-760), the authentication hook
  and the response; a copy of the client that the tick goroutine makes between them,
  with the new size and the old capabilities, is not modelled. `Expire` waits until
  the inbox is empty: handling one packet takes less than `ClientTimeout`.
  `retransmitReliable` (958-1016) writes datagrams too and is not part of the module:
  `WithinAgreedSize` says nothing of a message retransmitted after a renegotiation.
  The client reads with the same operators as the server, and knows the game's
  message types from the start. The module's assumptions say what its inputs are:
  messages whose fields have their Go types, a client that sends no values or
  snapshots, and definitions on which both sides agree.

## 3. Runs

All runs end within two or three minutes. Deadlock is not checked where a model
stops at a bound; `ObjectRegistry` has none and is checked.

| Run | Shows | Bounds and why they are enough |
| --- | --- | --- |
| `client_books` | of the window `AcceptOnce`, `AckExact`, `AckAdvances`, refinement of `ReceiveMemory` (`MemorySpec`); of the bucket `BucketBounds`, `SpentAccounted`; of the inputs `Balanced` (with the limit of the buffer), `Ordered`, `AheadIsConsumed` | window 4 of 17 sequences: packets fall behind by more than the window many times over; capacity 2, packets of 1 and 2, clock to 4; three inputs for a limit of two, two objects, three ticks. The three share no state, so only one moves in a behaviour; proved for all values |
| `reliable_inbound` | `OrderedInOrder`, `NothingDispatchableWaits`, `UnorderedOnce`, `NoSilentLoss`, `PendingDrains` | five scenarios: three ordered messages, of which the second and third may wait for the first; two with an unreliable one that moves the window; two with an expiry at any point; one per stream with an expiry; two with two sends that throw. Window 2, so acknowledgements are forgotten; two attempts, so there are resends |
| `reliable_outbound` | `RemovedMeansDelivered`, `AttemptsBounded` (with the limit of the queue), `QueueDrains` | three responses or snapshots for a queue of two; classes not negotiated become unreliable traffic that moves the window |
| `reliable_outbound_ids` | violation, see 5 | two responses |
| `snapshot_broadcast` | `ClientMatchesBaseline`, `ResetForcesFull`, `CycleBounded`, `PriorityRespected` | two objects with two values under limits 0 to 2, encoding and writing may fail; one client for four ticks, a full-snapshot interval of three and two resets, and two clients for two ticks and a reset, so that a broadcast is abandoned after one of them was committed; proved for any number |
| `baseline_was_sent` | violation, see 5 | two clients and one value, where encoding may fail |
| `client_sessions` | `UniqueAuthenticatedIds`, `SnapshotsToMembers`, `RemovedWasUnheard`, `SilentAreRemoved`, `WithinMaxClients` | three addresses for two places and one ID to fight over; the clock passes the timeout |
| `visibility` | `SnapshotIsExpected`, `OwnObjectSeen` | three objects, so that two radii compete for the cell size of a player without one; positions on both sides of the origin at the edge of a radius; three changes |
| `object_registry` | `FeaturesFollowObject`, `HooksOnRegistered`, `InitBeforeHooks`, `HandlerCanBeRemoved`, `HoldersOfMuMove` | three goroutines, two names of one type, two objects and a removal: enough for a replacement, a removal between two steps of a registration, and a name whose type is still known; two ticks, one of them full |
| `wire_session` | `ServerReadsWhatWasSent`, `ClientReadsWhatWasSent`, `WithinAgreedSize`, `WelcomeStatesAgreement`, `UsesOnlyAgreed`, refinement of `Handshake` (`ImplementsHandshake`) | integers of 2 and 3 bytes, so that they fit TLC's; limits so low that a chat text, a nested value, a count of messages and a packet meet them; two configurations; seven hellos, among them one without terms, one of another version, one with an unknown capability and sizes that fit nothing, an error only, or a welcome; packets of one and two messages, with empty last fields; four snapshots with every kind of value; proved for all widths, limits, packets and configurations, but for the values inside snapshots |
| `negotiated_capabilities`, `unknown_messages` | violations, see 5 | the same instance |

Each property of a passing run has a mutant in `PROJECT.json`: a plausible
mistake in a modelled definition that violates it.

### Fairness

* `ReliableInbound`: the game calls `UpdateAsync` every frame and awaits end
  (weak fairness of tracking and resending). Sends throw finitely often, as many
  times as the scenario says, at any point: under a socket that throws for ever no
  attempt is counted, and the list does not drain. Nothing is assumed of network or
  server.
* `ReliableOutbound`: the ticker fires and every retry interval passes, so each
  queued message is collected (weak fairness of a collection that takes all of
  them), and the tick goroutine finishes its writes.
* `ClientSessions`: hooks return and neither goroutine stops (weak fairness);
  the tick goroutine gets `hooksMu` although the receive goroutine may take it
  again and again (strong fairness). `sync.Mutex` hands over to a waiter that
  has waited for a millisecond, which justifies it. Nothing is assumed of
  `Accept`: a client need not be heard.

## 4. Proofs

TLAPS checks these for every value of the constants: any number of clients,
objects, messages and goroutines, any limits, windows and bounds. Each theorem
`Spec => []P` goes the same way: an invariant that says what the code relies on
without saying it, that TLC has checked on an instance, is shown to hold at first
and to survive every action, and `P` follows from it.

* `UDPClientProofs`: what the server keeps for one client.
  * The window. `WindowIInv` says that `receivedSeqs`
    is exactly the accepted sequences inside the window, that `ackBits` is what
    `AckBits` computes from it, and that every sequence accepted is at most `ack`
    and was accepted once. `AcceptOnce` alone is not inductive: that an old packet
    was accepted is forgotten by `receivedSeqs`, and only the link between what is
    pruned and what `TooOld` rejects closes the gap. From it follow
    `TypeCorrect`, `AcceptOnceHolds`, `AckExactHolds`, `AckAdvancesHolds` and
    `ImplementsMemory`, the refinement of the receiver with unlimited memory.
  * The bucket. The invariant of the ledger: tokens in the bucket plus
    bytes spent never exceed the initial capacity plus what was refilled up to
    `lastRefill`, counting the intervals by which `lastRefill` went back. It needs
    the bounds of the bucket and of the times, since refills are capped.
    `BucketBoundsHold` and `SpentAccountedHolds` follow.
  * The handshake. The invariant says that the client's record holds what the last
    hello agreed on: negotiated, the common capabilities if there are any, and the
    lower packet size. `UsesOnlyAgreed` alone is not inductive: three functions write
    the packet size and two the capabilities, and that `markWireClient` leaves them
    alone needs that they are set. `UsesOnlyAgreedHolds` and `LimitIsLowerHolds` follow.
  * The input buffer. `InputIInv`: each list is sorted by `Precedes`; numbers of inputs
    are given out once; an input that was stored before its tick came is still due, or
    its tick is running and its client's hook has not run (`AheadInv`); and the balance
    of the counters with what is held. `AheadIsConsumed` alone is not inductive, since
    `ConsumeForTick` and the limit take inputs out in between. The loop of `Remaining`
    is followed by induction over its turns (below): after each it has kept a sorted list
    of what did not match, and as many inputs as it left out are matching. `BalancedHolds`, `OrderedHolds` and `AheadIsConsumedHolds` follow.
  * The codec. `InductionUpTo` and `Iterates` give induction and recursion up to a bound
    from the well-foundedness of the natural numbers; every loop and fold of the codec is
    a function on `0 .. N` that they determine. On them stands a chain of round trips,
    each with exactly the case in which `bytes.Reader.Read` fails: integers
    (`UintRoundTrip`), counted runs (`CountedRoundTrip`), joined writes, rows of integers,
    envelopes and framed messages, a packet (`PacketRoundTrip`), a message's fields
    (`BodyRoundTrip`), and a datagram between two registries (`DatagramRoundTrip`).
  * The session over bytes. `RegistryInv` says that the built-in types are registered and
    that the registry agrees with the client's on every type and ID both have, which
    `Register` keeps because it refuses what is taken; with it `DatagramRoundTrip` gives
    `ServerReadsHolds`: what is read is what was sent, and all is read but for packets in
    which a message `MayBeDropped`. `SessionIInv` adds to the handshake's invariant that the hellos in
    the inbox are hellos the client sent, that version and size fit the fields of a
    welcome (`TermsOK`), and that the tick goroutine's copy is bound by what was agreed on
    when it was made. Hence `SessionImplementsHandshake`, which carries the agreement over
    to the bytes (`SessionKeepsAgreement`), and `WelcomeStatesAgreementHolds`, for every
    codec of values. `ClientReadsHolds` and, since it has to know that what is written is
    bytes, `WithinAgreedSizeHolds` have the hypothesis `TreesReadBack`: values, snapshots
    and references in what the server sends are read back before any bytes that follow.
    TLC evaluates it for the values of the run (`MCTreesReadBack`).
* `ReliableReceiverProofs`: lemmas that both directions need. `Gap` is the first ID
  that is missing, found as the least element of a set; a receiver that has delivered
  everything below `next` and buffers only what is above it stays so
  (`ReceiveKeeps`); what one message releases are the IDs that follow
  (`DispatchesOrdered`); the acknowledgement a window states names only what it
  received (`WindowNames`).
* `ReliableInboundProofs`. `SessionInv` ties what was dispatched to the receiver's
  state: `1 .. next - 1` in order, and the unordered IDs it remembers. `TransferInv`
  follows the packets: every sequence belongs to one packet, a sequence tracked for a
  message is that of a packet with it, and every acknowledgement that was ever sent,
  also one of a session that has expired and arrives late, names packets whose message
  was taken in or is between the two critical sections of the server (`Taken`). Without
  the last part `NoSilentLoss` is not inductive. A send that throws leaves a sequence
  that belongs to no packet, and no acknowledgement names it. `DispatchInOrder`,
  `DispatchOnce`, `DispatchAtOnce` and `NoneLost` follow.
* `ReliableOutboundProofs`. `CountInv`: the attempts of a queued message are the
  sequences it was sent under, and what was written plus what either goroutine is about
  to write is within them, also after an acknowledgement removed the message between
  the collection and the write (`AttemptLimit`, with the queue limit). `DeliveryInv`
  is the counterpart of `TransferInv`, with the message between
  `prepareReliableMessage` and `queueReliableOutbound` as an extra place (`Delivered`).
  `TypesCorrect` is part of it.
* `SnapshotBroadcastProofs`. `DeltaRoundTrip`: applying a built delta to the view it
  was built against gives the current view, also where values count as changed that
  are not. `DeliveryInv` says that what is on its way to a client turns what the client
  has into its baseline; it holds through resets between encoding and commit, because a
  commit always writes what was encoded. Clients with
  a snapshot that was not written are excepted until a full one is (`unsent`), and since
  a full one does not depend on what the client has, `ClientsMatchBaseline` holds
  whatever fails and for any number of clients. `BaselinesWereSent` is the documented rule
  without the exception, where nothing fails; section 5 has the counterexample where
  encoding may. `CycleInv` gives `CyclesBounded`, `ResetInv` (no baseline, and
  no commit that would bring one) `ResetsForceFull`, and `TrimInv` with
  `FilterKeepsTail` `PrioritiesRespected`.
* `ClientSessionsProofs`. `IInv` adds to the properties that a record's time is that
  of the last accepted datagram, that the table is finite and that only a broadcast has
  clients left to serve. `ClientLimit`, `IdsUnique`, `BroadcastToMembers`, the action
  property `RemovalIsDue` and `TypesCorrect` follow. `IdsUnique` rests on the check and
  the assignment being in one critical section, after the hook.
* `VisibilityProofs`. `HashMatchesLinear`: with the query radius as its cell
  size the hash shows exactly what the linear filter shows. Floor division is
  monotone, a distance within the radius bounds both planar distances, and the
  query radius is at least every radius that filters. `ServerMatchesLinear`
  carries it over to `visibleInterestObjectKeys`, with the existence of a largest
  radius among finitely many objects. `SnapshotExact` carries it over to the
  snapshots of the running system: `SnapshotInv` says that a view is what was computed
  from the reads. `OwnObjectAlwaysSeen` needs `SwitchInv`, that the scenes of a client
  and its object agree except while a switch holds `hooksMu`, and the hypothesis
  `OneObjectEach`: of two objects with a client's ID a switch moves only one.
* `ObjectRegistryProofs`. `HoldersOfMuMove` and `HandlerCanBeRemoved` are inductive
  with the types. `HooksOnlyRegistered` needs that the objects listed for hooks are in
  the history too, `HooksAfterInit` that an object which can be found and has not
  finished `OnInit` is the one some goroutine is registering (`InitInProgress`), and
  `FeaturesFollow` what interest, scene and table hold after each step of a
  registration or removal (`FeaturesInStep`).

Assumptions are those of the modules (`ASSUME` with a name), which TLC evaluates in
every run: window, capacity, timeout, interval, tick rate and attempt and queue limits
are positive, rates, sizes and bounds are natural numbers, a hello's fields are unsigned,
the empty ID is not an ID, objects are finitely many, and each is once in the drop order.
For the codec: limits, message IDs and the constants of the header fit the fields that
carry them, and no message type has the ID of the envelope.

Only model-checked:

* the liveness properties `PendingDrains`, `QueueDrains` and `SilentAreRemoved`:
  fairness is out of the prover's reach;
* that the codec of values reads back what it writes (`TreesReadBack`): `WireValue` is
  recursive over values, and the sorted keys of a map and the sorted references are
  chosen sequences, whose existence needs an induction over data. Everything around it,
  which is what framing, delivery classes and negotiation depend on, is proved.

## 5. Where code and documentation differ

Four runs end in a counterexample and are listed as findings:

* `reliable_outbound_ids`. Ordered and unordered responses share
  `nextReliableID`, so ordered IDs have gaps; the client's ordered stream waits
  for ever behind a gap. An ID is lost too when the packet is refused after
  `prepareReliableMessage`.
* `negotiated_capabilities`. When a hello and the server have no capability in
  common, the negotiated set is empty. The client's next packet finds it empty and
  `markWireClient` puts the default in its place, so the server then uses
  capabilities the client did not ask for. `UsesOnlyAgreed` states what does hold.
* `baseline_was_sent`. When encoding fails for a second client, the first one's
  baseline has been committed and its snapshot is never written (`EncodeFails`), so
  the next delta refers to a state the client does not have; `architecture.md:124`
  calls the baseline the previously sent snapshot. A failed write does the same to its
  client (`WriteFails`). `ClientMatchesBaseline` states what does hold: the next full
  snapshot ends it.
* `unknown_messages`. A message of unknown type without payload that is the last of
  its packet drops the packet with the known messages in it, since
  `bytes.Reader.Read` fails at the end of the data (`Read`); the comment at
  `wire.go:85` and `architecture.md:156` say that it is skipped.
  `ServerReadsWhatWasSent` states what does hold.

The models also show these, without a run of their own:

* A sequence older than the newest one is accepted within the window
  (`ReceiveWindow.Accept`); `api/network.md:549` says older ones are rejected.
* A baseline reset that falls between encoding and `commitSnapshotBaseline` is
  undone by the commit (`Encode`, `DeleteBaseline`, `Commit`), and the next snapshot
  is a delta; `configuration.md:252` says that a full one is forced. `ResetForcesFull`
  states what does hold.
* A message of known type whose last field is empty (an `ObjectRequest` without
  data, a hello with neither token nor terms, a value that ends in an empty string)
  cannot be decoded, and fails its packet (`Read` at the end of the data). So does a
  message without payload that is the last of its packet or in an envelope.
  `MayBeDropped` names these messages; `ServerReadsWhatWasSent` and
  `ClientReadsWhatWasSent` promise nothing of their packets but that what is read is
  right.
* An ordered message whose send throws has used up its ID (`SendMessageFails`), and a
  resend that throws counts no attempt and skips what else was due (`ResendFails`). The
  server's ordered stream waits for the missing ID for ever, and a game that sends the
  message again gets the next ID for it.
* After the server has forgotten a client (`Expire`), the new session's ordered stream
  waits for ID 1, which the client, whose numbering goes on, does not send again once it
  was acknowledged.
* A truncated integer is filled with zeros instead of refused (`Read`);
  `api/network.md:1215` says that truncated payloads are malformed.
* A client that asks for a packet size in which no welcome fits is authenticated,
  and neither its welcome nor an error reaches it (`WriteDatagram`).
* Negotiation takes effect although authentication then fails (`HandleHello`). A hello
  without terms after one with terms enables everything again, while a lower packet
  size stays, and with it a welcome that lists the old capabilities (`WelcomeTerms`);
  `WelcomeStatesAgreement` speaks of hellos with terms.
* `Normalized` is not idempotent: with delta snapshots disabled and a mask of delta
  alone, `NewRuntime` leaves an empty mask, and the second call in
  `NegotiateClientHello` makes it the default without delta.
* `Register` accepts any ID that is free, also 7, the ID of the reliable envelope,
  whose messages `DecodeFramed` never hands to the registry.
* A retransmit deferred for lack of budget counts as an attempt
  (`DeferRetransmit` after `CollectRetransmits`), so a message can be dropped
  after fewer sends than `ReliableMaxAttempts`.
* A scene switch of a wire client resets no baseline (`SwitchScene`): the
  response type is not a registered wire message, and the error path returns
  before the reset.
* An object trimmed for size appears as despawned in the delta
  (`Filtered` builds the delta of the trimmed view).
* An unchanged struct whose JSON fields are not declared in alphabetical order
  compares as changed (`SnapshotValuesEqual` with `Reordered`).
* The refill clock may go back (`Settle` with an earlier time), so a client may
  get more than its rate; `SpentAccounted` says by how much.
* An input without a tick is stamped with the current tick, whose hooks have
  usually run: `ConsumeClientInputs` of later ticks does not return it, and it
  stays until the limit pushes it out (`BeginBuffer`, `Add`).
* An input may be stored after its window has passed (`BeginBuffer`, `Advance`,
  `Add`).
* While a long hook keeps the receive goroutine waiting, clients that keep
  sending can be removed as inactive (`Accept` is held up, `Overdue` is not).
* The hash leaves out an object whose depth is not finite where the linear
  filter would compare X and Y (`SameDepth`).
* Two calls of `CreateObject` for one name both succeed, and the second replaces
  the first (`CreateCheck`, then `Put`); `architecture.md:130` says that creation
  rejects duplicates.
* An object that server code registers while ticks run can get `OnTick` before or
  during its `OnInit`, which is called without `hooksMu`, and `SnapshotPriority` is
  called without it as well; `architecture.md:194` says that callbacks are not
  called concurrently. `InitBeforeHooks` states what holds of objects registered
  from hooks.
* A removal between the steps of a registration leaves interest and scene
  registrations of an object that is gone; `FeaturesFollowObject` excludes names
  whose operations overlapped.
* `RegisterObject` under the name of the authentication object replaces the
  object and leaves its predecessor bound as the handler; `HooksOnRegistered`
  excludes authentication for that reason.

## 6. Not modelled

The JSON form of packets, which the server takes beside the wire form. The removal
of a silent client in `ReliableOutbound` (`removeStaleClients`, `udp.go:1519-1530`): it
deletes the retry queue, and starts the reliable IDs again while the C# client
remembers the old ones, so that after a return the client ignores messages whose IDs
it has seen. Retransmissions in `WireSession`, and a tick between the steps of a hello
(section 2). The debug
server and counters that nothing reads: they read under the locks and change
nothing. `server.go` and `main.go`, which delegate and start the goroutines that
the modules interleave; `payload.go`, decoding helpers without state. The Rust
client, a second implementation of what `ReliableInbound` models. Sample objects:
hooks are the environment. Of Go's reflection, what tells the kinds of values
apart; a map whose keys have a named string type, which `reflect` refuses in
`MapIndex`, is outside of the kinds. Widths of 32 and 64 bits: TLC's integers are
too small, and the codec treats every width alike. Float extremes in the spatial
hash. Growth of the ordered buffer and of the received-ID set, which the code does
not bound. A hook that calls a method that takes `hooksMu`: it waits for its own
goroutine.

## 7. What could follow

1. The codec of values with a bound on its depth as a constant, one level at a time, and
   the sorted keys as an enumeration of a finite set, which would remove the hypothesis
   of `ClientReadsHolds`.
2. `TypeOK` of `Visibility` and `SnapshotBroadcast` as theorems of their own.
3. Sessions composed with the input buffer: inputs under an ID that changes.
4. The registry composed with `Visibility`: objects come and go while snapshots are
   filtered.
