---------------------------- MODULE InputBuffer ----------------------------
(***************************************************************************)
(* The runtime's tick-aligned client input buffer (network/input_buffer.go *)
(* and BufferClientInput of network/runtime.go).  The receive goroutine    *)
(* reads the current tick, lets go of runtime.mu and then adds the input;  *)
(* the tick goroutine meanwhile advances the tick and runs the OnTick      *)
(* hooks, in which game code consumes inputs.                              *)
(*                                                                         *)
(* An input is identified by its number, the order of its arrival; object  *)
(* type and ID together are one object.  The game of the model consumes,   *)
(* in every tick, what ConsumeClientInputs or ConsumeClientInputsForObject *)
(* returns for each client, and may look back with                         *)
(* ConsumeClientInputsForTick.                                             *)
(***************************************************************************)
EXTENDS Naturals, Sequences, FiniteSets

CONSTANTS Clients, Objects,
          Stamps,               \* sequence numbers clients put on inputs
          MaxInputFutureTicks,  \* Config.MaxInputFutureTicks
          MaxInputPastTicks,    \* Config.MaxInputPastTicks
          InputBufferLimit,     \* Config.InputBufferLimit
          MaxTick, MaxInputs    \* bounds: ticks, and inputs that arrive

ASSUME BufferLimitAssumption == InputBufferLimit \in Nat \ {0}
ASSUME WindowsAssumption == MaxInputFutureTicks \in Nat /\ MaxInputPastTicks \in Nat
ASSUME ClientsAssumption == IsFiniteSet(Clients)
ASSUME OrderAssumption == Stamps \subseteq Nat /\ Objects \subseteq Nat  \* compared by sortClientInputs
ASSUME BoundsAssumption == MaxTick \in Nat /\ MaxInputs \in Nat

VARIABLES
    tick,       \* runtime.tick
    hooks,      \* tick goroutine: clients whose inputs OnTick still has to consume
    adding,     \* receive goroutine: input between BufferClientInput's two halves (at most one)
    byClient,   \* inputBuffer.byClient
    metrics,    \* inputBuffer.metrics
    inputs,     \* how many inputs have arrived
    aimedAhead  \* history: inputs stored while their tick was still to come

inputVars == <<tick, hooks, adding, byClient, metrics, inputs, aimedAhead>>

Ticks == 0 .. MaxTick
Inputs == [number : 1 .. MaxInputs, client : Clients, sequence : Stamps, tick : Ticks,
           object : Objects]
Elements(s) == {s[i] : i \in DOMAIN s}

InputTypeOK ==
    /\ tick \in Ticks /\ hooks \subseteq Clients
    /\ inputs \in 0 .. MaxInputs /\ aimedAhead \subseteq 1 .. inputs
    /\ \A a \in adding : a.input \in Inputs /\ a.readTick \in Ticks
    /\ byClient \in [Clients -> Seq(Inputs)]
    /\ metrics \in [buffered : Nat, consumed : Nat, dropped : Nat]

InputInit ==
    /\ tick = 0 /\ hooks = {} /\ adding = {} /\ inputs = 0
    /\ byClient = [c \in Clients |-> << >>]
    /\ metrics = [buffered |-> 0, consumed |-> 0, dropped |-> 0]
    /\ aimedAhead = {}

-----------------------------------------------------------------------------
(* The receive goroutine. *)

(* BufferClientInput reads the tick; an input without a tick (0) gets the
   tick that was read. *)
BeginBuffer(c, sequence, aim, object) ==
    /\ adding = {}
    /\ inputs < MaxInputs
    /\ inputs' = inputs + 1
    /\ adding' = {[readTick |-> tick,
                   input |-> [number |-> inputs + 1, client |-> c, sequence |-> sequence,
                              tick |-> IF aim = 0 THEN tick ELSE aim,
                              object |-> object]]}
    /\ UNCHANGED <<tick, hooks, byClient, metrics, aimedAhead>>

Stale(a) ==
    /\ a.input.tick < a.readTick
    /\ a.readTick - a.input.tick > MaxInputPastTicks
Future(a) == a.input.tick > a.readTick + MaxInputFutureTicks

(* The counters of rejections are not kept. *)
Reject ==
    /\ \E a \in adding : Stale(a) \/ Future(a)
    /\ adding' = {}
    /\ UNCHANGED <<tick, hooks, byClient, metrics, inputs, aimedAhead>>

(* Mutated: sorts by tick only. *)
MutPrecedesByTick(x, y) == x.tick < y.tick

(* The comparison of sortClientInputs; objects are compared as ordered. *)
Precedes(x, y) ==
    \/ x.tick < y.tick
    \/ x.tick = y.tick /\ x.sequence < y.sequence
    \/ x.tick = y.tick /\ x.sequence = y.sequence /\ x.object < y.object

(* append and the stable sort of a list that was sorted: the new input goes
   behind its equals. *)
Insert(list, input) ==
    LET place == CHOOSE n \in 0 .. Len(list) :
                    \A i \in DOMAIN list : i <= n <=> ~Precedes(input, list[i])
    IN  SubSeq(list, 1, place) \o <<input>> \o SubSeq(list, place + 1, Len(list))

(* How many inputs the limit loop removes, from the front. *)
Excess(list) == IF Len(list) > InputBufferLimit THEN Len(list) - InputBufferLimit ELSE 0

Add ==
    /\ \E a \in adding :
          LET list == Insert(byClient[a.input.client], a.input)
              excess == Excess(list)
          IN  /\ ~Stale(a) /\ ~Future(a)
              /\ byClient' = [byClient EXCEPT
                    ![a.input.client] = SubSeq(list, excess + 1, Len(list))]
              /\ metrics' = [metrics EXCEPT !.buffered = @ + 1, !.dropped = @ + excess]
              /\ aimedAhead' = IF a.input.tick > tick
                               THEN aimedAhead \cup {a.input.number} ELSE aimedAhead
    /\ adding' = {}
    /\ UNCHANGED <<tick, hooks, inputs>>

-----------------------------------------------------------------------------
(* The tick goroutine. *)

(* Advance: the tick, then the OnTick hooks. *)
Advance ==
    /\ hooks = {}
    /\ tick < MaxTick
    /\ tick' = tick + 1
    /\ hooks' = Clients
    /\ UNCHANGED <<adding, byClient, metrics, inputs, aimedAhead>>

(* Mutated: the inputs that do not match are thrown away. *)
MutTakeLosesRest(c, matching) ==
    /\ byClient' = [byClient EXCEPT ![c] = << >>]
    /\ metrics' = [metrics EXCEPT !.consumed = @ + Cardinality(matching)]

(* The loop of consume and of consumeForObject over the first n inputs. *)
Remaining(list, matching) ==
    LET remaining[n \in 0 .. Len(list)] ==
          IF n = 0 THEN << >>
          ELSE IF list[n] \in matching THEN remaining[n - 1]
          ELSE Append(remaining[n - 1], list[n])
    IN  remaining[Len(list)]

(* consume and consumeForObject: the matching inputs are handed out, the
   others stay in order. *)
Take(c, matching) ==
    /\ byClient' = [byClient EXCEPT ![c] = Remaining(@, matching)]
    /\ metrics' = [metrics EXCEPT !.consumed = @ + Cardinality(matching)]

(* Mutated: the inputs of the tick before. *)
MutAtTickBefore(x, t) == x.tick + 1 = t

AtTick(x, t) == x.tick = t

(* The inputs a client has in the buffer. *)
Of(c) == Elements(byClient[c])

(* ConsumeClientInputs in OnTick: everything for the current tick. *)
Consume(c) ==
    /\ c \in hooks
    /\ Take(c, {x \in Of(c) : AtTick(x, tick)})
    /\ hooks' = hooks \ {c}
    /\ UNCHANGED <<tick, adding, inputs, aimedAhead>>

(* ConsumeClientInputsForObject: only what is aimed at one object; the hook
   of another object may consume the rest. *)
ConsumeForObject(c, object) ==
    /\ c \in hooks
    /\ Take(c, {x \in Of(c) : AtTick(x, tick) /\ x.object = object})
    /\ UNCHANGED <<tick, hooks, adding, inputs, aimedAhead>>

(* ConsumeClientInputsForTick on an earlier tick. *)
ConsumeForTick(c, t) ==
    /\ c \in hooks /\ t < tick
    /\ Take(c, {x \in Of(c) : AtTick(x, t)})
    /\ UNCHANGED <<tick, hooks, adding, inputs, aimedAhead>>

InputNext ==
    \/ \E c \in Clients, sequence \in Stamps, aim \in Ticks, object \in Objects :
          BeginBuffer(c, sequence, aim, object)
    \/ Reject \/ Add \/ Advance
    \/ \E c \in Clients :
          \/ Consume(c)
          \/ \E object \in Objects : ConsumeForObject(c, object)
          \/ \E t \in Ticks : ConsumeForTick(c, t)

InputSpec == InputInit /\ [][InputNext]_inputVars

-----------------------------------------------------------------------------
Held == UNION {Of(c) : c \in Clients}
Slots == UNION {{c} \X DOMAIN byClient[c] : c \in Clients}

(* Nothing is lost or counted twice between the two goroutines: every input
   that was buffered has been consumed, has been dropped, or is held, and no
   client's list is above the limit. *)
Balanced ==
    /\ metrics.buffered = metrics.consumed + metrics.dropped + Cardinality(Slots)
    /\ \A c \in Clients : Len(byClient[c]) <= InputBufferLimit

(* A client's inputs are held, and so handed out, in tick and sequence
   order, whatever the order of arrival, consumption and dropping. *)
Ordered ==
    \A c \in Clients : \A i, j \in DOMAIN byClient[c] :
        i < j => LET x == byClient[c][i]
                     y == byClient[c][j]
                 IN  x.tick < y.tick \/ (x.tick = y.tick /\ x.sequence <= y.sequence)

(* An input stored before its tick is consumed in its tick or dropped
   before: it never outlives the tick it was meant for. *)
AheadIsConsumed ==
    hooks = {} => \A x \in Held : x.number \in aimedAhead => x.tick > tick
=============================================================================
