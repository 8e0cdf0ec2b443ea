-------------------------- MODULE BandwidthBudget --------------------------
(***************************************************************************)
(* The outbound token bucket of one UDP client (network/udp.go).  The      *)
(* receive goroutine charges responses at the current time; the tick       *)
(* goroutine charges retransmissions and snapshots at a time it read       *)
(* earlier, before working through all clients, and it asks for the limit  *)
(* of a snapshot first and reserves the encoded bytes later.  The calls    *)
(* are atomic under server.mu and interleave freely.                       *)
(*                                                                         *)
(* Time is counted in units in which Rate bytes are refilled; the bucket   *)
(* holds Capacity bytes (one second's worth).  The code's float64 amounts  *)
(* are integers here.                                                      *)
(***************************************************************************)
EXTENDS Integers

CONSTANTS Rate,      \* bytes refilled per unit of time
          Capacity,  \* Config.ClientBytesPerSecond
          Packets,   \* sizes of outbound packets
          MaxRetries,  \* retransmissions to the client in one tick (bound)
          MaxClock     \* bound on the clock

ASSUME RateAssumption == Rate \in Nat
ASSUME CapacityAssumption == Capacity \in Nat \ {0}
ASSUME PacketsAssumption == Packets \subseteq Nat
ASSUME MaxRetriesAssumption == MaxRetries \in Nat

VARIABLES
    clock,      \* time.Now()
    connected,  \* whether the client exists
    available,  \* client.budgetAvailable
    lastRefill, \* client.budgetLastRefill
    phase,      \* tick goroutine: "idle", "retry" or "snapshot"
    tickNow,    \* tick goroutine: the time it read when the phase began
    retries,    \* tick goroutine: retransmissions left in this tick
    limit,      \* tick goroutine: budget it read for a snapshot, or -1
    spent,      \* history: bytes granted
    createdAt,  \* history: when the client connected
    rewound     \* history: by how much lastRefill was set back in all

vars == <<clock, connected, available, lastRefill, phase, tickNow, retries, limit,
          spent, createdAt, rewound>>
tickLoop == <<phase, tickNow, retries, limit>>
bucket == <<connected, available, lastRefill, spent, createdAt, rewound>>

TypeOK ==
    /\ clock \in Nat /\ connected \in BOOLEAN
    /\ available \in Nat /\ lastRefill \in Nat
    /\ phase \in {"idle", "retry", "snapshot"}
    /\ tickNow \in Nat /\ retries \in Nat /\ limit \in Nat \cup {-1}
    /\ spent \in Nat /\ createdAt \in Nat /\ rewound \in Nat

Init ==
    /\ clock = 0 /\ connected = FALSE
    /\ available = 0 /\ lastRefill = 0
    /\ phase = "idle" /\ tickNow = 0 /\ retries = 0 /\ limit = -1
    /\ spent = 0 /\ createdAt = 0 /\ rewound = 0

-----------------------------------------------------------------------------
Least(a, b) == IF a <= b THEN a ELSE b

(* Mutated: the bucket is not capped. *)
MutRefilledUncapped(now) ==
    IF now < lastRefill THEN available
    ELSE available + Rate * (now - lastRefill)

(* refillClientBudgetLocked: the tokens after a refill at time now.  A now
   before the last refill adds nothing but still becomes the last refill. *)
Refilled(now) ==
    IF now < lastRefill THEN available
    ELSE Least(Capacity, available + Rate * (now - lastRefill))

(* Mutated: a grant leaves the tokens in the bucket. *)
MutSettleKeepsTokens(now, bytes) ==
    /\ available' = Refilled(now)
    /\ spent' = spent + bytes
    /\ lastRefill' = now
    /\ rewound' = rewound + (IF now < lastRefill THEN lastRefill - now ELSE 0)

(* A refill at time now that also hands out bytes. *)
Settle(now, bytes) ==
    /\ available' = Refilled(now) - bytes
    /\ spent' = spent + bytes
    /\ lastRefill' = now
    /\ rewound' = rewound + (IF now < lastRefill THEN lastRefill - now ELSE 0)

(* reserveOutboundBudget for a live client *)
Reserve(now, bytes) ==
    IF Refilled(now) >= bytes THEN Settle(now, bytes) ELSE Settle(now, 0)

AdvanceClock ==
    /\ clock < MaxClock
    /\ clock' = clock + 1
    /\ UNCHANGED <<tickLoop, bucket>>

(* getOrCreateClientLocked *)
Connect ==
    /\ ~connected
    /\ connected' = TRUE
    /\ available' = Capacity
    /\ lastRefill' = clock /\ createdAt' = clock
    /\ UNCHANGED <<clock, tickLoop, spent, rewound>>

(* sendUDPResponse on the receive goroutine *)
Respond(bytes) ==
    /\ connected
    /\ Reserve(clock, bytes)
    /\ UNCHANGED <<clock, connected, createdAt, tickLoop>>

(* advanceAndMaybeBroadcast reads the time for the retransmissions it then
   collects, *)
BeginTick ==
    /\ phase = "idle"
    /\ phase' = "retry"
    /\ tickNow' = clock
    /\ \E n \in 0 .. MaxRetries : retries' = n /\ (n > 0 => connected)
    /\ UNCHANGED <<clock, limit, bucket>>

(* retransmitReliable *)
Retransmit(bytes) ==
    /\ phase = "retry" /\ retries > 0
    /\ Reserve(tickNow, bytes)
    /\ retries' = retries - 1
    /\ UNCHANGED <<clock, connected, createdAt, phase, tickNow, limit>>

(* and snapshots() reads it once more, after listing the clients. *)
BeginSnapshots ==
    /\ phase = "retry"
    /\ connected
    /\ phase' = "snapshot"
    /\ tickNow' = clock
    /\ retries' = 0
    /\ UNCHANGED <<clock, limit, bucket>>

(* outboundBudgetLimit: how large the client's snapshot may be *)
ReadLimit ==
    /\ phase = "snapshot" /\ limit = -1
    /\ Settle(tickNow, 0)
    /\ limit' = Refilled(tickNow)
    /\ UNCHANGED <<clock, connected, createdAt, phase, tickNow, retries>>

(* reserveOutboundBudget for the snapshot encoded to fit the limit *)
SendSnapshot(bytes) ==
    /\ limit # -1
    /\ bytes <= limit
    /\ Reserve(tickNow, bytes)
    /\ limit' = -1
    /\ phase' = "idle"
    /\ UNCHANGED <<clock, connected, createdAt, tickNow, retries>>

(* The tick ends with no snapshot for the client: nothing fits the limit,
   it is no snapshot tick, or the client is not eligible. *)
EndTick ==
    /\ phase # "idle"
    /\ phase' = "idle" /\ limit' = -1 /\ retries' = 0
    /\ UNCHANGED <<clock, tickNow, bucket>>

Next ==
    \/ AdvanceClock \/ Connect
    \/ BeginTick \/ BeginSnapshots \/ ReadLimit \/ EndTick
    \/ \E bytes \in Packets :
          Respond(bytes) \/ Retransmit(bytes) \/ SendSnapshot(bytes)

Spec == Init /\ [][Next]_vars

-----------------------------------------------------------------------------
(* The bucket is never overdrawn by the two goroutines, although a snapshot
   is sized before its bytes are reserved, and never holds more than a
   second's worth. *)
BucketBounds == 0 <= available /\ available <= Capacity

(* architecture.md: a token bucket "refilled at ClientBytesPerSecond bytes
   per second".  Every byte sent was refilled: a client receives at most its capacity plus
   the rate for the time since it connected, plus the rate for the time by
   which its refill clock was set back. *)
SpentAccounted ==
    connected => spent <= Capacity + Rate * (clock - createdAt + rewound)
=============================================================================
