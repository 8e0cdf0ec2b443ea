-------------------------- MODULE ReliableReceiver --------------------------
(***************************************************************************)
(* The receiving end of the reliable delivery classes: what                *)
(* acceptReliableIncomingMessages (server) and                             *)
(* AcceptIncomingReliableMessages (C# client) keep per peer and what they  *)
(* hand on for dispatch.  A message is its delivery class and reliable ID. *)
(***************************************************************************)
EXTENDS Naturals, Sequences, FiniteSets

Classes == {"unreliable", "ordered", "unordered"}
Message(class, id) == [class |-> class, id |-> id]

(* unordered: IDs of unordered messages received
   next:      the ordered ID to dispatch next
   received:  ordered IDs dispatched
   buffer:    ordered IDs that arrived before their turn *)
NewReceiver ==
    [unordered |-> {}, next |-> 1, received |-> {}, buffer |-> {}]

(* Mutated: a message that was dispatched is not recognised as a duplicate. *)
MutIgnoresForgetsReceived(r, m) ==
    /\ m.class # "unreliable"
    /\ \/ m.id = 0
       \/ m.class = "unordered" /\ m.id \in r.buffer
       \/ m.class = "ordered" /\ (m.id \in r.buffer \/ m.id < r.next)

(* The reasons to drop a reliable message without dispatching it. *)
Ignores(r, m) ==
    /\ m.class # "unreliable"
    /\ \/ m.id = 0
       \/ m.class = "unordered" /\ m.id \in r.unordered
       \/ m.class = "ordered" /\ (m.id \in r.received \cup r.buffer \/ m.id < r.next)

(* Mutated: stops after the first buffered message. *)
MutGapStopsEarly(buffer, n) == IF n \in buffer THEN n + 1 ELSE n

(* The first ID from n on that is not buffered: where the release loop, which
   takes the buffered IDs that follow one another from n, ends. *)
Gap(buffer, n) == n + Cardinality({j \in buffer : n <= j /\ n .. j \subseteq buffer})

InTurn(r, m) == m.class = "ordered" /\ m.id = r.next

(* The receiver after a message, *)
Receive(r, m) ==
    CASE Ignores(r, m) \/ m.class = "unreliable" -> r
      [] m.class = "unordered" /\ ~Ignores(r, m) ->
            [r EXCEPT !.unordered = @ \cup {m.id}]
      [] InTurn(r, m) /\ ~Ignores(r, m) ->
            LET end == Gap(r.buffer, r.next + 1)
            IN  [r EXCEPT !.next = end,
                          !.received = @ \cup r.next .. end - 1,
                          !.buffer = @ \ (r.next .. end - 1)]
      [] OTHER -> [r EXCEPT !.buffer = @ \cup {m.id}]

(* Mutated: dispatches an ordered message as soon as it arrives. *)
MutDispatchesAtOnce(r, m) == IF Ignores(r, m) THEN << >> ELSE <<m.id>>

(* and the IDs it dispatches, in order; all are of the message's class. *)
Dispatches(r, m) ==
    CASE Ignores(r, m) -> << >>
      [] m.class # "ordered" /\ ~Ignores(r, m) -> <<m.id>>
      [] InTurn(r, m) /\ ~Ignores(r, m) ->
            [i \in 1 .. Gap(r.buffer, r.next + 1) - r.next |-> r.next + i - 1]
      [] OTHER -> << >>
=============================================================================
