------------------------ MODULE MCSnapshotBroadcast ------------------------
(* Instances of SnapshotBroadcast for TLC. *)
EXTENDS SnapshotBroadcast

CONSTANTS c1, c2

TwoObjects == <<"tree", "player">>

(* One client through a whole cycle of full and delta snapshots, with resets;
   and two clients, where a broadcast can be abandoned for the one because
   the other's snapshot cannot be encoded. *)
MCScenarios == {[clients |-> {c1}, ticks |-> 4, resets |-> 2],
                [clients |-> {c1, c2}, ticks |-> 2, resets |-> 1]}

TwoClients == {[clients |-> {c1, c2}, ticks |-> 2, resets |-> 0]}
=============================================================================
