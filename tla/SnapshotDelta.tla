--------------------------- MODULE SnapshotDelta ---------------------------
(***************************************************************************)
(* BuildSnapshotDelta of network/snapshot_delta.go.  A snapshot is a       *)
(* function from the visible objects to their values; the object type and  *)
(* ID of the code together name one object.                                *)
(***************************************************************************)

(* snapshotValuesEqual compares JSON text.  The baseline is a clone decoded
   into maps (CloneSnapshotData), which print their keys sorted.  A current
   value may still be the object's own struct, printed in declaration order:
   unsorted holds the objects for which that order is another one. *)
SnapshotValuesEqual(object, cloned, current, unsorted) ==
    cloned = current /\ object \notin unsorted

(* Mutated: objects that left the view are not reported. *)
MutDeltaNoDespawn(previous, current, unsorted) ==
    [spawned   |-> [o \in DOMAIN current \ DOMAIN previous |-> current[o]],
     changed   |-> [o \in {x \in DOMAIN current \cap DOMAIN previous :
                             ~SnapshotValuesEqual(x, previous[x], current[x], unsorted)}
                      |-> current[o]],
     despawned |-> {}]

BuildSnapshotDelta(previous, current, unsorted) ==
    [spawned   |-> [o \in DOMAIN current \ DOMAIN previous |-> current[o]],
     changed   |-> [o \in {x \in DOMAIN current \cap DOMAIN previous :
                             ~SnapshotValuesEqual(x, previous[x], current[x], unsorted)}
                      |-> current[o]],
     despawned |-> DOMAIN previous \ DOMAIN current]

(* What a client does with a delta: the meaning the protocol gives to the
   spawned, changed and despawned lists. *)
ApplySnapshotDelta(view, delta) ==
    [o \in (DOMAIN view \ delta.despawned)
              \cup DOMAIN delta.spawned \cup DOMAIN delta.changed |->
        IF o \in DOMAIN delta.spawned THEN delta.spawned[o]
        ELSE IF o \in DOMAIN delta.changed THEN delta.changed[o]
        ELSE view[o]]
=============================================================================
