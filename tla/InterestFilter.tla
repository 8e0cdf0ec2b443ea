-------------------------- MODULE InterestFilter --------------------------
(***************************************************************************)
(* Which managed objects a player sees (network/interest_management.go and *)
(* visibleInterestObjectKeys of network/runtime.go): the spatial hash that *)
(* the server uses, and the linear filter it falls back to.                *)
(*                                                                         *)
(* entries maps the keys of the snapshotted objects to what                *)
(* interestSnapshotObject holds.  Coordinates are integers, far from the   *)
(* limits of float64; nan says which of them is NaN or infinite instead:   *)
(* "none", "plane" (X or Y) or "depth" (Z).  A radius that is NaN or       *)
(* infinite is Unlimited.                                                  *)
(***************************************************************************)
EXTENDS Integers

Unlimited == -1
Radii == Nat \cup {Unlimited}
Positions == [x : Int, y : Int, z : Int, hasZ : BOOLEAN, nan : {"none", "plane", "depth"}]
Entries == [visible : BOOLEAN, managed : BOOLEAN, includeSelf : BOOLEAN, radius : Radii,
            hasPosition : BOOLEAN, position : Positions]

FiniteInterestPosition(p) == p.nan = "none" \/ (p.nan = "depth" /\ ~p.hasZ)

(* A comparison with NaN or infinity on one side of the distance is false. *)
WithinInterestRadius(a, b, radius) ==
    LET dx == a.x - b.x
        dy == a.y - b.y
        dz == a.z - b.z
    IN  /\ a.nan # "plane" /\ b.nan # "plane"
        /\ IF a.hasZ /\ b.hasZ
           THEN a.nan # "depth" /\ b.nan # "depth" /\ dx * dx + dy * dy + dz * dz <= radius * radius
           ELSE dx * dx + dy * dy <= radius * radius

EffectiveInterestRadius(playerRadius, radius) ==
    IF playerRadius = 0 THEN radius ELSE playerRadius

FiltersByInterestRadius(radius) == radius > 0

-----------------------------------------------------------------------------
(* The spatial hash. *)

(* Mutated: the smallest radius an object brings. *)
MutQueryRadiusSmallest(entries, playerRadius, r) ==
    LET wanted == {EffectiveInterestRadius(playerRadius, entries[k].radius) :
                     k \in {j \in DOMAIN entries : entries[j].visible /\ entries[j].managed}}
        filters == {s \in wanted : FiltersByInterestRadius(s)}
    IN  IF FiltersByInterestRadius(playerRadius) THEN r = playerRadius
        ELSE IF filters = {} THEN r = 0
        ELSE r \in filters /\ \A s \in filters : s >= r

(* interestSpatialQueryRadius returns r: the player's radius if that filters,
   or the largest one an object brings, or 0. *)
IsQueryRadius(entries, playerRadius, r) ==
    LET wanted == {EffectiveInterestRadius(playerRadius, entries[k].radius) :
                     k \in {j \in DOMAIN entries : entries[j].visible /\ entries[j].managed}}
        filters == {s \in wanted : FiltersByInterestRadius(s)}
    IN  IF FiltersByInterestRadius(playerRadius) THEN r = playerRadius
        ELSE IF filters = {} THEN r = 0
        ELSE r \in filters /\ \A s \in filters : s <= r

(* One coordinate of cellFor. *)
Cell(x, size) == x \div size

(* The cells query visits around center; the radius is the cell size. *)
CellsInReach(center, coordinate, size) ==
    /\ Cell(center - size, size) <= Cell(coordinate, size)
    /\ Cell(coordinate, size) <= Cell(center + size, size)

(* insert and query: an object is found when its cell is visited. *)
Found(p, center, size) ==
    /\ size > 0
    /\ FiniteInterestPosition(p)
    /\ CellsInReach(center.x, p.x, size) /\ CellsInReach(center.y, p.y, size)

(* The loop of visibleInterestObjectKeys: objects that distance does not
   filter, *)
Unfiltered(e, isSelf, playerRadius) ==
    IF isSelf THEN e.includeSelf
    ELSE \/ ~FiltersByInterestRadius(EffectiveInterestRadius(playerRadius, e.radius))
         \/ ~e.hasPosition

(* and those that go into the hash. *)
Hashed(e, isSelf, playerRadius) == ~isSelf /\ ~Unfiltered(e, isSelf, playerRadius)

VisibleInHash(entries, self, playerRadius, at, size) ==
    {k \in DOMAIN entries :
        LET e == entries[k]
        IN  /\ e.visible /\ e.managed
            /\ \/ Unfiltered(e, k = self, playerRadius)
               \/ /\ Hashed(e, k = self, playerRadius)
                  /\ Found(e.position, at, size)
                  /\ WithinInterestRadius(at, e.position,
                        EffectiveInterestRadius(playerRadius, e.radius))}

(* visibleInterestObjectKeysLinear *)
VisibleLinear(entries, self, playerRadius, at) ==
    {k \in DOMAIN entries :
        LET e == entries[k]
            radius == EffectiveInterestRadius(playerRadius, e.radius)
        IN  /\ e.visible /\ e.managed
            /\ k = self => e.includeSelf
            /\ (k # self /\ FiltersByInterestRadius(radius) /\ e.hasPosition)
                  => WithinInterestRadius(at, e.position, radius)}

(* visibleInterestObjectKeys, which falls back when the player's position is
   not finite. *)
VisibleInterestObjectKeys(entries, self, playerRadius, at) ==
    IF ~FiniteInterestPosition(at) THEN VisibleLinear(entries, self, playerRadius, at)
    ELSE LET size == CHOOSE r \in {0, playerRadius} \cup
                           {entries[k].radius : k \in DOMAIN entries} :
                        IsQueryRadius(entries, playerRadius, r)
         IN  VisibleInHash(entries, self, playerRadius, at, size)

(* The hash and the linear filter may differ on an object whose depth is not
   finite when the player's own position has no depth: the linear filter
   then compares X and Y alone, the hash leaves the object out. *)
SameDepth(entries, at) ==
    \A k \in DOMAIN entries :
        entries[k].position.hasZ /\ entries[k].position.nan = "depth" => at.hasZ
=============================================================================
