-------------------------- MODULE VisibilityProofs --------------------------
(***************************************************************************)
(* The spatial hash finds exactly what the linear filter finds, for any    *)
(* objects, positions and radii; a snapshot holds exactly what its client  *)
(* should see, and the client's own object among it.                       *)
(***************************************************************************)
EXTENDS Visibility, FiniteSetTheorems, WellFoundedInduction, TLAPS

-----------------------------------------------------------------------------
(* Arithmetic. *)

(* Cells are numbered in the order of the coordinates (cellFor). *)
LEMMA CellMonotone ==
    ASSUME NEW a \in Int, NEW b \in Int, NEW size \in Nat \ {0}, a <= b
    PROVE  Cell(a, size) <= Cell(b, size)
<1> DEFINE p == a \div size
           q == b \div size
<1>1. /\ p \in Int /\ q \in Int
      /\ size * p <= a /\ a < size * p + size
      /\ size * q <= b /\ b < size * q + size
  OBVIOUS
<1>2. SUFFICES ASSUME p > q PROVE FALSE
  BY <1>1 DEF Cell
<1> HIDE DEF p, q
<1>3. p >= q + 1
  BY <1>1, <1>2
<1>4. size * p >= size * (q + 1)
  BY <1>1, <1>3
<1>5. size * (q + 1) = size * q + size
  BY <1>1
<1> QED
  BY <1>1, <1>4, <1>5

(* Squares are ordered like the absolute values. *)
LEMMA SquareBound ==
    ASSUME NEW d \in Int, NEW r \in Nat, d * d <= r * r
    PROVE  d <= r /\ -r <= d
<1>1. ASSUME NEW e \in Int, e > r PROVE e * e > r * r
  <2>1. e * e >= e * r
    BY <1>1
  <2>2. e * r >= r * r
    BY <1>1
  <2>3. e * e = r * r => FALSE
    <3>1. e * e = r * r + (e - r) * (e + r)
      BY <1>1
    <3>2. (e - r) * (e + r) > 0
      BY <1>1
    <3> QED BY <3>1, <3>2
  <2> QED
    BY <2>1, <2>2, <2>3
<1>2. d <= r
  BY <1>1
<1>3. (-d) * (-d) = d * d
  OBVIOUS
<1>4. -d <= r
  BY <1>1, <1>3
<1> QED
  BY <1>2, <1>4

LEMMA SquareNat ==
    ASSUME NEW d \in Int
    PROVE  d * d \in Nat
<1>1. CASE d >= 0
  BY <1>1
<1>2. CASE d < 0
  <2>1. (-d) * (-d) = d * d
    OBVIOUS
  <2>2. -d > 0
    BY <1>2
  <2> QED BY <2>1, <2>2
<1> QED BY <1>1, <1>2

-----------------------------------------------------------------------------
(* The grid. *)

(* query visits the cell of every coordinate that is at most one cell size
   away. *)
LEMMA NearIsInReach ==
    ASSUME NEW center \in Int, NEW x \in Int, NEW size \in Nat \ {0},
           center - x <= size, -size <= center - x
    PROVE  CellsInReach(center, x, size)
<1>1. Cell(center - size, size) <= Cell(x, size)
  BY CellMonotone
<1>2. Cell(x, size) <= Cell(center + size, size)
  BY CellMonotone
<1> QED
  BY <1>1, <1>2 DEF CellsInReach

(* Both planar distances are at most the radius, whether or not the depth is
   compared (withinInterestRadius). *)
LEMMA WithinIsNear ==
    ASSUME NEW a \in Positions, NEW b \in Positions, NEW r \in Nat,
           WithinInterestRadius(a, b, r)
    PROVE  /\ a.x - b.x <= r /\ -r <= a.x - b.x
           /\ a.y - b.y <= r /\ -r <= a.y - b.y
<1> DEFINE dx == a.x - b.x
           dy == a.y - b.y
           dz == a.z - b.z
<1>1. dx \in Int /\ dy \in Int /\ dz \in Int
  BY DEF Positions
<1>2. \/ dx * dx + dy * dy + dz * dz <= r * r
      \/ dx * dx + dy * dy <= r * r
  BY DEF WithinInterestRadius
<1> HIDE DEF dx, dy, dz
<1>3. dx * dx \in Nat /\ dy * dy \in Nat /\ dz * dz \in Nat /\ r * r \in Nat
  BY <1>1, SquareNat
<1>4. dx * dx <= r * r /\ dy * dy <= r * r
  BY <1>2, <1>3
<1>5. dx <= r /\ -r <= dx /\ dy <= r /\ -r <= dy
  BY <1>1, <1>4, SquareBound
<1> QED
  BY <1>5 DEF dx, dy

(* An object within the radius of a player with a finite position can be
   indexed, unless only its depth is not finite and the player has none. *)
LEMMA WithinIsFinite ==
    ASSUME NEW a \in Positions, NEW b \in Positions, NEW r \in Nat,
           WithinInterestRadius(a, b, r), b.hasZ /\ b.nan = "depth" => a.hasZ
    PROVE  FiniteInterestPosition(b)
<1>1. b.nan \in {"none", "depth"}
  BY DEF Positions, WithinInterestRadius
<1>2. CASE b.nan = "depth" /\ b.hasZ
  BY <1>2 DEF WithinInterestRadius
<1> QED
  BY <1>1, <1>2 DEF FiniteInterestPosition

(* The cell size covers every radius that filters a visible managed object
   (interestSpatialQueryRadius). *)
LEMMA QueryRadiusCovers ==
    ASSUME NEW K, NEW entries \in [K -> Entries], NEW playerRadius \in Radii, NEW size,
           IsQueryRadius(entries, playerRadius, size),
           NEW k \in K, entries[k].visible, entries[k].managed,
           FiltersByInterestRadius(EffectiveInterestRadius(playerRadius, entries[k].radius))
    PROVE  /\ size \in Nat \ {0}
           /\ EffectiveInterestRadius(playerRadius, entries[k].radius) \in Nat
           /\ EffectiveInterestRadius(playerRadius, entries[k].radius) <= size
<1> DEFINE wanted == {EffectiveInterestRadius(playerRadius, entries[j].radius) :
                        j \in {i \in DOMAIN entries : entries[i].visible /\ entries[i].managed}}
           filters == {s \in wanted : FiltersByInterestRadius(s)}
           radius == EffectiveInterestRadius(playerRadius, entries[k].radius)
<1>1. \A j \in K : EffectiveInterestRadius(playerRadius, entries[j].radius) \in Radii
  BY DEF EffectiveInterestRadius, Entries
<1>2. radius \in filters
  OBVIOUS
<1>3. \A s \in filters : s \in Nat \ {0}
  BY <1>1 DEF FiltersByInterestRadius, Radii, Unlimited
<1>4. CASE FiltersByInterestRadius(playerRadius)
  <2>1. size = playerRadius /\ playerRadius > 0
    BY <1>4 DEF IsQueryRadius, FiltersByInterestRadius
  <2>2. radius = playerRadius
    BY <2>1 DEF EffectiveInterestRadius, Radii, Unlimited
  <2>3. playerRadius \in Nat \ {0}
    BY <2>1 DEF Radii, Unlimited
  <2> QED
    BY <2>1, <2>2, <2>3
<1>5. CASE ~FiltersByInterestRadius(playerRadius)
  <2>1. size \in filters /\ \A s \in filters : s <= size
    BY <1>2, <1>5 DEF IsQueryRadius
  <2> QED
    BY <1>2, <1>3, <2>1
<1> QED
  BY <1>4, <1>5

(* A finite set of numbers has a largest one: the one with the fewest above
   it. *)
LEMMA LargestOfFinite ==
    ASSUME NEW T, T \subseteq Nat, IsFiniteSet(T), T # {}
    PROVE  \E t \in T : \A s \in T : s <= t
<1> DEFINE Above(t) == {s \in T : s > t}
           counts == {Cardinality(Above(t)) : t \in T}
<1>1. \A t \in T : IsFiniteSet(Above(t)) /\ Cardinality(Above(t)) \in Nat
  BY FS_Subset, FS_CardinalityType
<1>2. IsWellFoundedOn(OpToRel(<, Nat), Nat) /\ counts \subseteq Nat /\ counts # {}
  BY <1>1, NatLessThanWellFounded
<1> HIDE DEF counts
<1>3. PICK c \in counts : \A d \in counts : ~(<<d, c>> \in OpToRel(<, Nat))
  BY <1>2, WFMin
<1>4. \A d \in counts : ~(d < c)
  BY <1>2, <1>3 DEF OpToRel
<1>5. PICK t \in T : c = Cardinality(Above(t))
  BY DEF counts
<1>6. ASSUME NEW s \in T, s > t PROVE FALSE
  <2>1. s \in Nat /\ t \in Nat /\ T \subseteq Nat
    OBVIOUS
  <2>2. \A i \in Nat : i > s => i > t
    BY <1>6, <2>1
  <2>3. Above(s) \subseteq Above(t)
    BY <2>1, <2>2
  <2>4. s \in Above(t) /\ s \notin Above(s)
    BY <1>6, <2>1
  <2> HIDE DEF Above
  <2>5. Cardinality(Above(s)) < Cardinality(Above(t))
    <3>1. Above(s) # Above(t)
      BY <2>4
    <3>2. /\ Cardinality(Above(s)) <= Cardinality(Above(t))
          /\ Cardinality(Above(s)) # Cardinality(Above(t))
      BY <1>1, <2>3, <3>1, FS_Subset
    <3> QED
      BY <1>1, <3>2
  <2> QED
    BY <1>4, <1>5, <2>5 DEF counts
<1>7. \A s \in T : s <= t
  BY <1>6
<1> QED
  BY <1>7

(* interestSpatialQueryRadius finds a radius: a snapshot has finitely many
   objects. *)
LEMMA QueryRadiusExists ==
    ASSUME NEW K, IsFiniteSet(K), NEW entries \in [K -> Entries], NEW playerRadius \in Radii
    PROVE  \E r \in {0, playerRadius} \cup {entries[k].radius : k \in DOMAIN entries} :
               IsQueryRadius(entries, playerRadius, r)
<1> DEFINE seen == {i \in DOMAIN entries : entries[i].visible /\ entries[i].managed}
           wanted == {EffectiveInterestRadius(playerRadius, entries[j].radius) : j \in seen}
           filters == {s \in wanted : FiltersByInterestRadius(s)}
<1>1. CASE FiltersByInterestRadius(playerRadius)
  BY <1>1 DEF IsQueryRadius
<1>2. CASE ~FiltersByInterestRadius(playerRadius) /\ filters = {}
  <2>1. IsQueryRadius(entries, playerRadius, 0)
    BY <1>2 DEF IsQueryRadius
  <2> QED
    BY <2>1
<1>3. CASE ~FiltersByInterestRadius(playerRadius) /\ filters # {}
  <2>1. IsFiniteSet(seen)
    BY FS_Subset
  <2>2. IsFiniteSet(wanted)
    <3> DEFINE f == [j \in seen |-> EffectiveInterestRadius(playerRadius, entries[j].radius)]
    <3>1. f \in Surjection(seen, wanted)
      <4> HIDE DEF seen
      <4> QED
        BY DEF Surjection
    <3> QED
      BY <2>1, <3>1, FS_Surjection
  <2>3. IsFiniteSet(filters)
    <3> HIDE DEF wanted
    <3> QED
      BY <2>2, FS_Subset
  <2>4. ASSUME NEW s \in filters PROVE s \in Nat
    <3>1. PICK j \in K : s = EffectiveInterestRadius(playerRadius, entries[j].radius) /\ s > 0
      BY <2>4 DEF FiltersByInterestRadius
    <3>2. entries[j].radius \in Radii
      BY DEF Entries
    <3> QED
      BY <3>1, <3>2 DEF EffectiveInterestRadius, Radii, Unlimited
  <2>5. filters \subseteq Nat
    BY <2>4
  <2>6. PICK r \in filters : \A s \in filters : s <= r
    <3> HIDE DEF filters
    <3> QED
      BY <1>3, <2>3, <2>5, LargestOfFinite
  <2>7. r \in {0, playerRadius} \cup {entries[k].radius : k \in DOMAIN entries}
    BY <2>6 DEF EffectiveInterestRadius
  <2>8. IsQueryRadius(entries, playerRadius, r)
    BY <1>3, <2>6 DEF IsQueryRadius
  <2> QED
    BY <2>7, <2>8
<1> QED
  BY <1>1, <1>2, <1>3

-----------------------------------------------------------------------------
(* With the query radius as its cell size the hash shows a player exactly
   the objects the linear filter shows: the grid loses nothing. *)
THEOREM HashMatchesLinear ==
    ASSUME NEW K, NEW entries \in [K -> Entries], NEW self, NEW playerRadius \in Radii,
           NEW at \in Positions, SameDepth(entries, at),
           NEW size, IsQueryRadius(entries, playerRadius, size)
    PROVE  VisibleInHash(entries, self, playerRadius, at, size)
              = VisibleLinear(entries, self, playerRadius, at)
<1> DEFINE Radius(k) == EffectiveInterestRadius(playerRadius, entries[k].radius)
           Filters(k) == FiltersByInterestRadius(Radius(k)) /\ entries[k].hasPosition
           Near(k) == WithinInterestRadius(at, entries[k].position, Radius(k))
<1>1. ASSUME NEW k \in K, entries[k].visible, entries[k].managed, Filters(k), Near(k)
      PROVE  Found(entries[k].position, at, size)
  <2> DEFINE p == entries[k].position
             r == Radius(k)
  <2>1. size \in Nat \ {0} /\ r \in Nat /\ r <= size
    BY <1>1, QueryRadiusCovers
  <2>2. p \in Positions
    BY DEF Entries
  <2>3. FiniteInterestPosition(p)
    <3>1. p.hasZ /\ p.nan = "depth" => at.hasZ
      BY DEF SameDepth
    <3> QED
      BY <1>1, <2>1, <2>2, <3>1, WithinIsFinite
  <2>4. /\ at.x - p.x <= r /\ -r <= at.x - p.x
        /\ at.y - p.y <= r /\ -r <= at.y - p.y
    BY <1>1, <2>1, <2>2, WithinIsNear
  <2>5. p.x \in Int /\ p.y \in Int /\ at.x \in Int /\ at.y \in Int
    BY <2>2 DEF Positions
  <2> HIDE DEF p, r
  <2>6. /\ at.x - p.x <= size /\ -size <= at.x - p.x
        /\ at.y - p.y <= size /\ -size <= at.y - p.y
    BY <2>1, <2>4, <2>5
  <2>7. CellsInReach(at.x, p.x, size) /\ CellsInReach(at.y, p.y, size)
    BY <2>1, <2>5, <2>6, NearIsInReach
  <2> QED
    BY <2>1, <2>3, <2>7 DEF Found, p
<1>2. ASSUME NEW k \in K
      PROVE  k \in VisibleInHash(entries, self, playerRadius, at, size)
                <=> k \in VisibleLinear(entries, self, playerRadius, at)
  <2>1. k \in VisibleLinear(entries, self, playerRadius, at)
           <=> /\ entries[k].visible /\ entries[k].managed
               /\ k = self => entries[k].includeSelf
               /\ (k # self /\ Filters(k)) => Near(k)
    BY DEF VisibleLinear
  <2>2. k \in VisibleInHash(entries, self, playerRadius, at, size)
           <=> /\ entries[k].visible /\ entries[k].managed
               /\ \/ IF k = self THEN entries[k].includeSelf ELSE ~Filters(k)
                  \/ /\ k # self /\ Filters(k)
                     /\ Found(entries[k].position, at, size)
                     /\ Near(k)
    BY DEF VisibleInHash, Hashed, Unfiltered
  <2> QED
    BY <1>1, <2>1, <2>2
<1>3. /\ VisibleInHash(entries, self, playerRadius, at, size) \subseteq K
      /\ VisibleLinear(entries, self, playerRadius, at) \subseteq K
  BY DEF VisibleInHash, VisibleLinear
<1> QED
  BY <1>2, <1>3

(* What the server computes (visibleInterestObjectKeys) is what the linear
   filter computes, whether or not the player's position is finite, for
   any finite number of objects. *)
THEOREM ServerMatchesLinear ==
    ASSUME NEW K, IsFiniteSet(K), NEW entries \in [K -> Entries], NEW self,
           NEW playerRadius \in Radii, NEW at \in Positions, SameDepth(entries, at)
    PROVE  VisibleInterestObjectKeys(entries, self, playerRadius, at)
              = VisibleLinear(entries, self, playerRadius, at)
<1> DEFINE candidates == {0, playerRadius} \cup {entries[k].radius : k \in DOMAIN entries}
           size == CHOOSE r \in candidates : IsQueryRadius(entries, playerRadius, r)
<1>1. IsQueryRadius(entries, playerRadius, size)
  BY QueryRadiusExists
<1>2. VisibleInHash(entries, self, playerRadius, at, size)
         = VisibleLinear(entries, self, playerRadius, at)
  <2> HIDE DEF size
  <2> QED
    BY <1>1, HashMatchesLinear
<1> QED
  BY <1>2 DEF VisibleInterestObjectKeys

-----------------------------------------------------------------------------
(* Snapshots of the running system. *)

Named(f) == DOMAIN f \subseteq Objects /\ \A o \in DOMAIN f : f[o] \in Configs

(* The client switches its own scene only, and has one object. *)
OwnSwitches(c) == c \in Clients \ AssignedClients
Own(c) == {o \in Objects \ AssignedObjects : o.id = c}

(* The scenes of a client and of its object agree, where both have one. *)
Agree(c, clients, objects) ==
    c \in DOMAIN clients =>
        \A o \in Own(c) \cap DOMAIN objects : objects[o] = clients[c]

Typed ==
    /\ DOMAIN world = Objects /\ \A o \in Objects : world[o] \in States[o]
    /\ \A c \in DOMAIN sceneClients : c \in Clients /\ sceneClients[c] \in Scenes
    /\ \A o \in DOMAIN sceneObjects : o \in Objects /\ sceneObjects[o] \in Scenes
    /\ Named(interestPlayers) /\ Named(interestObjects)

Switches == [step : {"client"}, client : Clients, scene : Scenes]

(* What the holder of hooksMu has read is what it works on. *)
WorkInv ==
    \/ hooksMu = "none" /\ work = NoWork
    \/ hooksMu = "switch" /\ work \in Switches
    \/ hooksMu = "snapshot" /\ work.step = "scenes" /\ work.client \in Clients
    \/ /\ hooksMu = "snapshot" /\ work.step = "done" /\ work.client \in Clients
       /\ Named(work.players) /\ Named(work.others)
       /\ work.view \in SnapshotForClient(work)

ReadsAgree ==
    work.step \in {"scenes", "done"} /\ OwnSwitches(work.client) =>
        Agree(work.client, work.clients, work.objects)

ScenesAgree ==
    \A c \in Clients : OwnSwitches(c) =>
        IF work.step = "client" /\ work.client = c
        THEN \A o \in Own(c) \cap DOMAIN sceneObjects : sceneObjects[o] = work.scene
        ELSE Agree(c, sceneClients, sceneObjects)

SnapshotInv == Typed /\ WorkInv

SwitchInv == ReadsAgree /\ ScenesAgree

(* One object per client ID, as a game's players have. *)
OneObjectEach == \A o, p \in Objects : o.id = p.id /\ o.id \in Clients => o = p

LEMMA WorkSteps ==
    ASSUME WorkInv
    PROVE  /\ work = NoWork => work.step = "none"
           /\ hooksMu = "none" <=> work = NoWork
           /\ hooksMu = "none" <=> work.step = "none"
           /\ work.step = "client" <=> hooksMu = "switch"
           /\ work.step = "client" => work \in Switches
           /\ work.step \in {"scenes", "done"} => hooksMu = "snapshot" /\ work.client \in Clients
           /\ work.step = "done" => /\ Named(work.players) /\ Named(work.others)
                                   /\ work.view \in SnapshotForClient(work)
  BY DEF WorkInv, NoWork, Switches

LEMMA NamedWith ==
    ASSUME NEW f, Named(f), NEW o \in Objects, NEW config \in Configs
    PROVE  Named(With(f, o, config))
  BY DEF Named, With

LEMMA NamedWithout ==
    ASSUME NEW f, Named(f), NEW o
    PROVE  Named(Without(f, o))
  BY DEF Named, Without

(* The snapshot depends on what was read, not on the view that is filled in
   afterwards. *)
LEMMA ViewFilledIn ==
    ASSUME NEW v, NEW w, w.players = v.players, w.others = v.others, w.client = v.client,
           w.clients = v.clients, w.objects = v.objects
    PROVE  SnapshotForClient(w) = SnapshotForClient(v)
<1>1. /\ \A o : Managed(w, o) <=> Managed(v, o)
      /\ \A o : ObjectConfig(w, o) = ObjectConfig(v, o)
      /\ \A o : ObjectVisibleToClient(w, o) <=> ObjectVisibleToClient(v, o)
  BY DEF Managed, ObjectConfig, ObjectVisibleToClient
<1>2. SceneSnapshot(w) = SceneSnapshot(v) /\ PlayersOf(w) = PlayersOf(v)
  BY <1>1 DEF SceneSnapshot, PlayersOf
<1>3. InterestSnapshotObjects(w) = InterestSnapshotObjects(v)
  BY DEF InterestSnapshotObjects, Managed, ObjectConfig, ObjectVisibleToClient
<1>4. \A p : InterestSnapshot(w, p) = InterestSnapshot(v, p)
  BY <1>3 DEF InterestSnapshot
<1> QED
  BY <1>2, <1>4 DEF SnapshotForClient

LEMMA InitSnapshotInv == Init => SnapshotInv /\ SwitchInv
  BY DEF Init, SnapshotInv, SwitchInv, Typed, WorkInv, ReadsAgree, ScenesAgree, Agree, Named, NoWork

(* An operation of Features leaves the objects and the holder of hooksMu
   alone. *)
LEMMA WorkKept ==
    ASSUME WorkInv, UNCHANGED <<world, hooksMu, work>>
    PROVE  WorkInv'
<1>1. SnapshotForClient(work)' = SnapshotForClient(work)
  BY DEF SnapshotForClient, SceneSnapshot, InterestSnapshot, InterestSnapshotObjects, Position,
     Managed, ObjectConfig, ObjectVisibleToClient, PlayersOf
<1> QED
  BY <1>1 DEF WorkInv

LEMMA NextSnapshotInv ==
    ASSUME SnapshotInv, [Next]_vars
    PROVE  SnapshotInv'
<1>1. Typed /\ WorkInv
  BY DEF SnapshotInv
<1>2. CASE UNCHANGED vars
  BY <1>1, <1>2, WorkKept DEF vars, SnapshotInv, Typed
<1>3. CASE AssignScene
  <2>1. UNCHANGED <<world, interest, hooksMu, work>>
    BY <1>3 DEF AssignScene
  <2>2. /\ \A c \in DOMAIN sceneClients' : c \in Clients /\ sceneClients'[c] \in Scenes
        /\ \A o \in DOMAIN sceneObjects' : o \in Objects /\ sceneObjects'[o] \in Scenes
    BY <1>1, <1>3, AssignedAssumption DEF AssignScene, SetObjectScene, SetClientScene, With, Typed
  <2> QED
    BY <1>1, <2>1, <2>2, WorkKept DEF SnapshotInv, Typed, interest
<1>4. CASE ClearScene
  <2>1. UNCHANGED <<world, interest, hooksMu, work>>
    BY <1>4 DEF ClearScene
  <2>2. /\ \A c \in DOMAIN sceneClients' : c \in Clients /\ sceneClients'[c] \in Scenes
        /\ \A o \in DOMAIN sceneObjects' : o \in Objects /\ sceneObjects'[o] \in Scenes
    BY <1>1, <1>4 DEF ClearScene, Without, Typed
  <2> QED
    BY <1>1, <2>1, <2>2, WorkKept DEF SnapshotInv, Typed, interest
<1>5. CASE EnableInterestManagement
  <2>1. UNCHANGED <<world, scenes, hooksMu, work>>
    BY <1>5 DEF EnableInterestManagement
  <2>2. Named(interestPlayers') /\ Named(interestObjects')
    BY <1>1, <1>5, NamedWith DEF EnableInterestManagement, Typed
  <2> QED
    BY <1>1, <2>1, <2>2, WorkKept DEF SnapshotInv, Typed, scenes
<1>6. CASE DisableInterestManagement
  <2>1. UNCHANGED <<world, scenes, hooksMu, work>>
    BY <1>6 DEF DisableInterestManagement
  <2>2. Named(interestPlayers') /\ Named(interestObjects')
    BY <1>1, <1>6, NamedWithout DEF DisableInterestManagement, Typed
  <2> QED
    BY <1>1, <2>1, <2>2, WorkKept DEF SnapshotInv, Typed, scenes
<1>7. CASE ChangeObject
  <2>1. hooksMu = "none" /\ UNCHANGED <<scenes, interest, hooksMu, work>>
    BY <1>7 DEF ChangeObject
  <2>2. WorkInv'
    BY <1>1, <2>1, WorkSteps DEF WorkInv
  <2>3. DOMAIN world' = Objects /\ \A o \in Objects : world'[o] \in States[o]
    BY <1>1, <1>7 DEF ChangeObject, Typed
  <2> QED
    BY <1>1, <2>1, <2>2, <2>3 DEF SnapshotInv, Typed, scenes, interest
<1>8. ASSUME NEW c \in Clients, NEW s \in Scenes, SwitchObject(c, s) PROVE SnapshotInv'
  <2>1. /\ hooksMu' = "switch" /\ work' = [step |-> "client", client |-> c, scene |-> s]
        /\ UNCHANGED <<world, interest, sceneClients>>
    BY <1>8 DEF SwitchObject, SetObjectScene
  <2>2. WorkInv'
    BY <2>1 DEF WorkInv, Switches
  <2>3. \A o \in DOMAIN sceneObjects' : o \in Objects /\ sceneObjects'[o] \in Scenes
    BY <1>1, <1>8 DEF SwitchObject, SetObjectScene, With, Typed
  <2> QED
    BY <1>1, <2>1, <2>2, <2>3 DEF SnapshotInv, Typed, interest
<1>9. CASE SwitchClient
  <2>1. /\ hooksMu' = "none" /\ work' = NoWork /\ work.step = "client"
        /\ sceneClients' = With(sceneClients, work.client, work.scene)
        /\ UNCHANGED <<world, interest, sceneObjects>>
    BY <1>9 DEF SwitchClient, SetClientScene
  <2>2. work.client \in Clients /\ work.scene \in Scenes
    BY <1>1, <2>1, WorkSteps DEF Switches
  <2>3. \A c \in DOMAIN sceneClients' : c \in Clients /\ sceneClients'[c] \in Scenes
    BY <1>1, <2>1, <2>2 DEF With, Typed
  <2> QED
    BY <1>1, <2>1, <2>3 DEF SnapshotInv, Typed, interest, WorkInv
<1>10. ASSUME NEW c \in Clients, BeginSnapshot(c) PROVE SnapshotInv'
  <2>1. /\ hooksMu' = "snapshot"
        /\ work' = [step |-> "scenes", client |-> c, clients |-> sceneClients,
                    objects |-> sceneObjects]
        /\ UNCHANGED <<world, scenes, interest>>
    BY <1>10 DEF BeginSnapshot
  <2>2. work'.step = "scenes" /\ work'.client = c
    BY <2>1
  <2> QED
    BY <1>1, <2>1, <2>2 DEF SnapshotInv, Typed, interest, scenes, WorkInv
<1>11. CASE FinishSnapshot
  <2> DEFINE read == [step |-> "done", client |-> work.client, clients |-> work.clients,
                      objects |-> work.objects, players |-> interestPlayers,
                      others |-> interestObjects, view |-> {}]
  <2>1. work.step = "scenes" /\ UNCHANGED <<world, scenes, interest, hooksMu>>
    BY <1>11 DEF FinishSnapshot
  <2>2. PICK view \in SnapshotForClient(read) : work' = [read EXCEPT !.view = view]
    BY <1>11 DEF FinishSnapshot
  <2>3. /\ read.client = work.client /\ read.clients = work.clients /\ read.objects = work.objects
        /\ read.players = interestPlayers /\ read.others = interestObjects
    OBVIOUS
  <2>4. /\ work'.step = "done" /\ work'.client = work.client /\ work'.clients = work.clients
        /\ work'.objects = work.objects /\ work'.players = interestPlayers
        /\ work'.others = interestObjects /\ work'.view = view
    BY <2>2
  <2> HIDE DEF read
  <2>5. SnapshotForClient(work') = SnapshotForClient(read)
    BY <2>3, <2>4, ViewFilledIn
  <2>6. SnapshotForClient(work)' = SnapshotForClient(work')
    BY <2>1 DEF SnapshotForClient, SceneSnapshot, InterestSnapshot, InterestSnapshotObjects, Position,
       Managed, ObjectConfig, ObjectVisibleToClient, PlayersOf
  <2>7. hooksMu' = "snapshot" /\ work'.client \in Clients
    BY <1>1, <2>1, <2>4, WorkSteps
  <2>8. WorkInv'
    BY <1>1, <2>2, <2>4, <2>5, <2>6, <2>7 DEF WorkInv, Typed
  <2> QED
    BY <1>1, <2>1, <2>8 DEF SnapshotInv, Typed, scenes, interest
<1>12. CASE EndSnapshot
  BY <1>1, <1>12 DEF EndSnapshot, SnapshotInv, Typed, scenes, interest, WorkInv
<1> QED
  BY <1>2, <1>3, <1>4, <1>5, <1>6, <1>7, <1>8, <1>9, <1>10, <1>11, <1>12 DEF Next

(* A scene switch sets the object's scene and then the client's; nothing
   else touches the scenes of a client that only switches. *)
LEMMA NextSwitchInv ==
    ASSUME OneObjectEach, SnapshotInv, SwitchInv, [Next]_vars
    PROVE  SwitchInv'
<1>1. Typed /\ WorkInv /\ ReadsAgree /\ ScenesAgree
  BY DEF SnapshotInv, SwitchInv
<1>2. CASE UNCHANGED <<scenes, work>>
  BY <1>1, <1>2 DEF SwitchInv, ReadsAgree, ScenesAgree, Agree, scenes
<1>3. CASE AssignScene \/ ClearScene
  <2>1. UNCHANGED work
    BY <1>3 DEF AssignScene, ClearScene
  <2>2. /\ \A o \in Objects \ AssignedObjects :
              /\ o \in DOMAIN sceneObjects' <=> o \in DOMAIN sceneObjects
              /\ sceneObjects'[o] = sceneObjects[o] \/ o \notin DOMAIN sceneObjects
        /\ \A c \in Clients \ AssignedClients :
              /\ c \in DOMAIN sceneClients' <=> c \in DOMAIN sceneClients
              /\ sceneClients'[c] = sceneClients[c] \/ c \notin DOMAIN sceneClients
    BY <1>3 DEF AssignScene, ClearScene, SetObjectScene, SetClientScene, With, Without
  <2>3. ReadsAgree'
    BY <1>1, <2>1 DEF ReadsAgree, Agree
  <2>4. ScenesAgree'
    <3> SUFFICES ASSUME NEW c \in Clients, OwnSwitches(c)
                 PROVE  IF work.step = "client" /\ work.client = c
                        THEN \A o \in Own(c) \cap DOMAIN sceneObjects' : sceneObjects'[o] = work.scene
                        ELSE Agree(c, sceneClients', sceneObjects')
      BY <2>1 DEF ScenesAgree
    <3>1. c \in Clients \ AssignedClients /\ Own(c) \subseteq Objects \ AssignedObjects
      BY DEF OwnSwitches, Own
    <3> QED
      BY <1>1, <2>2, <3>1 DEF ScenesAgree, Agree
  <2> QED
    BY <2>3, <2>4 DEF SwitchInv
<1>4. ASSUME NEW c \in Clients, NEW s \in Scenes, SwitchObject(c, s) PROVE SwitchInv'
  <2>1. PICK o \in Objects : o.id = c /\ sceneObjects' = With(sceneObjects, o, s)
    BY <1>4 DEF SwitchObject, SetObjectScene
  <2>2. /\ work' = [step |-> "client", client |-> c, scene |-> s] /\ UNCHANGED sceneClients
        /\ hooksMu = "none"
    BY <1>4 DEF SwitchObject, SetObjectScene
  <2>3. work'.step = "client" /\ work'.client = c /\ work'.scene = s /\ work.step = "none"
    BY <1>1, <2>2, WorkSteps
  <2>4. ReadsAgree'
    BY <2>3 DEF ReadsAgree
  <2>5. ASSUME NEW d \in Clients, OwnSwitches(d)
        PROVE  IF d = c
               THEN \A q \in Own(d) \cap DOMAIN sceneObjects' : sceneObjects'[q] = s
               ELSE Agree(d, sceneClients, sceneObjects')
    <3>1. CASE d = c
      <4>1. \A q \in Own(d) : q = o
        BY <2>1, <3>1 DEF OneObjectEach, Own
      <4> QED
        BY <2>1, <3>1, <4>1 DEF With
    <3>2. CASE d # c
      <4>1. Agree(d, sceneClients, sceneObjects)
        BY <1>1, <2>3, <2>5 DEF ScenesAgree
      <4>2. \A q \in Own(d) : q # o
        BY <2>1, <3>2 DEF Own
      <4> QED
        BY <2>1, <3>2, <4>1, <4>2 DEF Agree, With
    <3> QED
      BY <3>1, <3>2
  <2>6. ScenesAgree'
    BY <2>2, <2>3, <2>5 DEF ScenesAgree
  <2> QED
    BY <2>4, <2>6 DEF SwitchInv
<1>5. CASE SwitchClient
  <2>1. /\ work' = NoWork /\ work.step = "client"
        /\ sceneClients' = With(sceneClients, work.client, work.scene)
        /\ UNCHANGED sceneObjects
    BY <1>5 DEF SwitchClient, SetClientScene
  <2>2. work'.step = "none"
    BY <2>1 DEF NoWork
  <2>3. ReadsAgree'
    BY <2>2 DEF ReadsAgree
  <2>4. ASSUME NEW c \in Clients, OwnSwitches(c)
        PROVE  Agree(c, sceneClients', sceneObjects)
    <3>1. CASE c = work.client
      BY <1>1, <2>1, <2>4, <3>1 DEF ScenesAgree, Agree, With
    <3>2. CASE c # work.client
      BY <1>1, <2>1, <2>4, <3>2 DEF ScenesAgree, Agree, With
    <3> QED
      BY <3>1, <3>2
  <2>5. ScenesAgree'
    BY <2>1, <2>2, <2>4 DEF ScenesAgree
  <2> QED
    BY <2>3, <2>5 DEF SwitchInv
<1>6. ASSUME NEW c \in Clients, BeginSnapshot(c) PROVE SwitchInv'
  <2>1. /\ hooksMu = "none"
        /\ work' = [step |-> "scenes", client |-> c, clients |-> sceneClients,
                    objects |-> sceneObjects]
        /\ UNCHANGED <<sceneClients, sceneObjects>>
    BY <1>6 DEF BeginSnapshot, scenes
  <2>2. /\ work'.step = "scenes" /\ work'.client = c /\ work'.clients = sceneClients
        /\ work'.objects = sceneObjects /\ work.step = "none"
    BY <1>1, <2>1, WorkSteps
  <2>3. \A d \in Clients : OwnSwitches(d) => Agree(d, sceneClients, sceneObjects)
    BY <1>1, <2>2 DEF ScenesAgree
  <2>4. ReadsAgree' /\ ScenesAgree'
    BY <2>1, <2>2, <2>3 DEF ReadsAgree, ScenesAgree
  <2> QED
    BY <2>4 DEF SwitchInv
<1>7. CASE FinishSnapshot \/ EndSnapshot
  <2>1. UNCHANGED <<sceneClients, sceneObjects>>
    BY <1>7 DEF FinishSnapshot, EndSnapshot, scenes
  <2>2. /\ work.step \in {"scenes", "done"}
        /\ \/ work' = NoWork
           \/ /\ work'.step = "done" /\ work'.client = work.client
              /\ work'.clients = work.clients /\ work'.objects = work.objects
    BY <1>7 DEF FinishSnapshot, EndSnapshot
  <2>3. work'.step \in {"none", "done"}
    BY <2>2 DEF NoWork
  <2>4. ReadsAgree'
    BY <1>1, <2>2 DEF ReadsAgree, NoWork
  <2>5. ScenesAgree'
    BY <1>1, <2>1, <2>2, <2>3 DEF ScenesAgree
  <2> QED
    BY <2>4, <2>5 DEF SwitchInv
<1>8. EnableInterestManagement \/ DisableInterestManagement \/ ChangeObject \/ UNCHANGED vars
         => UNCHANGED <<scenes, work>>
  BY DEF EnableInterestManagement, DisableInterestManagement, ChangeObject, vars, scenes
<1> QED
  BY <1>2, <1>3, <1>4, <1>5, <1>6, <1>7, <1>8 DEF Next

-----------------------------------------------------------------------------
(* The types of what the interest filter works on. *)
LEMMA EntriesTyped ==
    ASSUME Typed, NEW w, Named(w.players), Named(w.others)
    PROVE  /\ InterestSnapshotObjects(w) \in [Objects -> Entries]
           /\ \A p \in DOMAIN w.players : /\ Position(p, w.players[p]) \in Positions
                                          /\ w.players[p].radius \in Radii
<1>1. \A o \in Objects : /\ world[o].shown \in BOOLEAN /\ world[o].known \in BOOLEAN
                         /\ world[o].x \in Int /\ world[o].y \in Int /\ world[o].z \in Int
                         /\ world[o].nan \in {"none", "plane", "depth"}
  BY StatesAssumption DEF Typed
<1>2. \A config \in Configs : /\ config.radius \in Radii /\ config.includeSelf \in BOOLEAN
                              /\ config.depth \in BOOLEAN
  BY ConfigsAssumption
<1>3. \A o \in Objects, depth \in BOOLEAN :
         [x |-> world[o].x, y |-> world[o].y, z |-> world[o].z, hasZ |-> depth,
          nan |-> world[o].nan] \in Positions
  BY <1>1 DEF Positions
<1>4. ASSUME NEW o \in Objects
      PROVE  LET config == IF Managed(w, o) THEN ObjectConfig(w, o) ELSE NoConfig
             IN  /\ config.radius \in Radii /\ config.includeSelf \in BOOLEAN
                 /\ Position(o, config) \in Positions
  <2> DEFINE config == IF Managed(w, o) THEN ObjectConfig(w, o) ELSE NoConfig
  <2>1. config \in Configs \/ config = NoConfig
    BY DEF Managed, ObjectConfig, Named
  <2> HIDE DEF config
  <2>2. config.radius \in Radii /\ config.includeSelf \in BOOLEAN /\ config.depth \in BOOLEAN
    <3>1. NoConfig.radius = 0 /\ NoConfig.includeSelf = FALSE /\ NoConfig.depth = FALSE
      BY DEF NoConfig
    <3>2. 0 \in Radii
      BY DEF Radii
    <3>3. CASE config \in Configs
      BY <1>2, <3>3
    <3>4. CASE config = NoConfig
      BY <3>1, <3>2, <3>4
    <3> QED
      BY <2>1, <3>3, <3>4
  <2>3. Position(o, config) \in Positions
    BY <1>3, <2>2 DEF Position
  <2> QED
    BY <2>2, <2>3 DEF config
<1>5. \A o : ObjectVisibleToClient(w, o) \in BOOLEAN /\ Managed(w, o) \in BOOLEAN
  BY DEF ObjectVisibleToClient, Managed
<1>6. InterestSnapshotObjects(w) \in [Objects -> Entries]
  <2> SUFFICES ASSUME NEW o \in Objects
               PROVE  InterestSnapshotObjects(w)[o] \in Entries
    BY DEF InterestSnapshotObjects
  <2> DEFINE config == IF Managed(w, o) THEN ObjectConfig(w, o) ELSE NoConfig
  <2>1. /\ config.radius \in Radii /\ config.includeSelf \in BOOLEAN
        /\ Position(o, config) \in Positions
    BY <1>4
  <2>2. InterestSnapshotObjects(w)[o] =
           [visible |-> world[o].shown /\ ObjectVisibleToClient(w, o),
            managed |-> Managed(w, o), includeSelf |-> config.includeSelf,
            radius |-> config.radius, hasPosition |-> world[o].known,
            position |-> Position(o, config)]
    BY DEF InterestSnapshotObjects
  <2> HIDE DEF config
  <2> QED
    BY <1>1, <1>5, <2>1, <2>2 DEF Entries
<1>7. ASSUME NEW p \in DOMAIN w.players
      PROVE  Position(p, w.players[p]) \in Positions /\ w.players[p].radius \in Radii
  <2>1. p \in Objects /\ w.players[p] \in Configs
    BY DEF Named
  <2> QED
    BY <1>2, <1>3, <2>1 DEF Position
<1> QED
  BY <1>6, <1>7

(* What one entry of the filter holds. *)
LEMMA EntryOf ==
    ASSUME NEW w, NEW o \in Objects
    PROVE  LET e == InterestSnapshotObjects(w)[o]
           IN  /\ e.visible <=> world[o].shown /\ ObjectVisibleToClient(w, o)
               /\ e.managed <=> Managed(w, o)
               /\ e.hasPosition = world[o].known
               /\ Managed(w, o) => /\ e.includeSelf = ObjectConfig(w, o).includeSelf
                                   /\ e.radius = ObjectConfig(w, o).radius
                                   /\ e.position = Position(o, ObjectConfig(w, o))
<1> DEFINE config == IF Managed(w, o) THEN ObjectConfig(w, o) ELSE NoConfig
<1>1. InterestSnapshotObjects(w)[o] =
         [visible |-> world[o].shown /\ ObjectVisibleToClient(w, o),
          managed |-> Managed(w, o), includeSelf |-> config.includeSelf,
          radius |-> config.radius, hasPosition |-> world[o].known,
          position |-> Position(o, config)]
  BY DEF InterestSnapshotObjects
<1>2. Managed(w, o) => config = ObjectConfig(w, o)
  OBVIOUS
<1> DEFINE shown == world[o].shown /\ ObjectVisibleToClient(w, o)
           managed == Managed(w, o)
           e == InterestSnapshotObjects(w)[o]
<1>3. e = [visible |-> shown, managed |-> managed, includeSelf |-> config.includeSelf,
           radius |-> config.radius, hasPosition |-> world[o].known,
           position |-> Position(o, config)]
  BY <1>1
<1> HIDE DEF config, shown, managed, e
<1>4. /\ e.visible = shown /\ e.managed = managed /\ e.hasPosition = world[o].known
      /\ e.includeSelf = config.includeSelf /\ e.radius = config.radius
      /\ e.position = Position(o, config)
  BY <1>3
<1>5. /\ e.visible <=> world[o].shown /\ ObjectVisibleToClient(w, o)
      /\ e.managed <=> Managed(w, o)
  BY <1>4 DEF shown, managed
<1>6. Managed(w, o) => /\ e.includeSelf = ObjectConfig(w, o).includeSelf
                      /\ e.radius = ObjectConfig(w, o).radius
                      /\ e.position = Position(o, ObjectConfig(w, o))
  BY <1>2, <1>4
<1> QED
  BY <1>4, <1>5, <1>6 DEF e

(* A player with a position sees what Expected says: the filter, which is
   the linear one, leaves out exactly the objects that are too far. *)
LEMMA InterestIsExpected ==
    ASSUME Typed, NEW w, Named(w.players), Named(w.others),
           NEW p \in DOMAIN w.players, world[p].known,
           SameDepth(InterestSnapshotObjects(w), Position(p, w.players[p]))
    PROVE  InterestSnapshot(w, p) = Expected(w, p)
<1> DEFINE entries == InterestSnapshotObjects(w)
           config == w.players[p]
           at == Position(p, config)
           near == VisibleInterestObjectKeys(entries, p, config.radius, at)
<1>1. entries \in [Objects -> Entries] /\ at \in Positions /\ config.radius \in Radii
  BY EntriesTyped
<1>2. near = VisibleLinear(entries, p, config.radius, at)
  <2> HIDE DEF entries, at
  <2>1. SameDepth(entries, at)
    BY DEF entries, at
  <2> QED
    BY <1>1, <2>1, ObjectsAssumption, ServerMatchesLinear
<1>3. InterestSnapshot(w, p)
         = {o \in Objects : entries[o].visible /\ (entries[o].managed => o \in near)}
  BY DEF InterestSnapshot
<1>4. ASSUME NEW o \in Objects
      PROVE  entries[o].visible /\ (entries[o].managed => o \in near) <=> o \in Expected(w, p)
  <2>1. /\ entries[o].visible <=> world[o].shown /\ ObjectVisibleToClient(w, o)
        /\ entries[o].managed <=> Managed(w, o)
        /\ entries[o].hasPosition = world[o].known
        /\ Managed(w, o) => /\ entries[o].includeSelf = ObjectConfig(w, o).includeSelf
                            /\ entries[o].radius = ObjectConfig(w, o).radius
                            /\ entries[o].position = Position(o, ObjectConfig(w, o))
    BY EntryOf
  <2> HIDE DEF entries, at
  <2>2. o \in near <=>
          /\ entries[o].visible /\ entries[o].managed
          /\ o = p => entries[o].includeSelf
          /\ (/\ o # p /\ entries[o].hasPosition
              /\ FiltersByInterestRadius(EffectiveInterestRadius(config.radius, entries[o].radius)))
                => WithinInterestRadius(at, entries[o].position,
                       EffectiveInterestRadius(config.radius, entries[o].radius))
    <3> HIDE DEF near, config
    <3> QED
      BY <1>1, <1>2 DEF VisibleLinear
  <2>3. o = p => ObjectConfig(w, o) = w.players[p]
    BY DEF ObjectConfig
  <2>4. Managed(w, o) =>
          (TooFar(w, p, o) <=>
             /\ entries[o].hasPosition
             /\ FiltersByInterestRadius(EffectiveInterestRadius(config.radius, entries[o].radius))
             /\ ~WithinInterestRadius(at, entries[o].position,
                    EffectiveInterestRadius(config.radius, entries[o].radius)))
    BY <2>1 DEF TooFar, FiltersByInterestRadius, EffectiveInterestRadius, at
  <2>5. o \in Expected(w, p) <=>
          /\ world[o].shown /\ ObjectVisibleToClient(w, o)
          /\ Managed(w, o) => IF o = p THEN w.players[p].includeSelf ELSE ~TooFar(w, p, o)
    BY DEF Expected, ObjectVisibleToClient
  <2> HIDE DEF near, config
  <2> QED
    BY <2>1, <2>2, <2>3, <2>4, <2>5
<1>5. Expected(w, p) \subseteq Objects
  BY DEF Expected
<1> HIDE DEF entries, near
<1> QED
  BY <1>3, <1>4, <1>5

(* A player without a position sees its scene. *)
LEMMA SceneIsExpected ==
    ASSUME NEW w, NEW p, ~world[p].known
    PROVE  SceneSnapshot(w) = Expected(w, p)
  BY DEF SceneSnapshot, Expected, ObjectVisibleToClient

LEMMA SnapshotInvImplies ==
    ASSUME SnapshotInv
    PROVE  SnapshotIsExpected
<1> SUFFICES ASSUME work.step = "done", PlayersOf(work) # {}
             PROVE  \E p \in PlayersOf(work) :
                       \/ work.view = Expected(work, p)
                       \/ ~SameDepth(InterestSnapshotObjects(work), Position(p, work.players[p]))
  BY DEF SnapshotIsExpected
<1>1. /\ Typed /\ Named(work.players) /\ Named(work.others)
      /\ work.view \in SnapshotForClient(work)
  BY WorkSteps DEF SnapshotInv
<1>2. PICK p \in PlayersOf(work) :
         work.view = IF world[p].known THEN InterestSnapshot(work, p) ELSE SceneSnapshot(work)
  BY <1>1 DEF SnapshotForClient
<1>3. p \in DOMAIN work.players
  BY DEF PlayersOf
<1>4. CASE ~world[p].known
  BY <1>2, <1>4, SceneIsExpected
<1>5. CASE world[p].known /\ SameDepth(InterestSnapshotObjects(work), Position(p, work.players[p]))
  <2>1. InterestSnapshot(work, p) = Expected(work, p)
    BY <1>1, <1>3, <1>5, InterestIsExpected
  <2> QED
    BY <1>2, <1>5, <2>1
<1> QED
  BY <1>4, <1>5

(* Every snapshot that SnapshotForClient returns for a client with a player
   object holds exactly the objects that are shown, in the client's scene
   and near enough, whatever server code and hooks did to scenes and
   interest registrations before and between its two reads. *)
THEOREM SnapshotExact == Spec => []SnapshotIsExpected
<1>1. Init => SnapshotInv
  BY InitSnapshotInv
<1>2. SnapshotInv /\ [Next]_vars => SnapshotInv'
  BY NextSnapshotInv
<1>3. SnapshotInv => SnapshotIsExpected
  BY SnapshotInvImplies
<1> QED
  BY <1>1, <1>2, <1>3, PTL DEF Spec

LEMMA SwitchInvImplies ==
    ASSUME OneObjectEach, SnapshotInv, SwitchInv
    PROVE  OwnObjectSeen
<1> SUFFICES ASSUME work.step = "done", NEW o \in Objects \ AssignedObjects,
                    o.id = work.client, work.client \notin AssignedClients, world[o].shown,
                    o \in DOMAIN work.players => work.players[o].includeSelf
             PROVE  o \in work.view
  BY DEF OwnObjectSeen
<1>1. /\ Named(work.players) /\ work.client \in Clients
      /\ work.view \in SnapshotForClient(work)
  BY WorkSteps DEF SnapshotInv
<1>2. Agree(work.client, work.clients, work.objects)
  BY <1>1 DEF SwitchInv, ReadsAgree, OwnSwitches
<1>3. ObjectVisibleToClient(work, o)
  BY <1>2 DEF Agree, Own, ObjectVisibleToClient
<1>4. o \in SceneSnapshot(work)
  BY <1>3 DEF SceneSnapshot
<1>5. ASSUME NEW p \in PlayersOf(work) PROVE o \in InterestSnapshot(work, p)
  <2>1. p = o
    BY <1>1 DEF PlayersOf, Named, OneObjectEach
  <2>2. o \in DOMAIN work.players
    BY <2>1 DEF PlayersOf
  <2> DEFINE entries == InterestSnapshotObjects(work)
             config == work.players[o]
             at == Position(o, config)
  <2>3. Managed(work, o) /\ ObjectConfig(work, o) = config /\ config.includeSelf
    BY <2>2 DEF Managed, ObjectConfig
  <2>4. entries[o].visible /\ entries[o].managed /\ entries[o].includeSelf
    BY <1>3, <2>3, EntryOf
  <2>5. o \in DOMAIN entries
    BY DEF InterestSnapshotObjects
  <2>6. InterestSnapshot(work, o)
           = {q \in Objects : /\ entries[q].visible
                              /\ entries[q].managed
                                    => q \in VisibleInterestObjectKeys(entries, o, config.radius, at)}
    BY DEF InterestSnapshot
  <2> HIDE DEF entries, config, at
  <2>7. o \in VisibleInterestObjectKeys(entries, o, config.radius, at)
    BY <2>4, <2>5 DEF VisibleInterestObjectKeys, VisibleLinear, VisibleInHash, Unfiltered
  <2> QED
    BY <2>1, <2>4, <2>6, <2>7
<1> QED
  BY <1>1, <1>4, <1>5 DEF SnapshotForClient

(* Where no two objects share a client's ID, a client that changes scene
   only through scene switches finds its own object in every snapshot:
   hooksMu keeps the snapshot's read of the scenes out of the gap in which
   the object has switched and the client has not. *)
THEOREM OwnObjectAlwaysSeen == OneObjectEach => (Spec => []OwnObjectSeen)
<1> SUFFICES ASSUME OneObjectEach PROVE Spec => []OwnObjectSeen
  OBVIOUS
<1>1. Init => SnapshotInv /\ SwitchInv
  BY InitSnapshotInv
<1>2. SnapshotInv /\ SwitchInv /\ [Next]_vars => SnapshotInv' /\ SwitchInv'
  BY NextSnapshotInv, NextSwitchInv
<1>3. SnapshotInv /\ SwitchInv => OwnObjectSeen
  BY SwitchInvImplies
<1> QED
  BY <1>1, <1>2, <1>3, PTL DEF Spec
=============================================================================
