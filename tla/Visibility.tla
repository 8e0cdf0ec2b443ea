----------------------------- MODULE Visibility -----------------------------
(***************************************************************************)
(* What a client's snapshot contains: scene membership                     *)
(* (network/scene_management.go), interest registrations                   *)
(* (network/interest_management.go) and SnapshotForClient                  *)
(* (network/runtime.go).  Hooks change objects and switch scenes under     *)
(* Runtime.hooksMu; server code calls the Features methods at any time,    *)
(* each atomic under features.mu; SnapshotForClient holds hooksMu and      *)
(* reads scenes and interest one after the other.                          *)
(*                                                                         *)
(* An object is [type, id]; the player object of a client has the client's *)
(* ID.  Names are normalised and not empty, and all objects stay           *)
(* registered.                                                             *)
(***************************************************************************)
EXTENDS InterestFilter, FiniteSets

CONSTANTS Objects, Clients, Scenes,
          States,     \* per object, what its hooks may set it to: [shown, known, x, y, z, nan]
          Configs,    \* interest configurations: [radius, includeSelf, depth]
          AssignedObjects, AssignedClients,  \* those that server code puts into scenes itself
          MaxChanges  \* bound on the number of changes

SceneGlobal == "*"

ASSUME ObjectsAssumption == IsFiniteSet(Objects)
ASSUME StatesAssumption ==
    \A o \in Objects : \A s \in States[o] :
                      /\ s.shown \in BOOLEAN /\ s.known \in BOOLEAN
                      /\ {s.x, s.y, s.z} \subseteq Int
                      /\ s.nan \in {"none", "plane", "depth"}
ASSUME ConfigsAssumption == Configs \subseteq [radius : Radii, includeSelf : BOOLEAN,
                                               depth : BOOLEAN]
ASSUME AssignedAssumption ==
    AssignedObjects \subseteq Objects /\ AssignedClients \subseteq Clients
ASSUME ScenesAssumption == SceneGlobal \in Scenes

VARIABLES
    world,         \* the state of each object
    sceneClients, sceneObjects,       \* SceneManager: client or object -> scene
    interestPlayers, interestObjects, \* InterestManager: object -> configuration
    hooksMu,       \* "none", "snapshot" or "switch"
    work,          \* what the holder of hooksMu has read or still has to do
    changes        \* how many changes so far

vars == <<world, sceneClients, sceneObjects, interestPlayers, interestObjects,
          hooksMu, work, changes>>
scenes == <<sceneClients, sceneObjects>>
interest == <<interestPlayers, interestObjects>>

NoWork == [step |-> "none"]
With(f, x, y) == [z \in DOMAIN f \cup {x} |-> IF z = x THEN y ELSE f[z]]
Without(f, x) == [z \in DOMAIN f \ {x} |-> f[z]]

TypeOK ==
    /\ \A o \in Objects : world[o] \in States[o]
    /\ \A c \in DOMAIN sceneClients : c \in Clients /\ sceneClients[c] \in Scenes
    /\ \A o \in DOMAIN sceneObjects : o \in Objects /\ sceneObjects[o] \in Scenes
    /\ \A o \in DOMAIN interestPlayers : interestPlayers[o] \in Configs
    /\ \A o \in DOMAIN interestObjects : interestObjects[o] \in Configs
    /\ hooksMu = "none" <=> work = NoWork
    /\ work.step = "done" => work.view \subseteq Objects

Init ==
    /\ world \in {w \in [Objects -> UNION {States[o] : o \in Objects}] :
                    \A o \in Objects : w[o] \in States[o]}
    /\ sceneClients = << >> /\ sceneObjects = << >>
    /\ interestPlayers = << >> /\ interestObjects = << >>
    /\ hooksMu = "none" /\ work = NoWork /\ changes = 0

Change == changes < MaxChanges /\ changes' = changes + 1

-----------------------------------------------------------------------------
(* The Features methods. *)

SetObjectScene(o, s) ==
    /\ sceneObjects' = With(sceneObjects, o, s)
    /\ UNCHANGED sceneClients

SetClientScene(c, s) ==
    /\ sceneClients' = With(sceneClients, c, s)
    /\ UNCHANGED sceneObjects

AssignScene ==
    /\ Change
    /\ \/ \E o \in AssignedObjects, s \in Scenes : SetObjectScene(o, s)
       \/ \E c \in AssignedClients, s \in Scenes : SetClientScene(c, s)
    /\ UNCHANGED <<world, interest, hooksMu, work>>

(* ClearObjectScene, ClearClientScene *)
ClearScene ==
    /\ Change
    /\ \/ \E o \in DOMAIN sceneObjects \cap AssignedObjects :
             sceneObjects' = Without(sceneObjects, o) /\ UNCHANGED sceneClients
       \/ \E c \in DOMAIN sceneClients \cap AssignedClients :
             sceneClients' = Without(sceneClients, c) /\ UNCHANGED sceneObjects
    /\ UNCHANGED <<world, interest, hooksMu, work>>

EnableInterestManagement ==
    /\ Change
    /\ \E o \in Objects, config \in Configs :
          \/ interestPlayers' = With(interestPlayers, o, config) /\ UNCHANGED interestObjects
          \/ interestObjects' = With(interestObjects, o, config) /\ UNCHANGED interestPlayers
    /\ UNCHANGED <<world, scenes, hooksMu, work>>

DisableInterestManagement ==
    /\ Change
    /\ \E o \in DOMAIN interestPlayers \cup DOMAIN interestObjects :
          /\ interestPlayers' = Without(interestPlayers, o)
          /\ interestObjects' = Without(interestObjects, o)
    /\ UNCHANGED <<world, scenes, hooksMu, work>>

-----------------------------------------------------------------------------
(* Hooks. *)

(* A tick or request hook changes an object. *)
ChangeObject ==
    /\ hooksMu = "none"
    /\ Change
    /\ \E o \in Objects : \E s \in States[o] : world' = [world EXCEPT ![o] = s]
    /\ UNCHANGED <<scenes, interest, hooksMu, work>>

(* requestSceneSwitch: the object's handler allows the switch; the object's
   scene is set, *)
SwitchObject(c, s) ==
    /\ hooksMu = "none"
    /\ Change
    /\ \E o \in Objects : o.id = c /\ SetObjectScene(o, s)
    /\ hooksMu' = "switch"
    /\ work' = [step |-> "client", client |-> c, scene |-> s]
    /\ UNCHANGED <<world, interest>>

(* then the client's. *)
SwitchClient ==
    /\ work.step = "client"
    /\ SetClientScene(work.client, work.scene)
    /\ hooksMu' = "none" /\ work' = NoWork
    /\ UNCHANGED <<world, interest, changes>>

-----------------------------------------------------------------------------
(* SnapshotForClient. *)

(* Mutated: does not wait for a scene switch. *)
MutBeginSnapshotUnlocked(c) ==
    /\ hooksMu # "snapshot"
    /\ hooksMu' = "snapshot"
    /\ work' = [step |-> "scenes", client |-> c, clients |-> sceneClients,
                objects |-> sceneObjects]
    /\ UNCHANGED <<world, scenes, interest, changes>>

(* sceneState, and the client's scene in it. *)
BeginSnapshot(c) ==
    /\ hooksMu = "none"
    /\ hooksMu' = "snapshot"
    /\ work' = [step |-> "scenes", client |-> c, clients |-> sceneClients,
                objects |-> sceneObjects]
    /\ UNCHANGED <<world, scenes, interest, changes>>

(* A client without a scene sees every scene; so does every client while no
   client has one. *)
ObjectVisibleToClient(w, o) ==
    w.client \in DOMAIN w.clients /\ o \in DOMAIN w.objects
        => w.objects[o] \in {SceneGlobal, w.clients[w.client]}

(* objectConfig: a player's registration goes before one as a game object. *)
Managed(w, o) == o \in DOMAIN w.players \cup DOMAIN w.others
ObjectConfig(w, o) == IF o \in DOMAIN w.players THEN w.players[o] ELSE w.others[o]

(* extractPosition through the fields that config names. *)
Position(o, config) ==
    [x |-> world[o].x, y |-> world[o].y, z |-> world[o].z, hasZ |-> config.depth,
     nan |-> world[o].nan]

NoConfig == [radius |-> 0, includeSelf |-> FALSE, depth |-> FALSE]

InterestSnapshotObjects(w) ==
    [o \in Objects |->
        LET config == IF Managed(w, o) THEN ObjectConfig(w, o) ELSE NoConfig
        IN  [visible |-> world[o].shown /\ ObjectVisibleToClient(w, o),
             managed |-> Managed(w, o), includeSelf |-> config.includeSelf,
             radius |-> config.radius, hasPosition |-> world[o].known,
             position |-> Position(o, config)]]

(* snapshotFromObjectsForClient *)
SceneSnapshot(w) == {o \in Objects : world[o].shown /\ ObjectVisibleToClient(w, o)}

InterestSnapshot(w, player) ==
    LET entries == InterestSnapshotObjects(w)
        config == w.players[player]
        near == VisibleInterestObjectKeys(entries, player, config.radius,
                                          Position(player, config))
    IN  {o \in Objects : entries[o].visible /\ (entries[o].managed => o \in near)}

(* The player objects playerForClient may find for a client; map order
   decides. *)
PlayersOf(w) == {o \in DOMAIN w.players : o.id = w.client}

SnapshotForClient(w) ==
    IF PlayersOf(w) = {} THEN {SceneSnapshot(w)}
    ELSE {IF world[p].known THEN InterestSnapshot(w, p) ELSE SceneSnapshot(w) :
            p \in PlayersOf(w)}

(* interestState, and the snapshot that follows from what was read. *)
FinishSnapshot ==
    /\ work.step = "scenes"
    /\ LET read == [step |-> "done", client |-> work.client, clients |-> work.clients,
                    objects |-> work.objects, players |-> interestPlayers,
                    others |-> interestObjects, view |-> {}]
       IN  \E view \in SnapshotForClient(read) : work' = [read EXCEPT !.view = view]
    /\ UNCHANGED <<world, scenes, interest, hooksMu, changes>>

EndSnapshot ==
    /\ work.step = "done"
    /\ hooksMu' = "none" /\ work' = NoWork
    /\ UNCHANGED <<world, scenes, interest, changes>>

Next ==
    \/ AssignScene \/ ClearScene
    \/ EnableInterestManagement \/ DisableInterestManagement
    \/ ChangeObject
    \/ \E c \in Clients, s \in Scenes : SwitchObject(c, s)
    \/ SwitchClient
    \/ \E c \in Clients : BeginSnapshot(c)
    \/ FinishSnapshot \/ EndSnapshot

Spec == Init /\ [][Next]_vars

-----------------------------------------------------------------------------
(* Distance hides object o from player p: both are managed, o is not p, the
   radius that applies limits, and o is known to be farther away. *)
TooFar(w, p, o) ==
    LET radius == IF w.players[p].radius = 0 THEN ObjectConfig(w, o).radius
                  ELSE w.players[p].radius
    IN  /\ radius > 0 /\ world[o].known
        /\ ~WithinInterestRadius(Position(p, w.players[p]),
                                 Position(o, ObjectConfig(w, o)), radius)

(* What player p should see, said without the spatial hash. *)
Expected(w, p) ==
    {o \in Objects :
        /\ world[o].shown
        /\ \/ w.client \notin DOMAIN w.clients
           \/ o \notin DOMAIN w.objects
           \/ w.objects[o] \in {SceneGlobal, w.clients[w.client]}
        /\ (world[p].known /\ Managed(w, o)) =>
              IF o = p THEN w.players[p].includeSelf ELSE ~TooFar(w, p, o)}

(* The snapshot holds exactly the objects that are shown, that the client's
   scene does not exclude and that are near enough for one of the client's
   players: neither the hash grid nor its cell size, taken from the largest
   radius, loses or adds one.  Objects whose depth is not a number are left
   out where the player's position has no depth. *)
SnapshotIsExpected ==
    (work.step = "done" /\ PlayersOf(work) # {}) =>
        \E p \in PlayersOf(work) :
            \/ work.view = Expected(work, p)
            \/ ~SameDepth(InterestSnapshotObjects(work), Position(p, work.players[p]))

(* A client that changes scene only through scene switches always finds its
   own object in its scene, although the object's scene and the client's are
   set one after the other: no snapshot falls between. *)
OwnObjectSeen ==
    work.step = "done" => \A o \in Objects \ AssignedObjects :
        (/\ o.id = work.client /\ work.client \notin AssignedClients
         /\ world[o].shown
         /\ o \in DOMAIN work.players => work.players[o].includeSelf)
        => o \in work.view
=============================================================================
