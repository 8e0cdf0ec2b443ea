--------------------------- MODULE ObjectRegistry ---------------------------
(***************************************************************************)
(* The object registry of the runtime and the hooks it calls               *)
(* (network/runtime.go): which goroutine holds mu and hooksMu when, and    *)
(* what a registration or a removal that is not one critical section does  *)
(* to scene and interest registrations, which are kept by name.            *)
(*                                                                         *)
(* The tick goroutine runs Advance, SnapshotForClient and                  *)
(* SnapshotPriorities, the receive goroutine HandleRequest and             *)
(* HandleAuthenticationAttempt.  Both call registry operations from        *)
(* within hooks; server goroutines call them at any time.                  *)
(*                                                                         *)
(* An instance is one Go object.  Its key is its normalised type and ID;   *)
(* keys of empty names, which every operation refuses, are left out.       *)
(***************************************************************************)
EXTENDS Naturals, FiniteSets

CONSTANTS Types, Ids,
          Servers,        \* goroutines of the application
          Factories,      \* types for which RegisterFactory was called
          AuthKey,        \* the key of objects that implement AuthenticationHandler
          TickRate,       \* Config.TickRate
          MaxTicks, MaxInstances, MaxRemovals,  \* bounds
          None

ASSUME TickRateAssumption == TickRate \in Nat \ {0}
ASSUME FactoriesAssumption == Factories \subseteq Types
ASSUME BoundsAssumption == MaxTicks \in Nat /\ MaxInstances \in Nat /\ MaxRemovals \in Nat

Keys == Types \X Ids
Runners == {"tick", "receive"}
Threads == Runners \cup Servers
Instances == [number : 1 .. MaxInstances, key : Keys, fromHook : BOOLEAN]

ASSUME AuthKeyAssumption == AuthKey \in Keys
ASSUME ServersAssumption == Servers \cap Runners = {} /\ None \notin Threads \cup Instances

VARIABLES
    tick,
    objects,            \* runtime.objects: instance or None
    handler,            \* authenticationHandler, its key being authenticationObject*
    interest, scene,    \* Features: the instance that registered itself under a key
    mu,                 \* writer of mu that is between two steps
    reading,            \* objects whose SnapshotPriority is called under mu.RLock
    hooksMu,            \* thread that holds it
    hook,               \* what that thread does
    call,               \* the registry operation each thread is in
    made, removals,     \* instances made, removals begun
    since,              \* history: instances registered at some time since hooksMu was taken
    initialized,        \* history: instances whose OnInit has returned
    raced               \* history: keys with overlapping registrations or removals

registry == <<objects, handler>>
features == <<interest, scene>>
counts == <<made, removals>>
history == <<since, initialized, raced>>
vars == <<tick, registry, features, mu, reading, hooksMu, hook, call, counts, history>>

Registered == {objects[k] : k \in Keys} \ {None}
NoCall == [step |-> "idle"]
NoHook == [kind |-> "none"]
Kinds == {"tick", "fullTick", "snapshot", "request", "auth"}
FeatureSteps == {"disableInterest", "disableScene", "initInterest", "initScene",
                 "dropInterest", "dropScene"}
Steps == {"check", "make", "put", "bind", "delete"} \cup FeatureSteps

TypeOK ==
    /\ tick \in 0 .. MaxTicks
    /\ objects \in [Keys -> Instances \cup {None}]
    /\ \A k \in Keys : objects[k] # None => objects[k].key = k
    /\ handler \in Instances \cup {None}
    /\ interest \in [Keys -> Instances \cup {None}] /\ scene \in [Keys -> Instances \cup {None}]
    /\ mu \in Threads \cup {None} /\ hooksMu \in Runners \cup {None}
    /\ reading \subseteq Instances
    /\ hook # NoHook => hook.kind \in Kinds /\ hook.todo \subseteq Instances
    /\ hook = NoHook <=> hooksMu = None
    /\ \A t \in Threads : call[t] # NoCall => call[t].step \in Steps /\ call[t].key \in Keys
    /\ made \in 0 .. MaxInstances /\ removals \in 0 .. MaxRemovals

Init ==
    /\ tick = 0
    /\ objects = [k \in Keys |-> None] /\ handler = None
    /\ interest = [k \in Keys |-> None] /\ scene = [k \in Keys |-> None]
    /\ mu = None /\ reading = {} /\ hooksMu = None /\ hook = NoHook
    /\ call = [t \in Threads |-> NoCall]
    /\ made = 0 /\ removals = 0
    /\ since = {} /\ initialized = {} /\ raced = {}

-----------------------------------------------------------------------------
(* Registry operations. *)

(* A thread may call the registry: server code always, the others from a
   hook that may change objects. *)
MayCall(t) ==
    /\ call[t] = NoCall
    /\ t \in Runners => hooksMu = t /\ hook.kind # "snapshot" /\ hook.current # None

CanRead == mu = None
CanWrite == mu = None /\ reading = {}

At(t, step) == call[t].step = step
Goto(t, step) == call' = [call EXCEPT ![t].step = step]
Return(t) == call' = [call EXCEPT ![t] = NoCall]

(* RegisterObject with a new object, or one that handles authentication
   through RegisterAuthenticationObject, which refuses other objects. *)
RegisterObject(t, k) ==
    /\ MayCall(t)
    /\ made < MaxInstances
    /\ \E first \in {"put"} \cup (IF k = AuthKey THEN {"bind"} ELSE {}) :
          call' = [call EXCEPT ![t] =
              [step |-> first, key |-> k,
               instance |-> [number |-> made + 1, key |-> k, fromHook |-> t \in Runners]]]
    /\ made' = made + 1
    /\ UNCHANGED <<tick, registry, features, mu, reading, hooksMu, hook, removals, history>>

(* CreateObject *)
CreateObject(t, k) ==
    /\ MayCall(t)
    /\ call' = [call EXCEPT ![t] = [step |-> "check", key |-> k, instance |-> None]]
    /\ UNCHANGED <<tick, registry, features, mu, reading, hooksMu, hook, counts, history>>

(* GetObject finds the key taken: ErrObjectExists. *)
CreateCheck(t) ==
    /\ At(t, "check") /\ CanRead
    /\ IF objects[call[t].key] = None THEN Goto(t, "make") ELSE Return(t)
    /\ UNCHANGED <<tick, registry, features, mu, reading, hooksMu, hook, counts, history>>

(* The factory makes an object of the requested key; there may be none, and
   it may fail. *)
CreateMake(t) ==
    /\ At(t, "make") /\ CanRead
    /\ \/ /\ call[t].key[1] \in Factories /\ made < MaxInstances
          /\ call' = [call EXCEPT ![t].step = "put", ![t].instance =
                 [number |-> made + 1, key |-> call[t].key, fromHook |-> t \in Runners]]
          /\ made' = made + 1
       \/ Return(t) /\ UNCHANGED made
    /\ UNCHANGED <<tick, registry, features, mu, reading, hooksMu, hook, removals, history>>

(* Whether another thread still has feature steps to do for the key. *)
Overlaps(t, k) ==
    \E u \in Threads \ {t} : call[u].step \in FeatureSteps /\ call[u].key = k

(* The critical section of a registration; the steps after it run without mu. *)
Enter(t) ==
    LET i == call[t].instance
    IN  /\ objects' = [objects EXCEPT ![i.key] = i]
        /\ since' = IF hooksMu = None THEN since ELSE since \cup {i}
        /\ raced' = IF Overlaps(t, i.key) THEN raced \cup {i.key} ELSE raced
        /\ Goto(t, "disableInterest")

Put(t) ==
    /\ At(t, "put") /\ CanWrite
    /\ Enter(t)
    /\ UNCHANGED <<tick, handler, features, mu, reading, hooksMu, hook, counts, initialized>>

(* RegisterAuthenticationObject: refused while a handler is bound. *)
Bind(t) ==
    /\ At(t, "bind") /\ CanWrite
    /\ \/ /\ handler # None
          /\ Return(t)
          /\ UNCHANGED <<registry, history>>
       \/ /\ handler = None
          /\ Enter(t)
          /\ handler' = call[t].instance
          /\ UNCHANGED initialized
    /\ UNCHANGED <<tick, features, mu, reading, hooksMu, hook, counts>>

(* Mutated: the registrations of an earlier object of the name are kept. *)
MutDisableInterestSkipped(t) ==
    /\ At(t, "disableInterest")
    /\ Goto(t, "disableScene")
    /\ UNCHANGED <<tick, registry, features, mu, reading, hooksMu, hook, counts, history>>

DisableInterest(t) ==
    /\ At(t, "disableInterest")
    /\ interest' = [interest EXCEPT ![call[t].key] = None]
    /\ Goto(t, "disableScene")
    /\ UNCHANGED <<tick, registry, scene, mu, reading, hooksMu, hook, counts, history>>

DisableScene(t) ==
    /\ At(t, "disableScene")
    /\ scene' = [scene EXCEPT ![call[t].key] = None]
    /\ Goto(t, "initInterest")
    /\ UNCHANGED <<tick, registry, interest, mu, reading, hooksMu, hook, counts, history>>

(* OnInit may enable interest management for the object, *)
InitInterest(t) ==
    /\ At(t, "initInterest")
    /\ \/ interest' = [interest EXCEPT ![call[t].key] = call[t].instance]
       \/ UNCHANGED interest
    /\ Goto(t, "initScene")
    /\ UNCHANGED <<tick, registry, scene, mu, reading, hooksMu, hook, counts, history>>

(* and put it into a scene. *)
InitScene(t) ==
    /\ At(t, "initScene")
    /\ \/ scene' = [scene EXCEPT ![call[t].key] = call[t].instance]
       \/ UNCHANGED scene
    /\ initialized' = initialized \cup {call[t].instance}
    /\ Return(t)
    /\ UNCHANGED <<tick, registry, interest, mu, reading, hooksMu, hook, counts, since, raced>>

RemoveObject(t, k) ==
    /\ MayCall(t)
    /\ removals < MaxRemovals
    /\ call' = [call EXCEPT ![t] = [step |-> "delete", key |-> k, instance |-> None]]
    /\ removals' = removals + 1
    /\ UNCHANGED <<tick, registry, features, mu, reading, hooksMu, hook, made, history>>

TypeKnown(type) == \E id \in Ids : objects[<<type, id>>] # None

(* Mutated: the handler stays bound. *)
MutDeleteKeepsHandler(t) ==
    LET k == call[t].key
    IN  /\ At(t, "delete") /\ CanWrite
        /\ \/ ~TypeKnown(k[1]) /\ Return(t) /\ UNCHANGED <<registry, mu, raced>>
           \/ /\ TypeKnown(k[1])
              /\ objects' = [objects EXCEPT ![k] = None]
              /\ UNCHANGED handler
              /\ mu' = t /\ Goto(t, "dropInterest")
              /\ raced' = IF Overlaps(t, k) THEN raced \cup {k} ELSE raced
        /\ UNCHANGED <<tick, features, reading, hooksMu, hook, counts, since, initialized>>

(* Mutated: returns early with the lock held. *)
MutDeleteKeepsLock(t) ==
    LET k == call[t].key
    IN  /\ At(t, "delete") /\ CanWrite
        /\ mu' = t
        /\ \/ ~TypeKnown(k[1]) /\ Return(t) /\ UNCHANGED <<registry, raced>>
           \/ /\ TypeKnown(k[1])
              /\ objects' = [objects EXCEPT ![k] = None]
              /\ handler' = IF handler # None /\ handler.key = k THEN None ELSE handler
              /\ Goto(t, "dropInterest")
              /\ raced' = IF Overlaps(t, k) THEN raced \cup {k} ELSE raced
        /\ UNCHANGED <<tick, features, reading, hooksMu, hook, counts, since, initialized>>

(* The rest of RemoveObject, which holds mu to its end.  Nothing is done
   when no object has the type. *)
Delete(t) ==
    LET k == call[t].key
    IN  /\ At(t, "delete") /\ CanWrite
        /\ \/ ~TypeKnown(k[1]) /\ Return(t) /\ UNCHANGED <<registry, mu, raced>>
           \/ /\ TypeKnown(k[1])
              /\ objects' = [objects EXCEPT ![k] = None]
              /\ handler' = IF handler # None /\ handler.key = k THEN None ELSE handler
              /\ mu' = t /\ Goto(t, "dropInterest")
              /\ raced' = IF Overlaps(t, k) THEN raced \cup {k} ELSE raced
        /\ UNCHANGED <<tick, features, reading, hooksMu, hook, counts, since, initialized>>

DropInterest(t) ==
    /\ At(t, "dropInterest")
    /\ interest' = [interest EXCEPT ![call[t].key] = None]
    /\ Goto(t, "dropScene")
    /\ UNCHANGED <<tick, registry, scene, mu, reading, hooksMu, hook, counts, history>>

DropScene(t) ==
    /\ At(t, "dropScene")
    /\ scene' = [scene EXCEPT ![call[t].key] = None]
    /\ mu' = None
    /\ Return(t)
    /\ UNCHANGED <<tick, registry, interest, reading, hooksMu, hook, counts, history>>

-----------------------------------------------------------------------------
(* Hooks. *)

(* Mutated: does not wait for a hook that runs. *)
MutTakeHooksMuUnlocked(t, kind, k) ==
    /\ hooksMu # t /\ reading = {}
    /\ \A u \in Runners : hooksMu = u => call[u] # NoCall
    /\ hooksMu' = t
    /\ hook' = [kind |-> kind, key |-> k, listed |-> FALSE, todo |-> {}, current |-> None]
    /\ since' = Registered

TakeHooksMu(t, kind, k) ==
    /\ hooksMu = None
    /\ t = "tick" => reading = {}
    /\ hooksMu' = t
    /\ hook' = [kind |-> kind, key |-> k, listed |-> FALSE, todo |-> {}, current |-> None]
    /\ since' = Registered

(* Advance *)
Advance ==
    /\ TakeHooksMu("tick", "tick", None)
    /\ CanWrite
    /\ tick < MaxTicks
    /\ tick' = tick + 1
    /\ UNCHANGED <<registry, features, mu, reading, call, counts, initialized, raced>>

(* SnapshotForClient *)
SnapshotForClient ==
    /\ TakeHooksMu("tick", "snapshot", None)
    /\ UNCHANGED <<tick, registry, features, mu, reading, call, counts, initialized, raced>>

(* HandleRequest, with a request or a scene switch for the object *)
HandleRequest(k) ==
    /\ TakeHooksMu("receive", "request", k)
    /\ UNCHANGED <<tick, registry, features, mu, reading, call, counts, initialized, raced>>

HandleAuthenticationAttempt ==
    /\ TakeHooksMu("receive", "auth", None)
    /\ UNCHANGED <<tick, registry, features, mu, reading, call, counts, initialized, raced>>

(* Mutated: hooks are called from a cache that removals do not update. *)
MutTargetsCached ==
    CASE hook.kind = "request" -> {objects[hook.key]} \ {None}
      [] hook.kind = "auth"    -> {handler} \ {None}
      [] OTHER                 -> initialized

(* The objects whose hooks are called: objectList, GetObject or the handler. *)
Targets ==
    CASE hook.kind = "request" -> {objects[hook.key]} \ {None}
      [] hook.kind = "auth"    -> {handler} \ {None}
      [] OTHER                 -> Registered

ListObjects ==
    /\ hooksMu # None /\ ~hook.listed /\ CanRead
    /\ hook' = [hook EXCEPT !.listed = TRUE, !.todo = Targets]
    /\ UNCHANGED <<tick, registry, features, mu, reading, hooksMu, call, counts, history>>

BeginHook ==
    /\ hooksMu # None /\ hook.current = None
    /\ \E i \in hook.todo : hook' = [hook EXCEPT !.current = i, !.todo = @ \ {i}]
    /\ UNCHANGED <<tick, registry, features, mu, reading, hooksMu, call, counts, history>>

EndHook ==
    /\ hooksMu # None /\ hook.current # None /\ call[hooksMu] = NoCall
    /\ hook' = [hook EXCEPT !.current = None]
    /\ UNCHANGED <<tick, registry, features, mu, reading, hooksMu, call, counts, history>>

Done == hooksMu # None /\ hook.listed /\ hook.todo = {} /\ hook.current = None

(* Advance goes through the objects again, for OnFullTick. *)
BeginFullTick ==
    /\ Done /\ hook.kind = "tick" /\ tick % TickRate = 0
    /\ hook' = [hook EXCEPT !.kind = "fullTick", !.listed = FALSE]
    /\ UNCHANGED <<tick, registry, features, mu, reading, hooksMu, call, counts, history>>

ReleaseHooksMu ==
    /\ Done /\ ~(hook.kind = "tick" /\ tick % TickRate = 0)
    /\ hooksMu' = None /\ hook' = NoHook /\ since' = {}
    /\ UNCHANGED <<tick, registry, features, mu, reading, call, counts, initialized, raced>>

(* SnapshotPriorities, under mu.RLock only, for objects of a snapshot that
   was taken before. *)
BeginPriorities ==
    /\ hooksMu # "tick" /\ reading = {} /\ CanRead
    /\ reading' \in (SUBSET Registered) \ {{}}
    /\ UNCHANGED <<tick, registry, features, mu, hooksMu, hook, call, counts, history>>

EndPriorities ==
    /\ reading # {}
    /\ reading' = {}
    /\ UNCHANGED <<tick, registry, features, mu, hooksMu, hook, call, counts, history>>

-----------------------------------------------------------------------------
CallStep(t) ==
    \/ CreateCheck(t) \/ CreateMake(t) \/ Put(t) \/ Bind(t)
    \/ DisableInterest(t) \/ DisableScene(t) \/ InitInterest(t) \/ InitScene(t)
    \/ Delete(t) \/ DropInterest(t) \/ DropScene(t)

HookStep == ListObjects \/ BeginHook \/ EndHook \/ BeginFullTick \/ ReleaseHooksMu

Next ==
    \/ \E t \in Threads :
          \/ \E k \in Keys : RegisterObject(t, k) \/ CreateObject(t, k) \/ RemoveObject(t, k)
          \/ CallStep(t)
    \/ Advance \/ SnapshotForClient \/ HandleAuthenticationAttempt
    \/ \E k \in Keys : HandleRequest(k)
    \/ HookStep
    \/ BeginPriorities \/ EndPriorities

Spec == Init /\ [][Next]_vars

-----------------------------------------------------------------------------
(* Registrations by name follow the object: unless registrations or
   removals of one name overlapped, interest and scene of a name belong to
   the object that is registered under it, and a removed object leaves none. *)
FeaturesFollowObject ==
    \A k \in Keys \ raced :
        (\A t \in Threads : call[t].step \in FeatureSteps => call[t].key # k)
            => {interest[k], scene[k]} \subseteq {None, objects[k]}

(* A hook is called only on an object that was registered at some moment
   since the runtime took hooksMu: neither a tick nor a request reaches an
   object whose removal ended before. *)
HooksOnRegistered ==
    (hooksMu # None /\ hook.kind # "auth" /\ hook.current # None) => hook.current \in since

(* An object that a hook registers has finished OnInit before any other hook
   of it is called, although it can be found from the moment it is entered. *)
InitBeforeHooks ==
    (hooksMu # None /\ hook.current # None /\ hook.current.fromHook)
        => hook.current \in initialized

(* While authentication is required there is an object under the handler's
   name, so that RemoveObject can unbind it. *)
HandlerCanBeRemoved == handler # None => objects[handler.key] # None

(* Whoever holds mu waits for nobody: its writer is in the last two steps
   of RemoveObject, which take only the lock of the features, and the tick
   goroutine never reads under mu while it holds or waits for hooksMu.  So
   no two goroutines wait for each other. *)
HoldersOfMuMove ==
    /\ mu # None => call[mu].step \in {"dropInterest", "dropScene"}
    /\ reading # {} => hooksMu # "tick"
=============================================================================
