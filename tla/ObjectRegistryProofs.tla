------------------------ MODULE ObjectRegistryProofs ------------------------
(***************************************************************************)
(* The object registry and its hooks, for every set of names, goroutines   *)
(* and bounds.  Each safety property is strengthened to an invariant that  *)
(* is inductive together with Typed: HoldersOfMuMove and                   *)
(* HandlerCanBeRemoved are so already, HooksReachSince, InitInProgress     *)
(* (with CallsFromHooks) and FeaturesInStep imply the others.              *)
(***************************************************************************)
EXTENDS ObjectRegistry, TLAPS

Calls == [step : Steps, key : Keys, instance : Instances \cup {None}]
HookStates == [kind : Kinds, key : Keys \cup {None}, listed : BOOLEAN,
               todo : SUBSET Instances, current : Instances \cup {None}]

(* The steps of a registration whose object is entered, and all of them. *)
InitSteps == {"disableInterest", "disableScene", "initInterest", "initScene"}
RegistrationSteps == {"put", "bind"} \cup InitSteps

(* A registration keeps its object, which is of the call's key. *)
CallsOwnObject ==
    \A t \in Threads : call[t].step \in RegistrationSteps =>
        /\ call[t].instance \in Instances
        /\ call[t].instance.key = call[t].key
        /\ call[t].instance.fromHook = (t \in Runners)

Typed ==
    /\ TypeOK
    /\ call \in [Threads -> Calls \cup {NoCall}]
    /\ hook \in HookStates \cup {NoHook}
    /\ hook # NoHook /\ hook.kind = "request" => hook.key \in Keys
    /\ CallsOwnObject

(* A goroutine of the runtime calls the registry only from a hook, and an
   object is in hand only after the objects were listed. *)
CallsFromHooks ==
    /\ \A t \in Runners : call[t] # NoCall => hooksMu = t /\ hook.current # None
    /\ hooksMu # None /\ ~hook.listed => hook.todo = {} /\ hook.current = None

(* What is entered under hooksMu is in the history, and so are the objects
   whose hooks are to be called. *)
HooksReachSince ==
    hooksMu # None =>
        /\ Registered \subseteq since
        /\ hook.kind # "auth" => hook.todo \cup ({hook.current} \ {None}) \subseteq since

(* The objects a hook can find: the handler may have been replaced in the table. *)
Findable == Registered \cup ({handler} \ {None})

(* An object of a hook that can be found and has not finished OnInit is the
   one a goroutine of the runtime is registering; none has its hooks called. *)
InitInProgress ==
    /\ \A i \in Findable : i.fromHook /\ i \notin initialized =>
          \E t \in Runners : call[t].step \in InitSteps /\ call[t].instance = i
    /\ hooksMu # None =>
          \A i \in hook.todo \cup ({hook.current} \ {None}) : i.fromHook => i \in initialized

(* What interest, scene and the table hold under a name at each step of
   the registration or the removal in progress for it. *)
Progress(t, k) ==
    /\ call[t].step \in InitSteps => objects[k] = call[t].instance
    /\ call[t].step \in {"dropInterest", "dropScene"} => objects[k] = None
    /\ call[t].step \in {"disableScene", "initInterest", "dropScene"} => interest[k] = None
    /\ call[t].step = "initScene" => interest[k] \in {None, objects[k]}
    /\ call[t].step \in {"initInterest", "initScene"} => scene[k] = None

Busy(t, k) == call[t].step \in FeatureSteps /\ call[t].key = k

InStep(k) ==
    /\ \A t \in Threads : Busy(t, k) => Progress(t, k)
    /\ \A t, u \in Threads : Busy(t, k) /\ Busy(u, k) => t = u
    /\ (\A t \in Threads : ~Busy(t, k)) => {interest[k], scene[k]} \subseteq {None, objects[k]}

FeaturesInStep == \A k \in Keys \ raced : InStep(k)

-----------------------------------------------------------------------------
(* A thread moves to another step of its call, and no other thread does. *)
LEMMA GotoEffect ==
    ASSUME Typed, NEW t \in Threads, NEW s \in Steps, call[t].step \in Steps, Goto(t, s)
    PROVE  /\ call' \in [Threads -> Calls \cup {NoCall}]
           /\ call'[t] \in Calls /\ call[t] \in Calls
           /\ call'[t].step = s
           /\ call'[t].key = call[t].key /\ call'[t].instance = call[t].instance
           /\ \A u \in Threads \ {t} : call'[u] = call[u]
<1>1. call[t] \in Calls
  BY DEF Typed, NoCall, Steps, FeatureSteps
<1> DEFINE c == [call[t] EXCEPT !.step = s]
<1>2. c \in Calls /\ c.step = s /\ c.key = call[t].key /\ c.instance = call[t].instance
  BY <1>1 DEF Calls
<1>3. call' = [call EXCEPT ![t] = c]
  BY DEF Goto
<1>4. call'[t] = c
  BY <1>3 DEF Typed
<1> HIDE DEF c
<1> QED
  BY <1>1, <1>2, <1>3, <1>4 DEF Typed

(* A call returns. *)
LEMMA ReturnEffect ==
    ASSUME Typed, NEW t \in Threads, Return(t)
    PROVE  /\ call' \in [Threads -> Calls \cup {NoCall}]
           /\ call'[t] = NoCall /\ call'[t].step = "idle"
           /\ \A u \in Threads \ {t} : call'[u] = call[u]
  BY DEF Typed, Return, NoCall

(* A call is begun or its record replaced. *)
LEMMA CallEffect ==
    ASSUME Typed, NEW t \in Threads, NEW c \in Calls, call' = [call EXCEPT ![t] = c]
    PROVE  /\ call' \in [Threads -> Calls \cup {NoCall}]
           /\ call'[t] = c
           /\ \A u \in Threads \ {t} : call'[u] = call[u]
  BY DEF Typed

(* A thread that is at a step of a call has a call. *)
LEMMA InCall ==
    ASSUME Typed, NEW t \in Threads, call[t].step \in Steps
    PROVE  call[t] \in Calls /\ call[t] # NoCall
  BY DEF Typed, NoCall, Steps, FeatureSteps

(* Where no thread's call changes in type or object. *)
LEMMA CallsOwnKept ==
    ASSUME CallsOwnObject, NEW t \in Threads,
           \A u \in Threads \ {t} : call'[u] = call[u],
           call'[t].step \in RegistrationSteps =>
              /\ call'[t].instance \in Instances
              /\ call'[t].instance.key = call'[t].key
              /\ call'[t].instance.fromHook = (t \in Runners)
    PROVE  CallsOwnObject'
  BY DEF CallsOwnObject

(* What is left of Typed for a step of a call, *)
LEMMA TypedByCall ==
    ASSUME Typed, UNCHANGED <<tick, reading, hooksMu, hook>>,
           objects' \in [Keys -> Instances \cup {None}],
           \A k \in Keys : objects'[k] # None => objects'[k].key = k,
           handler' \in Instances \cup {None},
           interest' \in [Keys -> Instances \cup {None}],
           scene' \in [Keys -> Instances \cup {None}],
           mu' \in Threads \cup {None},
           made' \in 0 .. MaxInstances, removals' \in 0 .. MaxRemovals,
           call' \in [Threads -> Calls \cup {NoCall}],
           CallsOwnObject'
    PROVE  Typed'
<1>1. \A t \in Threads : call'[t] # NoCall => call'[t].step \in Steps /\ call'[t].key \in Keys
  BY DEF Calls
<1> QED
  BY <1>1 DEF Typed, TypeOK

(* and for a step of a hook. *)
LEMMA TypedByHook ==
    ASSUME Typed, UNCHANGED <<registry, features, mu, call, counts>>,
           tick' \in 0 .. MaxTicks, reading' \subseteq Instances,
           \/ UNCHANGED <<hooksMu, hook>>
           \/ hooksMu' = None /\ hook' = NoHook
           \/ /\ hooksMu' \in Runners /\ hook' \in HookStates
              /\ hook'.kind = "request" => hook'.key \in Keys
    PROVE  Typed'
<1>1. UNCHANGED <<objects, handler, interest, scene, mu, call, made, removals>>
  BY DEF registry, features, counts
<1>2. CallsOwnObject'
  BY <1>1 DEF Typed, CallsOwnObject
<1>3. None \notin Runners
  BY ServersAssumption DEF Threads
<1>4. hook' \in HookStates => hook' # NoHook
  BY DEF HookStates, NoHook, Kinds
<1>5. /\ hook' # NoHook => hook'.kind \in Kinds /\ hook'.todo \subseteq Instances
      /\ hook' = NoHook <=> hooksMu' = None
      /\ hook' \in HookStates \cup {NoHook}
      /\ hook' # NoHook /\ hook'.kind = "request" => hook'.key \in Keys
      /\ hooksMu' \in Runners \cup {None}
  BY <1>3, <1>4 DEF Typed, TypeOK, HookStates
<1> QED
  BY <1>1, <1>2, <1>5 DEF Typed, TypeOK

(* Registered objects are objects, and none of them is None. *)
LEMMA RegisteredTyped ==
    ASSUME Typed
    PROVE  Registered \subseteq Instances
  BY DEF Registered, Typed, TypeOK

LEMMA InitTyped == Init => Typed
<1> SUFFICES ASSUME Init PROVE Typed
  OBVIOUS
<1>1. \A t \in Threads : call[t] = NoCall
  BY DEF Init
<1>2. CallsOwnObject
  BY <1>1 DEF CallsOwnObject, NoCall, RegistrationSteps, InitSteps
<1>3. TypeOK
  BY <1>1, BoundsAssumption DEF Init, TypeOK, NoHook
<1> QED
  BY <1>2, <1>3 DEF Init, Typed

LEMMA BeginTyped ==
    ASSUME Typed, NEW t \in Threads, NEW k \in Keys,
           RegisterObject(t, k) \/ CreateObject(t, k) \/ RemoveObject(t, k)
    PROVE  Typed'
<1>1. CASE RegisterObject(t, k)
  <2> DEFINE i == [number |-> made + 1, key |-> k, fromHook |-> t \in Runners]
  <2>1. made \in Nat /\ made + 1 \in 1 .. MaxInstances
    BY <1>1, BoundsAssumption DEF Typed, TypeOK, RegisterObject
  <2>2. i \in Instances /\ i.key = k /\ i.fromHook = (t \in Runners)
    BY <2>1 DEF Instances
  <2> HIDE DEF i
  <2>3. PICK first \in {"put", "bind"} :
            call' = [call EXCEPT ![t] = [step |-> first, key |-> k, instance |-> i]]
    BY <1>1 DEF RegisterObject, i
  <2> DEFINE c == [step |-> first, key |-> k, instance |-> i]
  <2>4. c \in Calls /\ c.key = k /\ c.instance = i
    BY <2>2 DEF Calls, Steps
  <2>5. call' = [call EXCEPT ![t] = c]
    BY <2>3
  <2> HIDE DEF c
  <2>6. CallsOwnObject'
    BY <2>2, <2>4, <2>5, CallEffect, CallsOwnKept DEF Typed
  <2>7. made' \in 0 .. MaxInstances
    BY <1>1, <2>1, BoundsAssumption DEF RegisterObject
  <2> QED
    BY <1>1, <2>4, <2>5, <2>6, <2>7, CallEffect, TypedByCall
       DEF RegisterObject, Typed, TypeOK, registry, features
<1>2. CASE CreateObject(t, k) \/ RemoveObject(t, k)
  <2>1. PICK first \in {"check", "delete"} :
            call' = [call EXCEPT ![t] = [step |-> first, key |-> k, instance |-> None]]
    BY <1>2 DEF CreateObject, RemoveObject
  <2> DEFINE c == [step |-> first, key |-> k, instance |-> None]
  <2>2. c \in Calls /\ c.step \notin RegistrationSteps
    BY DEF Calls, Steps, RegistrationSteps, InitSteps
  <2>3. call' = [call EXCEPT ![t] = c]
    BY <2>1
  <2> HIDE DEF c
  <2>4. CallsOwnObject'
    BY <2>2, <2>3, CallEffect, CallsOwnKept DEF Typed
  <2>5. made' \in 0 .. MaxInstances /\ removals' \in 0 .. MaxRemovals
    BY <1>2, BoundsAssumption DEF CreateObject, RemoveObject, Typed, TypeOK, counts
  <2> QED
    BY <1>2, <2>2, <2>3, <2>4, <2>5, CallEffect, TypedByCall
       DEF CreateObject, RemoveObject, Typed, TypeOK, registry, features
<1> QED
  BY <1>1, <1>2

(* A registration in progress has its object entered. *)
LEMMA EnterTyped ==
    ASSUME Typed, NEW t \in Threads, call[t].step \in {"put", "bind"}, Enter(t),
           UNCHANGED <<tick, features, mu, reading, hooksMu, hook, counts>>,
           handler' \in Instances \cup {None}
    PROVE  Typed'
<1> DEFINE i == call[t].instance
<1>1. i \in Instances /\ i.key = call[t].key /\ i.fromHook = (t \in Runners)
  BY DEF Typed, CallsOwnObject, RegistrationSteps
<1>2. i.key \in Keys
  BY <1>1 DEF Instances
<1>3. /\ objects' = [objects EXCEPT ![i.key] = i]
      /\ Goto(t, "disableInterest")
  BY DEF Enter
<1>4. call[t].step \in Steps
  BY DEF Steps
<1>5. CallsOwnObject'
  BY <1>1, <1>3, <1>4, GotoEffect, CallsOwnKept DEF Typed, Steps, FeatureSteps
<1>6. call' \in [Threads -> Calls \cup {NoCall}]
  BY <1>3, <1>4, GotoEffect DEF Steps, FeatureSteps
<1> HIDE DEF i
<1> QED
  BY <1>1, <1>2, <1>3, <1>5, <1>6, TypedByCall DEF Typed, TypeOK, features, counts

(* A step of a call that goes on, or ends it, and keeps its object. *)
LEMMA MoveKeepsOwn ==
    ASSUME Typed, NEW t \in Threads, call[t].step \in Steps,
           \/ Return(t)
           \/ Goto(t, "make") \/ Goto(t, "dropInterest") \/ Goto(t, "dropScene")
           \/ /\ call[t].step \in InitSteps
              /\ Goto(t, "disableScene") \/ Goto(t, "initInterest") \/ Goto(t, "initScene")
    PROVE  CallsOwnObject' /\ call' \in [Threads -> Calls \cup {NoCall}]
<1>1. CASE Return(t)
  BY <1>1, ReturnEffect, CallsOwnKept DEF Typed, RegistrationSteps, InitSteps
<1>2. CASE Goto(t, "make") \/ Goto(t, "dropInterest") \/ Goto(t, "dropScene")
  BY <1>2, GotoEffect, CallsOwnKept DEF Typed, RegistrationSteps, InitSteps, Steps, FeatureSteps
<1>3. CASE /\ call[t].step \in InitSteps
           /\ Goto(t, "disableScene") \/ Goto(t, "initInterest") \/ Goto(t, "initScene")
  <2>1. /\ call[t].instance \in Instances /\ call[t].instance.key = call[t].key
        /\ call[t].instance.fromHook = (t \in Runners)
    BY <1>3 DEF Typed, CallsOwnObject, RegistrationSteps
  <2> QED
    BY <1>3, <2>1, GotoEffect, CallsOwnKept DEF Typed, Steps, FeatureSteps
<1> QED
  BY <1>1, <1>2, <1>3

LEMMA CallStepTyped ==
    ASSUME Typed, NEW t \in Threads, CallStep(t)
    PROVE  Typed'
<1> USE DEF At
<1>1. CASE CreateCheck(t)
  BY <1>1, MoveKeepsOwn, TypedByCall
     DEF CreateCheck, Typed, TypeOK, registry, features, counts, Steps
<1>2. CASE CreateMake(t)
  <2>1. CASE Return(t) /\ UNCHANGED made
    BY <1>2, <2>1, MoveKeepsOwn, TypedByCall
       DEF CreateMake, Typed, TypeOK, registry, features, Steps
  <2>2. CASE ~(Return(t) /\ UNCHANGED made)
    <3> DEFINE k == call[t].key
               i == [number |-> made + 1, key |-> k, fromHook |-> t \in Runners]
               c == [call[t] EXCEPT !.step = "put", !.instance = i]
    <3>1. call[t] \in Calls
      BY <1>2, InCall DEF CreateMake, Steps
    <3>2. made + 1 \in 1 .. MaxInstances /\ made' = made + 1
      BY <1>2, <2>2, BoundsAssumption DEF CreateMake, Typed, TypeOK
    <3>3. i \in Instances /\ i.key = k /\ i.fromHook = (t \in Runners)
      BY <3>1, <3>2 DEF Instances, Calls
    <3>4. call' = [call EXCEPT ![t] = c]
      BY <1>2, <2>2 DEF CreateMake, Typed
    <3> HIDE DEF i
    <3>5. c \in Calls /\ c.key = k /\ c.instance = i
      BY <3>1, <3>3 DEF Calls, Steps
    <3> HIDE DEF c
    <3>6. CallsOwnObject'
      BY <3>3, <3>4, <3>5, CallEffect, CallsOwnKept DEF Typed
    <3>7. made' \in 0 .. MaxInstances
      BY <3>2, BoundsAssumption
    <3> QED
      BY <1>2, <3>4, <3>5, <3>6, <3>7, CallEffect, TypedByCall
         DEF CreateMake, Typed, TypeOK, registry, features
  <2> QED
    BY <2>1, <2>2
<1>3. CASE Put(t)
  BY <1>3, EnterTyped DEF Put, Typed, TypeOK
<1>4. CASE Bind(t)
  <2>1. CASE handler # None
    BY <1>4, <2>1, MoveKeepsOwn, TypedByCall
       DEF Bind, Typed, TypeOK, registry, features, counts, Steps
  <2>2. CASE handler = None
    <3>1. handler' = call[t].instance /\ Enter(t)
      BY <1>4, <2>2 DEF Bind
    <3>2. call[t].instance \in Instances
      BY <1>4 DEF Bind, Typed, CallsOwnObject, RegistrationSteps
    <3> QED
      BY <1>4, <3>1, <3>2, EnterTyped DEF Bind
  <2> QED
    BY <2>1, <2>2
<1>5. ASSUME NEW s \in FeatureSteps, call[t].step = s PROVE call[t].key \in Keys /\ s \in Steps
  BY <1>5, InCall DEF Steps, Calls
<1>6. ASSUME call[t].step \in InitSteps PROVE call[t].instance \in Instances
  BY <1>6 DEF Typed, CallsOwnObject, RegistrationSteps
<1>7. CASE DisableInterest(t) \/ DisableScene(t)
  BY <1>5, <1>7, MoveKeepsOwn, TypedByCall
     DEF DisableInterest, DisableScene, Typed, TypeOK, registry, features, counts, FeatureSteps, InitSteps
<1>8. CASE InitInterest(t)
  BY <1>5, <1>6, <1>8, MoveKeepsOwn, TypedByCall
     DEF InitInterest, Typed, TypeOK, registry, features, counts, FeatureSteps, InitSteps
<1>9. CASE InitScene(t)
  BY <1>5, <1>6, <1>9, MoveKeepsOwn, TypedByCall
     DEF InitScene, Typed, TypeOK, registry, features, counts, FeatureSteps, InitSteps
<1>10. CASE Delete(t)
  <2>1. call[t].key \in Keys /\ call[t].step \in Steps
    BY <1>10, InCall DEF Delete, Steps, Calls
  <2>2. CallsOwnObject' /\ call' \in [Threads -> Calls \cup {NoCall}]
    BY <1>10, <2>1, MoveKeepsOwn DEF Delete
  <2>3. /\ objects' \in [Keys -> Instances \cup {None}]
        /\ \A k \in Keys : objects'[k] # None => objects'[k].key = k
        /\ handler' \in Instances \cup {None}
        /\ mu' \in Threads \cup {None}
    BY <1>10, <2>1 DEF Delete, Typed, TypeOK, registry
  <2> QED
    BY <1>10, <2>2, <2>3, TypedByCall DEF Delete, Typed, TypeOK, features, counts
<1>11. CASE DropInterest(t) \/ DropScene(t)
  BY <1>5, <1>11, MoveKeepsOwn, TypedByCall
     DEF DropInterest, DropScene, Typed, TypeOK, registry, features, counts, FeatureSteps
<1> QED
  BY <1>1, <1>2, <1>3, <1>4, <1>7, <1>8, <1>9, <1>10, <1>11 DEF CallStep

(* hooksMu is taken, by whichever operation. *)
LEMMA TakeEffect ==
    ASSUME NEW t \in Runners, NEW kind \in Kinds, NEW k \in Keys \cup {None},
           TakeHooksMu(t, kind, k)
    PROVE  /\ hooksMu = None /\ hooksMu' = t /\ since' = Registered
           /\ hook' \in HookStates
           /\ hook'.kind = kind /\ hook'.key = k /\ ~hook'.listed
           /\ hook'.todo = {} /\ hook'.current = None
  BY DEF TakeHooksMu, HookStates

(* The runtime's operations that begin with hooksMu. *)
Begin == \/ Advance \/ SnapshotForClient \/ HandleAuthenticationAttempt
         \/ \E k \in Keys : HandleRequest(k)

LEMMA BeginEffect ==
    ASSUME Typed, Begin
    PROVE  /\ hooksMu = None /\ hooksMu' \in Runners /\ since' = Registered
           /\ hooksMu' = "tick" => reading = {}
           /\ hook' \in HookStates
           /\ hook'.kind = "request" => hook'.key \in Keys
           /\ ~hook'.listed /\ hook'.todo = {} /\ hook'.current = None
           /\ tick' \in 0 .. MaxTicks
           /\ UNCHANGED <<registry, features, mu, reading, call, counts, initialized, raced>>
<1> USE DEF Kinds, Runners
<1>1. CASE Advance
  <2>1. TakeHooksMu("tick", "tick", None) /\ tick' \in 0 .. MaxTicks
    BY <1>1, BoundsAssumption DEF Advance, Typed, TypeOK
  <2> QED
    BY <1>1, <2>1, TakeEffect DEF Advance, TakeHooksMu
<1>2. CASE SnapshotForClient
  <2>1. TakeHooksMu("tick", "snapshot", None) /\ tick' \in 0 .. MaxTicks
    BY <1>2 DEF SnapshotForClient, Typed, TypeOK
  <2> QED
    BY <1>2, <2>1, TakeEffect DEF SnapshotForClient, TakeHooksMu
<1>3. CASE HandleAuthenticationAttempt
  <2>1. TakeHooksMu("receive", "auth", None) /\ tick' \in 0 .. MaxTicks
    BY <1>3 DEF HandleAuthenticationAttempt, Typed, TypeOK
  <2> QED
    BY <1>3, <2>1, TakeEffect DEF HandleAuthenticationAttempt, TakeHooksMu
<1>4. ASSUME NEW k \in Keys, HandleRequest(k)
      PROVE  /\ hooksMu = None /\ hooksMu' \in Runners /\ since' = Registered
             /\ hooksMu' = "tick" => reading = {}
             /\ hook' \in HookStates
             /\ hook'.kind = "request" => hook'.key \in Keys
             /\ ~hook'.listed /\ hook'.todo = {} /\ hook'.current = None
             /\ tick' \in 0 .. MaxTicks
             /\ UNCHANGED <<registry, features, mu, reading, call, counts, initialized, raced>>
  <2>1. TakeHooksMu("receive", "request", k) /\ tick' \in 0 .. MaxTicks
    BY <1>4 DEF HandleRequest, Typed, TypeOK
  <2> QED
    BY <1>4, <2>1, TakeEffect DEF HandleRequest, TakeHooksMu
<1> QED
  BY <1>1, <1>2, <1>3, <1>4 DEF Begin

(* The objects a hook may be called on are objects. *)
LEMMA TargetsTyped ==
    ASSUME Typed, hooksMu # None
    PROVE  /\ Targets \subseteq Findable \ {None}
           /\ Targets \subseteq Instances
           /\ hook.kind # "auth" => Targets \subseteq Registered
<1>1. hook \in HookStates /\ (hook.kind = "request" => hook.key \in Keys)
  BY DEF Typed, TypeOK
<1>2. CASE hook.kind = "request"
  BY <1>1, <1>2 DEF Targets, Registered, Findable, Typed, TypeOK
<1>3. CASE hook.kind = "auth"
  BY <1>1, <1>3 DEF Targets, Findable, Typed, TypeOK
<1>4. CASE hook.kind \notin {"request", "auth"}
  <2>1. Targets = Registered
    BY <1>4 DEF Targets
  <2> QED
    BY <1>4, <2>1, RegisteredTyped DEF Registered, Findable
<1> QED
  BY <1>2, <1>3, <1>4

(* What the steps between taking and releasing hooksMu do to hook. *)
LEMMA HookStepEffect ==
    ASSUME Typed, HookStep
    PROVE  /\ hooksMu \in Runners /\ hook \in HookStates
           /\ UNCHANGED <<tick, registry, features, mu, reading, call, counts, initialized, raced>>
           /\ \/ ReleaseHooksMu
              \/ /\ UNCHANGED <<hooksMu, since>>
                 /\ hook' \in HookStates
                 /\ hook'.key = hook.key
                 /\ hook'.kind = "request" => hook.kind = "request"
                 /\ hook'.kind # "auth" => hook.kind # "auth"
                 /\ \/ /\ ~hook.listed /\ hook'.listed
                       /\ hook'.todo = Targets /\ hook'.current = hook.current
                    \/ /\ hook'.listed = hook.listed
                       /\ hook'.todo \cup {hook'.current} \subseteq hook.todo \cup {None}
                       /\ hook.todo # {} /\ hook.current = None
                    \/ /\ hook'.listed = hook.listed /\ hook'.todo = hook.todo
                       /\ hook'.current = None /\ call[hooksMu] = NoCall
                    \/ /\ hook'.todo = {} /\ hook'.current = None
                       /\ ~hook'.listed /\ hook.todo = {} /\ hook.current = None
<1>1. hooksMu \in Runners /\ hook \in HookStates
  BY DEF HookStep, ListObjects, BeginHook, EndHook, BeginFullTick, ReleaseHooksMu, Done, Typed, TypeOK
<1>2. CASE ListObjects
  <2>1. Targets \subseteq Instances
    BY <1>2, TargetsTyped DEF ListObjects
  <2> QED
    BY <1>1, <1>2, <2>1 DEF ListObjects, HookStates, history
<1>3. CASE BeginHook
  BY <1>1, <1>3 DEF BeginHook, HookStates, history
<1>4. CASE EndHook
  BY <1>1, <1>4 DEF EndHook, HookStates, history
<1>5. CASE BeginFullTick
  BY <1>1, <1>5 DEF BeginFullTick, HookStates, Kinds, Done, history
<1>6. CASE ReleaseHooksMu
  BY <1>1, <1>6 DEF ReleaseHooksMu
<1> QED
  BY <1>2, <1>3, <1>4, <1>5, <1>6 DEF HookStep

(* The steps of the specification, grouped by what they change. *)
CallBegin(t) == \E k \in Keys : RegisterObject(t, k) \/ CreateObject(t, k) \/ RemoveObject(t, k)
Priorities == BeginPriorities \/ EndPriorities

LEMMA StepKinds ==
    ASSUME [Next]_vars
    PROVE  \/ \E t \in Threads : CallBegin(t) \/ CallStep(t)
           \/ Begin \/ HookStep \/ Priorities \/ UNCHANGED vars
  BY DEF Next, CallBegin, Begin, Priorities

LEMMA PrioritiesEffect ==
    ASSUME Typed, Priorities
    PROVE  /\ UNCHANGED <<tick, registry, features, mu, hooksMu, hook, call, counts, history>>
           /\ reading' = {} \/ (reading' \subseteq Instances /\ hooksMu # "tick")
<1>1. Registered \subseteq Instances
  BY RegisteredTyped
<1> QED
  BY <1>1 DEF Priorities, BeginPriorities, EndPriorities

LEMMA NextTyped ==
    ASSUME Typed, [Next]_vars
    PROVE  Typed'
<1>1. ASSUME NEW t \in Threads, CallBegin(t) \/ CallStep(t) PROVE Typed'
  BY <1>1, BeginTyped, CallStepTyped DEF CallBegin
<1>2. CASE Begin
  BY <1>2, BeginEffect, TypedByHook DEF Typed, TypeOK
<1>3. CASE HookStep
  <2>1. CASE ReleaseHooksMu
    BY <2>1, TypedByHook DEF ReleaseHooksMu, Typed, TypeOK
  <2>2. CASE ~ReleaseHooksMu
    <3>1. hook # NoHook
      BY <1>3, HookStepEffect DEF HookStates, NoHook, Kinds
    <3>2. /\ hooksMu' \in Runners /\ hook' \in HookStates
          /\ hook'.kind = "request" => hook'.key \in Keys
      BY <1>3, <2>2, <3>1, HookStepEffect DEF Typed
    <3> QED
      BY <1>3, <3>2, HookStepEffect, TypedByHook DEF Typed, TypeOK
  <2> QED
    BY <2>1, <2>2
<1>4. CASE Priorities
  BY <1>4, PrioritiesEffect, TypedByHook DEF Typed, TypeOK
<1>5. CASE UNCHANGED vars
  BY <1>5, TypedByHook DEF vars, Typed, TypeOK
<1> QED
  BY <1>1, <1>2, <1>3, <1>4, <1>5, StepKinds

(* The registry, its locks and its hooks keep their types: an object is
   under its own name and a hook runs just while hooksMu is held. *)
THEOREM TypesCorrect == Spec => []TypeOK
<1>1. Typed => TypeOK
  BY DEF Typed
<1> QED
  BY <1>1, InitTyped, NextTyped, PTL DEF Spec

-----------------------------------------------------------------------------
(* Locks. *)

(* A step of a call neither takes nor releases hooksMu, and no other thread
   is at another step after it. *)
LEMMA CallKeepsHook ==
    ASSUME Typed, NEW t \in Threads, CallBegin(t) \/ CallStep(t)
    PROVE  /\ UNCHANGED <<reading, hooksMu, hook>>
           /\ \A u \in Threads \ {t} : call'[u] = call[u]
<1>1. CASE CallBegin(t)
  BY <1>1 DEF CallBegin, RegisterObject, CreateObject, RemoveObject, Typed
<1>2. CASE CreateCheck(t) \/ CreateMake(t) \/ Put(t) \/ Bind(t)
  BY <1>2 DEF CreateCheck, CreateMake, Put, Bind, Enter, Goto, Return, Typed
<1>3. CASE DisableInterest(t) \/ DisableScene(t) \/ InitInterest(t) \/ InitScene(t)
  BY <1>3 DEF DisableInterest, DisableScene, InitInterest, InitScene, Goto, Return, Typed
<1>4. CASE Delete(t) \/ DropInterest(t) \/ DropScene(t)
  BY <1>4 DEF Delete, DropInterest, DropScene, Goto, Return, Typed
<1> QED
  BY <1>1, <1>2, <1>3, <1>4 DEF CallStep

(* No step of a call lets another writer in while mu is held. *)
LEMMA CallKeepsMu ==
    ASSUME Typed, HoldersOfMuMove, NEW t \in Threads, CallBegin(t) \/ CallStep(t)
    PROVE  /\ UNCHANGED <<reading, hooksMu, hook>>
           /\ mu' # None => call'[mu'].step \in {"dropInterest", "dropScene"}
<1> USE DEF At, Steps, FeatureSteps
<1>1. None \notin Threads /\ (mu # None => mu \in Threads)
  BY ServersAssumption DEF Typed, TypeOK
<1>2. UNCHANGED <<reading, hooksMu, hook>> /\ \A u \in Threads \ {t} : call'[u] = call[u]
  BY CallKeepsHook
<1>3. CASE UNCHANGED mu /\ call[t].step \notin {"dropInterest", "dropScene"}
  BY <1>1, <1>2, <1>3 DEF HoldersOfMuMove
<1>4. CASE CallBegin(t)
  BY <1>3, <1>4 DEF CallBegin, RegisterObject, CreateObject, RemoveObject, MayCall, NoCall
<1>5. CASE CreateCheck(t) \/ CreateMake(t) \/ Put(t) \/ Bind(t)
  BY <1>3, <1>5 DEF CreateCheck, CreateMake, Put, Bind
<1>6. CASE DisableInterest(t) \/ DisableScene(t) \/ InitInterest(t) \/ InitScene(t)
  BY <1>3, <1>6 DEF DisableInterest, DisableScene, InitInterest, InitScene
<1>7. CASE Delete(t)
  <2>1. mu = None /\ call[t].step = "delete" /\ (mu' = mu \/ (mu' = t /\ Goto(t, "dropInterest")))
    BY <1>7 DEF Delete, CanWrite
  <2> QED
    BY <1>2, <2>1, GotoEffect
<1>8. CASE DropInterest(t)
  <2>1. UNCHANGED mu /\ Goto(t, "dropScene") /\ call[t].step = "dropInterest"
    BY <1>8 DEF DropInterest
  <2> QED
    BY <1>1, <1>2, <2>1, GotoEffect DEF HoldersOfMuMove
<1>9. CASE DropScene(t)
  BY <1>2, <1>9 DEF DropScene
<1> QED
  BY <1>4, <1>5, <1>6, <1>7, <1>8, <1>9 DEF CallStep

LEMMA NextMu ==
    ASSUME Typed, HoldersOfMuMove, [Next]_vars
    PROVE  HoldersOfMuMove'
<1>1. ASSUME NEW t \in Threads, CallBegin(t) \/ CallStep(t) PROVE HoldersOfMuMove'
  BY <1>1, CallKeepsMu DEF HoldersOfMuMove
<1>2. CASE Begin
  BY <1>2, BeginEffect DEF HoldersOfMuMove
<1>3. CASE HookStep
  <2>1. UNCHANGED <<mu, reading, call>> /\ (hooksMu' = hooksMu \/ hooksMu' = None)
    BY <1>3, HookStepEffect DEF ReleaseHooksMu
  <2>2. None # "tick"
    BY ServersAssumption DEF Threads, Runners
  <2> QED
    BY <2>1, <2>2 DEF HoldersOfMuMove
<1>4. CASE Priorities
  BY <1>4, PrioritiesEffect DEF HoldersOfMuMove
<1>5. CASE UNCHANGED vars
  BY <1>5 DEF vars, HoldersOfMuMove
<1> QED
  BY <1>1, <1>2, <1>3, <1>4, <1>5, StepKinds

(* Whoever holds mu, to write or to read, can take its next step without a
   lock another holder of mu or of hooksMu has: goroutines of any number
   calling the registry, from hooks or not, do not wait for each other. *)
THEOREM HoldersMove == Spec => []HoldersOfMuMove
<1>1. Init => Typed /\ HoldersOfMuMove
  BY InitTyped DEF Init, HoldersOfMuMove
<1>2. Typed /\ HoldersOfMuMove /\ [Next]_vars => (Typed /\ HoldersOfMuMove)'
  BY NextTyped, NextMu
<1> QED
  BY <1>1, <1>2, PTL DEF Spec

-----------------------------------------------------------------------------
(* What the steps of a call do to the table and the handler. *)
LEMMA CallChangesTable ==
    ASSUME Typed, NEW t \in Threads, CallBegin(t) \/ CallStep(t)
    PROVE  \/ /\ UNCHANGED <<objects, handler, since>>
           \/ /\ Put(t) \/ Bind(t)
              /\ Enter(t) /\ handler' \in {handler, call[t].instance}
              /\ call[t].instance \in Instances /\ call[t].instance.key \in Keys
              /\ call[t].instance.key = call[t].key
              /\ UNCHANGED <<hooksMu, hook, initialized>>
           \/ /\ Delete(t) /\ call[t].key \in Keys
              /\ objects' = [objects EXCEPT ![call[t].key] = None]
              /\ handler' = IF handler # None /\ handler.key = call[t].key THEN None ELSE handler
              /\ UNCHANGED <<hooksMu, hook, since, initialized>>
<1> USE DEF At
<1>1. CASE Put(t) \/ Bind(t)
  <2>1. /\ call[t].instance \in Instances /\ call[t].instance.key \in Keys
        /\ call[t].instance.key = call[t].key
    BY <1>1 DEF Put, Bind, Typed, CallsOwnObject, RegistrationSteps, Instances
  <2> QED
    BY <1>1, <2>1 DEF Put, Bind, registry, history
<1>2. CASE Delete(t)
  <2>1. call[t].key \in Keys
    BY <1>2, InCall DEF Delete, Calls, Steps
  <2> QED
    BY <1>2, <2>1 DEF Delete, registry
<1>3. CASE CallBegin(t)
  BY <1>3 DEF CallBegin, RegisterObject, CreateObject, RemoveObject, registry, history
<1>4. CASE CreateCheck(t) \/ CreateMake(t) \/ DropInterest(t) \/ DropScene(t)
  BY <1>4 DEF CreateCheck, CreateMake, DropInterest, DropScene, registry, history
<1>5. CASE DisableInterest(t) \/ DisableScene(t) \/ InitInterest(t) \/ InitScene(t)
  BY <1>5 DEF DisableInterest, DisableScene, InitInterest, InitScene, registry, history
<1> QED
  BY <1>1, <1>2, <1>3, <1>4, <1>5 DEF CallStep

(* Steps other than those of a call leave table and handler alone. *)
LEMMA TableKept ==
    ASSUME Typed, Begin \/ HookStep \/ Priorities \/ UNCHANGED vars
    PROVE  UNCHANGED <<objects, handler, interest, scene, call, initialized, raced>>
<1>1. CASE Begin
  BY <1>1, BeginEffect DEF registry, features
<1>2. CASE HookStep
  BY <1>2, HookStepEffect DEF registry, features
<1>3. CASE Priorities
  BY <1>3, PrioritiesEffect DEF registry, features, history
<1> QED
  BY <1>1, <1>2, <1>3 DEF vars, registry, features, history

LEMMA NextHandler ==
    ASSUME Typed, HandlerCanBeRemoved, [Next]_vars
    PROVE  HandlerCanBeRemoved'
<1>1. ASSUME NEW t \in Threads, CallBegin(t) \/ CallStep(t) PROVE HandlerCanBeRemoved'
  <2>1. handler # None => handler.key \in Keys
    BY DEF Typed, TypeOK, Instances
  <2>2. None \notin Instances
    BY ServersAssumption
  <2>3. CASE UNCHANGED <<objects, handler>>
    BY <2>3 DEF HandlerCanBeRemoved
  <2>4. CASE /\ Enter(t) /\ handler' \in {handler, call[t].instance}
             /\ call[t].instance \in Instances /\ call[t].instance.key \in Keys
    <3>1. objects' = [objects EXCEPT ![call[t].instance.key] = call[t].instance]
      BY <2>4 DEF Enter
    <3> QED
      BY <2>1, <2>2, <2>4, <3>1 DEF HandlerCanBeRemoved, Typed, TypeOK
  <2>5. CASE /\ Delete(t) /\ call[t].key \in Keys
             /\ objects' = [objects EXCEPT ![call[t].key] = None]
             /\ handler' = IF handler # None /\ handler.key = call[t].key THEN None ELSE handler
    BY <2>1, <2>5 DEF HandlerCanBeRemoved, Typed, TypeOK
  <2> QED
    BY <1>1, <2>3, <2>4, <2>5, CallChangesTable
<1>2. CASE Begin \/ HookStep \/ Priorities \/ UNCHANGED vars
  BY <1>2, TableKept DEF HandlerCanBeRemoved
<1> QED
  BY <1>1, <1>2, StepKinds

(* However registrations and removals of the authentication object and of
   other objects of its name interleave, a bound handler has an object under
   its name, so RemoveObject reaches the code that unbinds it. *)
THEOREM HandlerRemovable == Spec => []HandlerCanBeRemoved
<1>1. Init => Typed /\ HandlerCanBeRemoved
  BY InitTyped DEF Init, HandlerCanBeRemoved
<1>2. Typed /\ HandlerCanBeRemoved /\ [Next]_vars => (Typed /\ HandlerCanBeRemoved)'
  BY NextTyped, NextHandler
<1> QED
  BY <1>1, <1>2, PTL DEF Spec

-----------------------------------------------------------------------------
(* Which objects hooks are called on. *)
LEMMA NextSince ==
    ASSUME Typed, HooksReachSince, [Next]_vars
    PROVE  HooksReachSince'
<1>1. ASSUME NEW t \in Threads, CallBegin(t) \/ CallStep(t) PROVE HooksReachSince'
  <2>1. UNCHANGED <<hooksMu, hook>>
    BY <1>1, CallKeepsHook
  <2>2. CASE UNCHANGED <<objects, handler, since>>
    BY <2>1, <2>2 DEF HooksReachSince, Registered
  <2>3. CASE /\ Enter(t) /\ call[t].instance.key \in Keys
    <3>1. /\ objects' = [objects EXCEPT ![call[t].instance.key] = call[t].instance]
          /\ since' = IF hooksMu = None THEN since ELSE since \cup {call[t].instance}
      BY <2>3 DEF Enter
    <3>2. Registered' \subseteq Registered \cup {call[t].instance}
      BY <2>3, <3>1 DEF Registered, Typed, TypeOK
    <3> QED
      BY <2>1, <3>1, <3>2 DEF HooksReachSince
  <2>4. CASE /\ call[t].key \in Keys /\ objects' = [objects EXCEPT ![call[t].key] = None]
             /\ UNCHANGED since
    <3>1. Registered' \subseteq Registered
      BY <2>4 DEF Registered, Typed, TypeOK
    <3> QED
      BY <2>1, <2>4, <3>1 DEF HooksReachSince
  <2> QED
    BY <1>1, <2>2, <2>3, <2>4, CallChangesTable
<1>2. CASE Begin
  <2>1. Registered' = Registered
    BY <1>2, TableKept DEF Registered
  <2> QED
    BY <1>2, <2>1, BeginEffect DEF HooksReachSince
<1>3. CASE HookStep
  <2>1. Registered' = Registered
    BY <1>3, TableKept DEF Registered
  <2>2. CASE ReleaseHooksMu
    BY <2>2 DEF ReleaseHooksMu, HooksReachSince
  <2>3. CASE ~ReleaseHooksMu
    <3>1. hooksMu # None
      BY <1>3, HookStepEffect, ServersAssumption DEF Threads
    <3>2. hook.kind # "auth" => Targets \subseteq Registered
      BY <3>1, TargetsTyped
    <3>3. /\ since' = since /\ (hook'.kind # "auth" => hook.kind # "auth")
          /\ \/ hook'.todo = Targets /\ hook'.current = hook.current
             \/ hook'.todo \cup {hook'.current} \subseteq hook.todo \cup {None}
             \/ hook'.todo = hook.todo /\ hook'.current = None
             \/ hook'.todo = {} /\ hook'.current = None
      BY <1>3, <2>3, HookStepEffect
    <3>4. /\ Registered \subseteq since
          /\ hook.kind # "auth" => hook.todo \cup ({hook.current} \ {None}) \subseteq since
      BY <3>1 DEF HooksReachSince
    <3>5. None \notin hook'.todo
      BY <1>3, <2>3, HookStepEffect, ServersAssumption DEF HookStates
    <3>6. hook'.kind # "auth" => hook'.todo \cup ({hook'.current} \ {None}) \subseteq since
      BY <3>2, <3>3, <3>4, <3>5
    <3> QED
      BY <2>1, <3>3, <3>4, <3>6 DEF HooksReachSince
  <2> QED
    BY <2>2, <2>3
<1>4. CASE Priorities \/ UNCHANGED vars
  <2>1. UNCHANGED <<hooksMu, hook, since>>
    BY <1>4, PrioritiesEffect DEF vars, history
  <2> QED
    BY <1>4, <2>1, TableKept DEF HooksReachSince, Registered
<1> QED
  BY <1>1, <1>2, <1>3, <1>4, StepKinds

(* Removal while the runtime works through its list of objects: a tick, a
   snapshot or a request calls hooks only of objects that were registered at
   some moment since it took hooksMu. *)
THEOREM HooksOnlyRegistered == Spec => []HooksOnRegistered
<1>1. Init => Typed /\ HooksReachSince
  BY InitTyped DEF Init, HooksReachSince
<1>2. Typed /\ HooksReachSince /\ [Next]_vars => (Typed /\ HooksReachSince)'
  BY NextTyped, NextSince
<1>3. HooksReachSince => HooksOnRegistered
  BY DEF HooksReachSince, HooksOnRegistered
<1> QED
  BY <1>1, <1>2, <1>3, PTL DEF Spec

-----------------------------------------------------------------------------
(* A goroutine of the runtime that is at some step of a call, or comes to
   be, runs a hook. *)
LEMMA CallFromHook ==
    ASSUME Typed, CallsFromHooks, NEW t \in Runners, CallBegin(t) \/ CallStep(t)
    PROVE  hooksMu = t /\ hook.current # None
<1>1. CASE CallBegin(t)
  BY <1>1 DEF CallBegin, RegisterObject, CreateObject, RemoveObject, MayCall
<1>2. CASE CallStep(t)
  <2>1. call[t].step # "idle"
    BY <1>2 DEF CallStep, CreateCheck, CreateMake, Put, Bind, DisableInterest, DisableScene,
                InitInterest, InitScene, Delete, DropInterest, DropScene, At
  <2> QED
    BY <2>1 DEF CallsFromHooks, NoCall
<1> QED
  BY <1>1, <1>2

LEMMA NextFromHooks ==
    ASSUME Typed, CallsFromHooks, [Next]_vars
    PROVE  CallsFromHooks'
<1>0. None \notin Runners /\ Runners \subseteq Threads
  BY ServersAssumption DEF Threads
<1>1. ASSUME NEW t \in Threads, CallBegin(t) \/ CallStep(t) PROVE CallsFromHooks'
  BY <1>0, <1>1, CallKeepsHook, CallFromHook DEF CallsFromHooks
<1>2. CASE Begin
  <2>1. \A t \in Runners : call[t] = NoCall
    BY <1>0, <1>2, BeginEffect DEF CallsFromHooks
  <2> QED
    BY <1>2, <2>1, BeginEffect DEF CallsFromHooks
<1>3. CASE HookStep
  <2>1. call' = call /\ hooksMu # None
    BY <1>0, <1>3, HookStepEffect
  <2>2. CASE ReleaseHooksMu
    <3>1. \A t \in Runners : call[t] = NoCall
      BY <2>2 DEF CallsFromHooks, ReleaseHooksMu, Done
    <3> QED
      BY <2>1, <2>2, <3>1 DEF CallsFromHooks, ReleaseHooksMu
  <2>3. CASE ~ReleaseHooksMu
    <3>1. hooksMu' = hooksMu
      BY <1>3, <2>3, HookStepEffect
    <3>2. CASE /\ ~hook.listed /\ hook'.listed /\ hook'.current = hook.current
      BY <2>1, <3>1, <3>2 DEF CallsFromHooks
    <3>3. CASE hook'.listed = hook.listed /\ hook.todo # {} /\ hook.current = None
      BY <2>1, <3>1, <3>3 DEF CallsFromHooks
    <3>4. CASE /\ hook'.listed = hook.listed /\ hook'.todo = hook.todo
               /\ hook'.current = None /\ call[hooksMu] = NoCall
      BY <2>1, <3>1, <3>4 DEF CallsFromHooks
    <3>5. CASE /\ hook'.todo = {} /\ hook'.current = None /\ hook.current = None
      BY <2>1, <3>1, <3>5 DEF CallsFromHooks
    <3> QED
      BY <1>3, <2>3, <3>2, <3>3, <3>4, <3>5, HookStepEffect
  <2> QED
    BY <2>2, <2>3
<1>4. CASE Priorities \/ UNCHANGED vars
  <2>1. UNCHANGED <<hooksMu, hook, call>>
    BY <1>4, PrioritiesEffect DEF vars
  <2> QED
    BY <2>1 DEF CallsFromHooks
<1> QED
  BY <1>1, <1>2, <1>3, <1>4, StepKinds

(* A registration that has entered its object goes on with it until OnInit
   has returned. *)
LEMMA InitGoesOn ==
    ASSUME Typed, NEW t \in Threads, CallBegin(t) \/ CallStep(t)
    PROVE  /\ initialized \subseteq initialized'
           /\ call[t].step \in InitSteps =>
                 \/ call'[t].step \in InitSteps /\ call'[t].instance = call[t].instance
                 \/ call[t].instance \in initialized'
<1> USE DEF At, Steps, FeatureSteps, InitSteps
<1>1. CASE CallBegin(t)
  BY <1>1 DEF CallBegin, RegisterObject, CreateObject, RemoveObject, MayCall, NoCall, history
<1>2. CASE CreateCheck(t) \/ CreateMake(t) \/ Put(t) \/ Bind(t) \/ Delete(t)
  BY <1>2 DEF CreateCheck, CreateMake, Put, Bind, Delete, history
<1>3. CASE DropInterest(t) \/ DropScene(t)
  BY <1>3 DEF DropInterest, DropScene, history
<1>4. CASE DisableInterest(t)
  BY <1>4, GotoEffect DEF DisableInterest, history
<1>5. CASE DisableScene(t)
  BY <1>5, GotoEffect DEF DisableScene, history
<1>6. CASE InitInterest(t)
  BY <1>6, GotoEffect DEF InitInterest, history
<1>7. CASE InitScene(t)
  BY <1>7 DEF InitScene
<1> QED
  BY <1>1, <1>2, <1>3, <1>4, <1>5, <1>6, <1>7 DEF CallStep

LEMMA CallKeepsInit ==
    ASSUME Typed, InitInProgress, NEW t \in Threads, CallBegin(t) \/ CallStep(t)
    PROVE  InitInProgress'
<1>1. UNCHANGED <<hooksMu, hook>> /\ \A u \in Threads \ {t} : call'[u] = call[u]
  BY CallKeepsHook
<1>2. /\ initialized \subseteq initialized'
      /\ call[t].step \in InitSteps =>
            \/ call'[t].step \in InitSteps /\ call'[t].instance = call[t].instance
            \/ call[t].instance \in initialized'
  BY InitGoesOn
<1>3. Runners \subseteq Threads
  BY DEF Threads
<1>4. \A i \in Findable : i.fromHook /\ i \notin initialized' =>
          \E u \in Runners : call'[u].step \in InitSteps /\ call'[u].instance = i
  <2> SUFFICES ASSUME NEW i \in Findable, i.fromHook, i \notin initialized'
               PROVE  \E u \in Runners : call'[u].step \in InitSteps /\ call'[u].instance = i
    OBVIOUS
  <2>1. PICK u \in Runners : call[u].step \in InitSteps /\ call[u].instance = i
    BY <1>2 DEF InitInProgress
  <2> QED
    BY <1>1, <1>2, <1>3, <2>1
<1>5. \A i \in Findable' : i.fromHook /\ i \notin initialized' =>
          \E u \in Runners : call'[u].step \in InitSteps /\ call'[u].instance = i
  <2>1. CASE UNCHANGED <<objects, handler>>
    BY <1>4, <2>1 DEF Findable, Registered
  <2>2. CASE /\ Put(t) \/ Bind(t)
             /\ Enter(t) /\ handler' \in {handler, call[t].instance}
             /\ call[t].instance \in Instances /\ call[t].instance.key \in Keys
    <3>1. objects' = [objects EXCEPT ![call[t].instance.key] = call[t].instance]
      BY <2>2 DEF Enter
    <3>2. Findable' \subseteq Findable \cup {call[t].instance}
      BY <2>2, <3>1 DEF Findable, Registered, Typed, TypeOK
    <3>3. call[t].step \in {"put", "bind"}
      BY <2>2 DEF Put, Bind, At
    <3>4. call'[t].step \in InitSteps /\ call'[t].instance = call[t].instance
      BY <2>2, <3>3, GotoEffect DEF Enter, Steps, FeatureSteps, InitSteps
    <3>5. call[t].instance.fromHook = (t \in Runners)
      BY <3>3 DEF Typed, CallsOwnObject, RegistrationSteps
    <3> QED
      BY <1>4, <3>2, <3>4, <3>5
  <2>3. CASE /\ call[t].key \in Keys
             /\ objects' = [objects EXCEPT ![call[t].key] = None]
             /\ handler' = IF handler # None /\ handler.key = call[t].key THEN None ELSE handler
    <3>1. Findable' \subseteq Findable
      BY <2>3 DEF Findable, Registered, Typed, TypeOK
    <3> QED
      BY <1>4, <3>1
  <2> QED
    BY <2>1, <2>2, <2>3, CallChangesTable
<1> QED
  BY <1>1, <1>2, <1>5 DEF InitInProgress

LEMMA NextInit ==
    ASSUME Typed, CallsFromHooks, InitInProgress, [Next]_vars
    PROVE  InitInProgress'
<1>1. ASSUME NEW t \in Threads, CallBegin(t) \/ CallStep(t) PROVE InitInProgress'
  BY <1>1, CallKeepsInit
<1>2. CASE Begin \/ HookStep \/ Priorities \/ UNCHANGED vars
  <2>1. UNCHANGED <<call, initialized>> /\ Findable' = Findable
    BY <1>2, TableKept DEF Findable, Registered
  <2>2. hooksMu' # None =>
            \A i \in hook'.todo \cup ({hook'.current} \ {None}) : i.fromHook => i \in initialized
    <3>1. CASE Begin
      BY <3>1, BeginEffect
    <3>2. CASE HookStep /\ ~ReleaseHooksMu
      <4>1. hooksMu # None
        BY <3>2, HookStepEffect, ServersAssumption DEF Threads
      <4>2. \A i \in hook.todo \cup ({hook.current} \ {None}) : i.fromHook => i \in initialized
        BY <4>1 DEF InitInProgress
      <4>3. CASE ~hook.listed /\ hook'.todo = Targets /\ hook'.current = hook.current
        <5>1. \A u \in Runners : call[u].step = "idle"
          BY <4>1, <4>3 DEF CallsFromHooks, NoCall
        <5>2. \A i \in Targets : i.fromHook => i \in initialized
          BY <4>1, <5>1, TargetsTyped DEF InitInProgress, InitSteps
        <5> QED
          BY <4>2, <4>3, <5>2
      <4>4. CASE hook'.todo \cup {hook'.current} \subseteq hook.todo \cup {None}
        <5>1. None \notin hook'.todo
          BY <3>2, HookStepEffect, ServersAssumption DEF HookStates
        <5> QED
          BY <4>2, <4>4, <5>1
      <4>5. CASE hook'.todo \subseteq hook.todo /\ hook'.current = None
        BY <4>2, <4>5
      <4> QED
        BY <3>2, <4>3, <4>4, <4>5, HookStepEffect
    <3>3. CASE ReleaseHooksMu
      BY <3>3 DEF ReleaseHooksMu
    <3>4. CASE Priorities \/ UNCHANGED vars
      BY <3>4, PrioritiesEffect DEF InitInProgress, vars
    <3> QED
      BY <1>2, <3>1, <3>2, <3>3, <3>4
  <2> QED
    BY <2>1, <2>2 DEF InitInProgress
<1> QED
  BY <1>1, <1>2, StepKinds

(* An object can be found as soon as it is entered, before its OnInit runs.
   No hook reaches one registered from a hook in that time, in whichever
   goroutine: hooksMu is held until OnInit has returned. *)
THEOREM HooksAfterInit == Spec => []InitBeforeHooks
<1> DEFINE Inv == Typed /\ CallsFromHooks /\ InitInProgress
<1>1. Init => Inv
  <2> SUFFICES ASSUME Init PROVE Inv
    OBVIOUS
  <2>1. Typed
    BY InitTyped
  <2>2. /\ \A t \in Runners : call[t] = NoCall
        /\ hooksMu = None /\ Findable = {}
    BY DEF Init, Findable, Registered, Threads
  <2> QED
    BY <2>1, <2>2 DEF CallsFromHooks, InitInProgress
<1>2. Inv /\ [Next]_vars => Inv'
  BY NextTyped, NextFromHooks, NextInit
<1>3. Inv => InitBeforeHooks
  BY DEF InitInProgress, InitBeforeHooks
<1> QED
  BY <1>1, <1>2, <1>3, PTL DEF Spec

-----------------------------------------------------------------------------
(* Registrations by name. *)

(* A thread that has nothing to do for a name leaves what is there. *)
LEMMA OtherName ==
    ASSUME NEW t \in Threads, NEW k \in Keys, InStep(k),
           \A u \in Threads \ {t} : call'[u] = call[u],
           ~Busy(t, k), ~Busy(t, k)',
           objects'[k] = objects[k], interest'[k] = interest[k], scene'[k] = scene[k]
    PROVE  InStep(k)'
<1>1. \A u \in Threads : Busy(u, k)' <=> Busy(u, k)
  BY DEF Busy
<1>2. \A u \in Threads : Busy(u, k) => (Progress(u, k)' <=> Progress(u, k))
  BY DEF Progress
<1> QED
  BY <1>1, <1>2 DEF InStep

(* The one thread at work for a name takes a step. *)
LEMMA OwnName ==
    ASSUME NEW t \in Threads, NEW k \in Keys,
           \A u \in Threads \ {t} : call'[u] = call[u],
           \A u \in Threads \ {t} : ~Busy(u, k),
           \/ Busy(t, k)' /\ Progress(t, k)'
           \/ ~Busy(t, k)' /\ {interest'[k], scene'[k]} \subseteq {None, objects'[k]}
    PROVE  InStep(k)'
<1>1. \A u \in Threads \ {t} : ~Busy(u, k)'
  BY DEF Busy
<1> QED
  BY <1>1 DEF InStep

(* The critical section of a registration or a removal: the name is marked
   as raced unless no other thread is at work for it. *)
LEMMA TableStep ==
    ASSUME Typed, FeaturesInStep, NEW t \in Threads, NEW s \in {"disableInterest", "dropInterest"},
           call[t].step \in Steps \ FeatureSteps, call[t].key \in Keys, Goto(t, s),
           raced' = IF Overlaps(t, call[t].key) THEN raced \cup {call[t].key} ELSE raced,
           UNCHANGED features,
           \A k \in Keys \ {call[t].key} : objects'[k] = objects[k],
           objects'[call[t].key] = IF s = "dropInterest" THEN None ELSE call[t].instance
    PROVE  FeaturesInStep'
<1> SUFFICES ASSUME NEW k \in Keys, k \notin raced' PROVE InStep(k)'
  BY DEF FeaturesInStep
<1>1. /\ call'[t].step = s /\ call'[t].key = call[t].key
      /\ call'[t].instance = call[t].instance
      /\ \A u \in Threads \ {t} : call'[u] = call[u]
  BY GotoEffect DEF Steps, FeatureSteps
<1>2. k \notin raced
  OBVIOUS
<1>3. CASE k # call[t].key
  BY <1>1, <1>2, <1>3, OtherName DEF FeaturesInStep, Busy, features
<1>4. CASE k = call[t].key
  <2>1. \A u \in Threads \ {t} : ~Busy(u, k)
    BY <1>4 DEF Overlaps, Busy
  <2>2. Busy(t, k)' /\ Progress(t, k)'
    BY <1>1, <1>4 DEF Busy, Progress, FeatureSteps, InitSteps
  <2> QED
    BY <1>1, <2>1, <2>2, OwnName
<1> QED
  BY <1>3, <1>4

(* A step for one name, by the thread at work for it. *)
LEMMA FeatureStep ==
    ASSUME Typed, FeaturesInStep, NEW t \in Threads,
           call[t].step \in FeatureSteps, call[t].key \in Keys,
           \A u \in Threads \ {t} : call'[u] = call[u],
           call'[t].step \in FeatureSteps => call'[t].key = call[t].key,
           UNCHANGED <<registry, raced>>,
           \A k \in Keys \ {call[t].key} : interest'[k] = interest[k] /\ scene'[k] = scene[k],
           Progress(t, call[t].key) =>
              \/ call'[t].step \in FeatureSteps /\ Progress(t, call[t].key)'
              \/ /\ call'[t].step \notin FeatureSteps
                 /\ {interest'[call[t].key], scene'[call[t].key]} \subseteq {None, objects[call[t].key]}
    PROVE  FeaturesInStep'
<1> SUFFICES ASSUME NEW k \in Keys, k \notin raced' PROVE InStep(k)'
  BY DEF FeaturesInStep
<1>1. InStep(k)
  BY DEF FeaturesInStep
<1>2. CASE k # call[t].key
  BY <1>1, <1>2, OtherName DEF Busy, registry
<1>3. CASE k = call[t].key
  <2>1. Busy(t, k)
    BY <1>3 DEF Busy
  <2>2. Progress(t, k) /\ \A u \in Threads \ {t} : ~Busy(u, k)
    BY <1>1, <2>1 DEF InStep
  <2>3. \/ Busy(t, k)' /\ Progress(t, k)'
        \/ ~Busy(t, k)' /\ {interest'[k], scene'[k]} \subseteq {None, objects'[k]}
    BY <1>3, <2>2 DEF Busy, registry
  <2> QED
    BY <2>2, <2>3, OwnName
<1> QED
  BY <1>2, <1>3

(* A step that enters nothing and is for no name yet, or no longer. *)
LEMMA NoFeatureStep ==
    ASSUME Typed, FeaturesInStep, NEW t \in Threads,
           call[t].step \notin FeatureSteps, call'[t].step \notin FeatureSteps,
           \A u \in Threads \ {t} : call'[u] = call[u],
           UNCHANGED <<registry, features, raced>>
    PROVE  FeaturesInStep'
  BY OtherName DEF FeaturesInStep, Busy, registry, features

LEMMA CallKeepsFeatures ==
    ASSUME Typed, FeaturesInStep, NEW t \in Threads, CallBegin(t) \/ CallStep(t)
    PROVE  FeaturesInStep'
<1> USE DEF At
<1>0. \A u \in Threads \ {t} : call'[u] = call[u]
  BY CallKeepsHook
<1>1. CASE CallBegin(t)
  <2>1. PICK k \in Keys : RegisterObject(t, k) \/ CreateObject(t, k) \/ RemoveObject(t, k)
    BY <1>1 DEF CallBegin
  <2>2. call[t].step \notin FeatureSteps /\ UNCHANGED <<registry, features, raced>>
    BY <2>1 DEF RegisterObject, CreateObject, RemoveObject, MayCall, NoCall, FeatureSteps, history
  <2>3. call'[t].step \in {"put", "bind", "check", "delete"}
    BY <2>1 DEF RegisterObject, CreateObject, RemoveObject, Typed
  <2> QED
    BY <1>0, <2>2, <2>3, NoFeatureStep DEF FeatureSteps
<1>2. CASE CreateCheck(t)
  <2>1. call'[t].step \notin FeatureSteps
    BY <1>2, GotoEffect, ReturnEffect DEF CreateCheck, Steps, FeatureSteps
  <2> QED
    BY <1>0, <1>2, <2>1, NoFeatureStep DEF CreateCheck, FeatureSteps, history
<1>3. CASE CreateMake(t)
  <2>1. call[t].step = "make"
    BY <1>3 DEF CreateMake
  <2>2. call[t] \in Calls
    BY <2>1, InCall DEF Steps
  <2>3. call'[t].step \in {"put", "idle"}
    BY <1>3, <2>2 DEF CreateMake, Return, NoCall, Typed, Calls
  <2> QED
    BY <1>0, <1>3, <2>1, <2>3, NoFeatureStep DEF CreateMake, FeatureSteps, history
<1>4. CASE Put(t) \/ (Bind(t) /\ handler = None)
  <2>1. /\ call[t].step \in {"put", "bind"} /\ call[t].step \in Steps \ FeatureSteps
        /\ Enter(t) /\ UNCHANGED features
    BY <1>4 DEF Put, Bind, Steps, FeatureSteps
  <2>2. call[t].instance.key = call[t].key /\ call[t].key \in Keys
    BY <2>1, InCall DEF Typed, CallsOwnObject, RegistrationSteps, Calls
  <2>3. /\ objects' = [objects EXCEPT ![call[t].key] = call[t].instance]
        /\ raced' = IF Overlaps(t, call[t].key) THEN raced \cup {call[t].key} ELSE raced
        /\ Goto(t, "disableInterest")
    BY <2>1, <2>2 DEF Enter
  <2>4. /\ \A k \in Keys \ {call[t].key} : objects'[k] = objects[k]
        /\ objects'[call[t].key] = call[t].instance
    BY <2>2, <2>3 DEF Typed, TypeOK
  <2> QED
    BY <2>1, <2>2, <2>3, <2>4, TableStep
<1>5. CASE Bind(t) /\ handler # None
  <2>1. call[t].step = "bind" /\ Return(t) /\ UNCHANGED <<registry, features, raced>>
    BY <1>5 DEF Bind, history
  <2> QED
    BY <1>0, <2>1, ReturnEffect, NoFeatureStep DEF FeatureSteps
<1>6. CASE Delete(t)
  <2>1. call[t].step = "delete" /\ call[t].step \in Steps \ FeatureSteps /\ UNCHANGED features
    BY <1>6 DEF Delete, Steps, FeatureSteps
  <2>2. call[t].key \in Keys
    BY <2>1, InCall DEF Calls
  <2>3. CASE Return(t) /\ UNCHANGED <<registry, raced>>
    BY <1>0, <2>1, <2>3, ReturnEffect, NoFeatureStep DEF FeatureSteps
  <2>4. CASE /\ objects' = [objects EXCEPT ![call[t].key] = None]
             /\ Goto(t, "dropInterest")
             /\ raced' = IF Overlaps(t, call[t].key) THEN raced \cup {call[t].key} ELSE raced
    <3>1. /\ \A k \in Keys \ {call[t].key} : objects'[k] = objects[k]
          /\ objects'[call[t].key] = None
      BY <2>2, <2>4 DEF Typed, TypeOK
    <3> QED
      BY <2>1, <2>2, <2>4, <3>1, TableStep
  <2> QED
    BY <1>6, <2>3, <2>4 DEF Delete
<1>7. ASSUME call[t].step \in FeatureSteps
      PROVE  call[t].key \in Keys /\ call[t].step \in Steps
  BY <1>7, InCall DEF Steps, Calls
<1> DEFINE k == call[t].key
<1>8. CASE DisableInterest(t)
  <2>1. /\ call[t].step = "disableInterest" /\ Goto(t, "disableScene")
        /\ UNCHANGED <<registry, scene, raced>>
        /\ interest' = [interest EXCEPT ![k] = None]
    BY <1>8 DEF DisableInterest, history
  <2>2. /\ k \in Keys
        /\ call'[t].step = "disableScene" /\ call'[t].key = k /\ call'[t].instance = call[t].instance
    BY <1>7, <2>1, GotoEffect DEF Steps, FeatureSteps
  <2>3. interest'[k] = None /\ \A j \in Keys \ {k} : interest'[j] = interest[j]
    BY <2>1, <2>2 DEF Typed, TypeOK
  <2>4. Progress(t, k) => Progress(t, k)'
    BY <2>1, <2>2, <2>3 DEF Progress, InitSteps, registry
  <2> QED
    BY <1>0, <2>1, <2>2, <2>3, <2>4, FeatureStep DEF FeatureSteps
<1>9. CASE DisableScene(t)
  <2>1. /\ call[t].step = "disableScene" /\ Goto(t, "initInterest")
        /\ UNCHANGED <<registry, interest, raced>>
        /\ scene' = [scene EXCEPT ![k] = None]
    BY <1>9 DEF DisableScene, history
  <2>2. /\ k \in Keys
        /\ call'[t].step = "initInterest" /\ call'[t].key = k /\ call'[t].instance = call[t].instance
    BY <1>7, <2>1, GotoEffect DEF Steps, FeatureSteps
  <2>3. scene'[k] = None /\ \A j \in Keys \ {k} : scene'[j] = scene[j]
    BY <2>1, <2>2 DEF Typed, TypeOK
  <2>4. Progress(t, k) => Progress(t, k)'
    BY <2>1, <2>2, <2>3 DEF Progress, InitSteps, registry
  <2> QED
    BY <1>0, <2>1, <2>2, <2>3, <2>4, FeatureStep DEF FeatureSteps
<1>10. CASE InitInterest(t)
  <2>1. /\ call[t].step = "initInterest" /\ Goto(t, "initScene")
        /\ UNCHANGED <<registry, scene, raced>>
        /\ interest' \in {interest, [interest EXCEPT ![k] = call[t].instance]}
    BY <1>10 DEF InitInterest, history
  <2>2. /\ k \in Keys
        /\ call'[t].step = "initScene" /\ call'[t].key = k /\ call'[t].instance = call[t].instance
    BY <1>7, <2>1, GotoEffect DEF Steps, FeatureSteps
  <2>3. /\ interest'[k] \in {interest[k], call[t].instance}
        /\ \A j \in Keys \ {k} : interest'[j] = interest[j]
    BY <2>1, <2>2 DEF Typed, TypeOK
  <2>4. Progress(t, k) => Progress(t, k)'
    BY <2>1, <2>2, <2>3 DEF Progress, InitSteps, registry
  <2> QED
    BY <1>0, <2>1, <2>2, <2>3, <2>4, FeatureStep DEF FeatureSteps
<1>11. CASE InitScene(t)
  <2>1. /\ call[t].step = "initScene" /\ Return(t)
        /\ UNCHANGED <<registry, interest, raced>>
        /\ scene' \in {scene, [scene EXCEPT ![k] = call[t].instance]}
    BY <1>11 DEF InitScene
  <2>2. k \in Keys /\ call'[t].step = "idle"
    BY <1>7, <2>1, ReturnEffect DEF FeatureSteps
  <2>3. /\ scene'[k] \in {scene[k], call[t].instance}
        /\ \A j \in Keys \ {k} : scene'[j] = scene[j]
    BY <2>1, <2>2 DEF Typed, TypeOK
  <2>4. Progress(t, k) => {interest'[k], scene'[k]} \subseteq {None, objects[k]}
    BY <2>1, <2>3 DEF Progress, InitSteps
  <2> QED
    BY <1>0, <2>1, <2>2, <2>3, <2>4, FeatureStep DEF FeatureSteps
<1>12. CASE DropInterest(t)
  <2>1. /\ call[t].step = "dropInterest" /\ Goto(t, "dropScene")
        /\ UNCHANGED <<registry, scene, raced>>
        /\ interest' = [interest EXCEPT ![k] = None]
    BY <1>12 DEF DropInterest, history
  <2>2. /\ k \in Keys
        /\ call'[t].step = "dropScene" /\ call'[t].key = k /\ call'[t].instance = call[t].instance
    BY <1>7, <2>1, GotoEffect DEF Steps, FeatureSteps
  <2>3. interest'[k] = None /\ \A j \in Keys \ {k} : interest'[j] = interest[j]
    BY <2>1, <2>2 DEF Typed, TypeOK
  <2>4. Progress(t, k) => Progress(t, k)'
    BY <2>1, <2>2, <2>3 DEF Progress, InitSteps, registry
  <2> QED
    BY <1>0, <2>1, <2>2, <2>3, <2>4, FeatureStep DEF FeatureSteps
<1>13. CASE DropScene(t)
  <2>1. /\ call[t].step = "dropScene" /\ Return(t)
        /\ UNCHANGED <<registry, interest, raced>>
        /\ scene' = [scene EXCEPT ![k] = None]
    BY <1>13 DEF DropScene, history
  <2>2. k \in Keys /\ call'[t].step = "idle"
    BY <1>7, <2>1, ReturnEffect DEF FeatureSteps
  <2>3. scene'[k] = None /\ \A j \in Keys \ {k} : scene'[j] = scene[j]
    BY <2>1, <2>2 DEF Typed, TypeOK
  <2>4. Progress(t, k) => {interest'[k], scene'[k]} \subseteq {None, objects[k]}
    BY <2>1, <2>3 DEF Progress
  <2> QED
    BY <1>0, <2>1, <2>2, <2>3, <2>4, FeatureStep DEF FeatureSteps
<1> QED
  BY <1>1, <1>2, <1>3, <1>4, <1>5, <1>6, <1>8, <1>9, <1>10, <1>11, <1>12, <1>13 DEF CallStep

(* Interest and scene registrations are kept by name and changed outside the
   critical section of the table.  As long as no two registrations or
   removals of a name overlap, they belong to the object in the table: a new
   object never inherits its predecessor's, and a removal leaves none. *)
THEOREM FeaturesFollow == Spec => []FeaturesFollowObject
<1> DEFINE Inv == Typed /\ FeaturesInStep
<1>1. Init => Inv
  <2> SUFFICES ASSUME Init PROVE Inv
    OBVIOUS
  <2>1. \A t \in Threads, k \in Keys : ~Busy(t, k)
    BY DEF Init, NoCall, Busy, FeatureSteps
  <2> QED
    BY <2>1, InitTyped DEF Init, FeaturesInStep, InStep
<1>2. Inv /\ [Next]_vars => Inv'
  <2> SUFFICES ASSUME Inv, [Next]_vars PROVE FeaturesInStep'
    BY NextTyped
  <2>1. ASSUME NEW t \in Threads, CallBegin(t) \/ CallStep(t) PROVE FeaturesInStep'
    BY <2>1, CallKeepsFeatures
  <2>2. CASE Begin \/ HookStep \/ Priorities \/ UNCHANGED vars
    BY <2>2, TableKept DEF FeaturesInStep, InStep, Busy, Progress
  <2> QED
    BY <2>1, <2>2, StepKinds
<1>3. Inv => FeaturesFollowObject
  BY DEF FeaturesInStep, FeaturesFollowObject, InStep, Busy
<1> QED
  BY <1>1, <1>2, <1>3, PTL DEF Spec
=============================================================================
