------------------------ MODULE ClientSessionsProofs ------------------------
(***************************************************************************)
(* Client sessions, for every set of addresses and IDs, client limit and   *)
(* timeout.                                                                *)
(***************************************************************************)
EXTENDS ClientSessions, FiniteSetTheorems, TLAPS

Datagrams == [address : Addresses, kind : {"auth", "request"}]
Sessions == [id : Ids \cup {NoId}, authenticated : BOOLEAN, lastHeardAt : Nat]
Handling == [stage : {"accepted", "hook"}, address : Addresses, kind : {"auth", "request"}]
Identified == [stage : {"identified"}, address : Addresses, id : Ids]

Typed ==
    /\ TypeOK
    /\ waiting \subseteq Datagrams
    /\ Live \subseteq Addresses /\ clients \in [Live -> Sessions]
    /\ request \in {Idle} \cup Handling \cup Identified
    /\ handled \in [Addresses -> Nat]

(* The record of a client says when it was last heard, and it was heard. *)
HeardIsHandled == \A a \in Live : handled[a] = clients[a].lastHeardAt

(* Only a broadcast has clients left to serve. *)
ListedInBroadcast == phase # "snapshots" => listed = {}

FiniteTable == IsFiniteSet(Live) /\ WithinMaxClients

IInv == /\ Typed /\ HeardIsHandled /\ FiniteTable
        /\ UniqueAuthenticatedIds /\ ListedInBroadcast /\ SnapshotsToMembers

-----------------------------------------------------------------------------
(* What a datagram does to the session it belongs to. *)
LEMMA TouchedTyped ==
    ASSUME Typed, NEW a
    PROVE  /\ Touched(a) \in Sessions /\ Touched(a).lastHeardAt = clock
           /\ a \in Live => /\ Touched(a).id = clients[a].id
                            /\ Touched(a).authenticated = clients[a].authenticated
           /\ a \notin Live => Touched(a).id = NoId /\ Touched(a).authenticated = FALSE
<1>1. clock \in Nat
  BY MaxClockAssumption DEF Typed, TypeOK
<1>2. CASE a \in Live
  <2>1. clients[a] \in Sessions
    BY <1>2 DEF Typed
  <2>2. Touched(a) = [clients[a] EXCEPT !.lastHeardAt = clock]
    BY <1>2 DEF Touched
  <2> QED
    BY <1>1, <1>2, <2>1, <2>2 DEF Sessions
<1>3. CASE a \notin Live
  BY <1>1, <1>3 DEF Touched, Session, Sessions
<1> QED
  BY <1>2, <1>3

(* The cases of Accept. *)
LEMMA AcceptEffect ==
    ASSUME Typed, Accept
    PROVE  /\ UNCHANGED <<clock, hooksMu, tickVars>>
           /\ waiting' \subseteq waiting /\ request = Idle
           /\ \/ UNCHANGED <<clients, request, handled>>
              \/ \E a \in Addresses :
                    /\ ~Full(a)
                    /\ Live' = Live \cup {a} /\ clients' \in [Live' -> Sessions]
                    /\ clients'[a] = Touched(a)
                    /\ \A b \in Live \ {a} : clients'[b] = clients[b]
                    /\ handled' = [handled EXCEPT ![a] = clock]
                    /\ request' \in {Idle} \cup [stage : {"accepted"}, address : {a},
                                                 kind : {"auth", "request"}]
<1>1. PICK w \in waiting :
          /\ waiting' = waiting \ {w}
          /\ IF Full(w.address) THEN UNCHANGED <<clients, request, handled>>
             ELSE LET session == Touched(w.address)
                  IN  /\ clients' = With(clients, w.address, session)
                      /\ handled' = [handled EXCEPT ![w.address] = clock]
                      /\ request' =
                            IF w.kind = "request" /\ AuthenticationRequired
                                  /\ ~session.authenticated
                            THEN Idle
                            ELSE [stage |-> "accepted", address |-> w.address,
                                  kind |-> w.kind]
  BY DEF Accept
<1> DEFINE a == w.address
           c == Touched(a)
<1>2. a \in Addresses /\ w.kind \in {"auth", "request"}
  BY DEF Typed, Datagrams
<1>3. c \in Sessions
  BY TouchedTyped
<1>4. UNCHANGED <<clock, hooksMu, tickVars>> /\ request = Idle
  BY DEF Accept
<1>5. CASE Full(a)
  BY <1>1, <1>4, <1>5
<1>6. CASE ~Full(a)
  <2>1. /\ clients' = With(clients, a, c)
        /\ handled' = [handled EXCEPT ![a] = clock]
        /\ request' \in {Idle, [stage |-> "accepted", address |-> a, kind |-> w.kind]}
    BY <1>1, <1>6
  <2> HIDE DEF c
  <2>2. /\ Live' = Live \cup {a} /\ clients' \in [Live' -> Sessions]
        /\ clients'[a] = c
        /\ \A b \in Live \ {a} : clients'[b] = clients[b]
    BY <1>3, <2>1 DEF With, Live, Typed
  <2>3. waiting' \subseteq waiting
    BY <1>1
  <2>4. request' \in {Idle} \cup [stage : {"accepted"}, address : {a}, kind : {"auth", "request"}]
    BY <1>2, <2>1
  <2>5. clients'[a] = Touched(a)
    BY <2>2 DEF c
  <2> HIDE DEF a
  <2> QED
    BY <1>2, <1>4, <1>6, <2>1, <2>2, <2>3, <2>4, <2>5
<1> QED
  BY <1>5, <1>6

LEMMA AuthenticateEffect ==
    ASSUME Typed, AuthenticateClient
    PROVE  /\ request' = Idle /\ request.stage = "identified"
           /\ UNCHANGED <<clock, waiting, hooksMu, tickVars, handled>>
           /\ \/ clients' = clients
              \/ \E a \in Live, id \in Ids :
                    /\ ~IdInUse(a, id)
                    /\ Live' = Live /\ clients' \in [Live -> Sessions]
                    /\ clients'[a].id = id /\ clients'[a].authenticated = TRUE
                    /\ clients'[a].lastHeardAt = clients[a].lastHeardAt
                    /\ \A b \in Live \ {a} : clients'[b] = clients[b]
<1>1. request \in Identified
  BY DEF AuthenticateClient, Typed, Handling, Idle, Identified
<1>2. CASE request.address \in Live /\ ~IdInUse(request.address, request.id)
  <2> DEFINE a == request.address
             id == request.id
             c == [clients[a] EXCEPT !.id = id, !.authenticated = TRUE]
  <2>1. clients[a] \in Sessions /\ id \in Ids /\ a \in Live
    BY <1>1, <1>2 DEF Typed, Identified
  <2>2. /\ c \in Sessions /\ c.id = id /\ c.authenticated = TRUE
        /\ c.lastHeardAt = clients[a].lastHeardAt
    BY <2>1 DEF Sessions
  <2>3. clients' = [clients EXCEPT ![a] = c]
    BY <1>2 DEF AuthenticateClient, Typed
  <2> HIDE DEF c
  <2>4. /\ DOMAIN clients' = Live /\ clients' \in [Live -> Sessions] /\ clients'[a] = c
        /\ \A b \in Live \ {a} : clients'[b] = clients[b]
    BY <2>1, <2>2, <2>3 DEF Typed
  <2> QED
    BY <1>2, <2>1, <2>2, <2>4 DEF AuthenticateClient, Live
<1>3. CASE ~(request.address \in Live /\ ~IdInUse(request.address, request.id))
  BY <1>3 DEF AuthenticateClient
<1> QED
  BY <1>2, <1>3

(* removeStaleClients keeps the sessions of the others. *)
LEMMA RemoveEffect ==
    ASSUME Typed, RemoveStaleClients
    PROVE  /\ phase = "stale" /\ phase' = "list"
           /\ Live' = {b \in Live : ~Overdue(b)}
           /\ clients' \in [Live' -> Sessions]
           /\ \A a \in Live' : clients'[a] = clients[a] /\ handled'[a] = handled[a]
           /\ handled' \in [Addresses -> Nat]
           /\ UNCHANGED <<clock, waiting, hooksMu, request, now, listed>>
<1>1. Live' = {b \in Live : ~Overdue(b)} /\ \A a \in Live' : clients'[a] = clients[a]
  BY DEF RemoveStaleClients, Live
<1>2. clients' \in [Live' -> Sessions]
  BY <1>1 DEF RemoveStaleClients, Typed
<1> QED
  BY <1>1, <1>2 DEF RemoveStaleClients, Typed

LEMMA InitTyped == Init => Typed
<1> SUFFICES ASSUME Init PROVE Typed
  OBVIOUS
<1>1. Live = {} /\ clients \in [Live -> Sessions]
  BY DEF Init, Live
<1>2. TypeOK
  BY <1>1, MaxClockAssumption DEF Init, TypeOK, Idle
<1> QED
  BY <1>1, <1>2 DEF Init, Typed, Idle

LEMMA SessionTypes ==
    ASSUME Typed, NEW a \in Live
    PROVE  /\ a \in Addresses /\ clients[a] \in Sessions
           /\ clients[a].authenticated = (clients[a].id # NoId)
           /\ clients[a].lastHeardAt \in Nat /\ clients[a].lastHeardAt <= clock
           /\ clock \in Nat /\ now \in Nat /\ now <= clock
  BY MaxClockAssumption DEF Typed, TypeOK, Sessions

(* Steps of the receive goroutine that change the table. *)
LEMMA AcceptTyped ==
    ASSUME Typed, Accept
    PROVE  Typed'
<1>1. CASE UNCHANGED <<clients, request, handled>>
  BY <1>1, AcceptEffect DEF Typed, TypeOK, Live, tickVars
<1>2. ASSUME NEW a \in Addresses,
             Live' = Live \cup {a}, clients' \in [Live' -> Sessions],
             clients'[a] = Touched(a),
             \A b \in Live \ {a} : clients'[b] = clients[b],
             handled' = [handled EXCEPT ![a] = clock],
             request' \in {Idle} \cup [stage : {"accepted"}, address : {a}, kind : {"auth", "request"}]
      PROVE  Typed'
  <2>1. clock \in Nat /\ clock \in 0 .. clock
    BY MaxClockAssumption DEF Typed, TypeOK
  <2>2. /\ Touched(a).id \in Ids \cup {NoId}
        /\ Touched(a).authenticated = (Touched(a).id # NoId)
        /\ Touched(a).lastHeardAt \in 0 .. clock
    BY <2>1, TouchedTyped, SessionTypes DEF Sessions
  <2>3. \A b \in Live' : /\ clients'[b].id \in Ids \cup {NoId}
                         /\ clients'[b].authenticated = (clients'[b].id # NoId)
                         /\ clients'[b].lastHeardAt \in 0 .. clock
    BY <1>2, <2>2 DEF Typed, TypeOK
  <2>4. handled' \in [Addresses -> Nat]
    BY <1>2, <2>1 DEF Typed
  <2>5. /\ request' \in {Idle} \cup Handling \cup Identified
        /\ request'.stage \in {"idle", "accepted"} /\ request.stage = "idle"
    BY <1>2, AcceptEffect DEF Idle, Handling
  <2>6. UNCHANGED <<clock, hooksMu, phase, now>> /\ waiting' \subseteq waiting
    BY AcceptEffect DEF tickVars
  <2>7. TypeOK'
    BY <2>3, <2>5, <2>6 DEF Typed, TypeOK
  <2> QED
    BY <1>2, <2>4, <2>5, <2>6, <2>7 DEF Typed
<1> QED
  BY <1>1, <1>2, AcceptEffect

LEMMA AuthenticateTyped ==
    ASSUME Typed, AuthenticateClient
    PROVE  Typed'
<1>1. /\ UNCHANGED <<clock, waiting, hooksMu, phase, now, handled>>
      /\ request' = Idle /\ request'.stage = "idle" /\ request.stage = "identified"
  BY AuthenticateEffect DEF tickVars, Idle
<1>2. /\ Live' = Live /\ clients' \in [Live' -> Sessions]
      /\ \A b \in Live : /\ clients'[b].id \in Ids \cup {NoId}
                         /\ clients'[b].authenticated = (clients'[b].id # NoId)
                         /\ clients'[b].lastHeardAt = clients[b].lastHeardAt
  <2>1. CASE clients' = clients
    BY <2>1 DEF Typed, TypeOK, Live
  <2>2. ASSUME NEW a \in Live, NEW id \in Ids,
               Live' = Live, clients' \in [Live -> Sessions],
               clients'[a].id = id, clients'[a].authenticated = TRUE,
               clients'[a].lastHeardAt = clients[a].lastHeardAt,
               \A b \in Live \ {a} : clients'[b] = clients[b]
        PROVE  /\ Live' = Live /\ clients' \in [Live' -> Sessions]
               /\ \A b \in Live : /\ clients'[b].id \in Ids \cup {NoId}
                                  /\ clients'[b].authenticated = (clients'[b].id # NoId)
                                  /\ clients'[b].lastHeardAt = clients[b].lastHeardAt
    <3>1. clients'[a].authenticated = (clients'[a].id # NoId)
      BY <2>2, IdsAssumption
    <3>2. \A b \in Live : clients'[b].authenticated = (clients'[b].id # NoId)
      BY <2>2, <3>1 DEF Typed, TypeOK
    <3>3. \A b \in Live : /\ clients'[b].id \in Ids \cup {NoId}
                          /\ clients'[b].lastHeardAt = clients[b].lastHeardAt
      BY <2>2 DEF Typed, TypeOK
    <3> QED
      BY <2>2, <3>2, <3>3
  <2> QED
    BY <2>1, <2>2, AuthenticateEffect
<1>3. TypeOK'
  BY <1>1, <1>2 DEF Typed, TypeOK
<1> QED
  BY <1>1, <1>2, <1>3 DEF Typed

LEMMA NextTyped ==
    ASSUME Typed, [Next]_vars
    PROVE  Typed'
<1>1. CASE AdvanceClock
  <2>1. clock' = clock + 1 /\ clock' \in 0 .. MaxClock /\ 0 .. clock \subseteq 0 .. clock'
    BY <1>1, MaxClockAssumption DEF AdvanceClock, Typed, TypeOK
  <2> QED
    BY <1>1, <2>1 DEF AdvanceClock, tickVars, Typed, TypeOK, Live
<1>2. ASSUME NEW a \in Addresses, NEW kind \in {"auth", "request"}, Send(a, kind) PROVE Typed'
  BY <1>2 DEF Send, tickVars, Typed, TypeOK, Live, Datagrams
<1>3. CASE Accept
  BY <1>3, AcceptTyped
<1>4. CASE EnterHook
  <2>1. request \in Handling
    BY <1>4 DEF EnterHook, Typed, Idle, Identified
  <2>2. request' \in Handling /\ request'.stage = "hook"
    BY <1>4, <2>1 DEF EnterHook, Handling
  <2> QED
    BY <1>4, <2>2 DEF EnterHook, tickVars, Typed, TypeOK, Live
<1>5. CASE LeaveHook
  <2>1. request \in Handling
    BY <1>5 DEF LeaveHook, Typed, Idle, Identified
  <2>2. request' \in {Idle} \cup Identified /\ request'.stage \in {"idle", "identified"}
    BY <1>5, <2>1 DEF LeaveHook, Handling, Identified, Idle
  <2> QED
    BY <1>5, <2>2 DEF LeaveHook, tickVars, Typed, TypeOK, Live
<1>6. CASE AuthenticateClient
  BY <1>6, AuthenticateTyped
<1>7. CASE BeginAdvance
  BY <1>7 DEF BeginAdvance, Typed, TypeOK, Live
<1>8. CASE EndAdvance
  <2>1. now' \in 0 .. clock
    BY <1>8, MaxClockAssumption DEF EndAdvance, Typed, TypeOK
  <2> QED
    BY <1>8, <2>1 DEF EndAdvance, Typed, TypeOK, Live
<1>9. CASE RemoveStaleClients
  <2>1. Live' \subseteq Live /\ \A a \in Live' : clients'[a] = clients[a]
    BY <1>9, RemoveEffect
  <2>2. TypeOK'
    BY <1>9, <2>1, RemoveEffect DEF Typed, TypeOK
  <2> QED
    BY <1>9, <2>1, <2>2, RemoveEffect DEF Typed
<1>10. CASE SnapshotClients \/ SnapshotForClient \/ EndTick
  BY <1>10 DEF SnapshotClients, SnapshotForClient, EndTick, Typed, TypeOK, Live
<1>11. CASE UNCHANGED vars
  BY <1>11 DEF vars, Typed, TypeOK, Live
<1> QED
  BY <1>1, <1>2, <1>3, <1>4, <1>5, <1>6, <1>7, <1>8, <1>9, <1>10, <1>11 DEF Next, Receive

(* The session table, its limit and its times are kept and typed. *)
THEOREM TypesCorrect == Spec => []TypeOK
<1>1. Typed => TypeOK
  BY DEF Typed
<1> QED
  BY <1>1, InitTyped, NextTyped, PTL DEF Spec

-----------------------------------------------------------------------------
(* Only three operations change the table. *)
LEMMA TableChanges ==
    ASSUME [Next]_vars
    PROVE  \/ Accept \/ AuthenticateClient \/ RemoveStaleClients
           \/ UNCHANGED <<clients, handled>>
  BY DEF Next, Receive, AdvanceClock, Send, EnterHook, LeaveHook, BeginAdvance, EndAdvance,
         SnapshotClients, SnapshotForClient, EndTick, vars

LEMMA NextHeard ==
    ASSUME Typed, HeardIsHandled, [Next]_vars
    PROVE  HeardIsHandled'
<1>1. CASE UNCHANGED <<clients, handled>>
  BY <1>1 DEF HeardIsHandled, Live
<1>2. CASE Accept
  <2>1. ASSUME NEW a \in Addresses,
               Live' = Live \cup {a}, clients'[a] = Touched(a),
               \A b \in Live \ {a} : clients'[b] = clients[b],
               handled' = [handled EXCEPT ![a] = clock]
        PROVE  HeardIsHandled'
    <3>1. clients'[a].lastHeardAt = clock /\ handled'[a] = clock
      BY <2>1, TouchedTyped DEF Typed
    <3>2. \A b \in Live \ {a} : handled'[b] = handled[b]
      BY <2>1 DEF Typed
    <3> QED
      BY <2>1, <3>1, <3>2 DEF HeardIsHandled
  <2> QED
    BY <1>1, <1>2, <2>1, AcceptEffect
<1>3. CASE AuthenticateClient
  <2>1. Live' = Live /\ handled' = handled /\ \A b \in Live : clients'[b].lastHeardAt = clients[b].lastHeardAt
    BY <1>3, AuthenticateEffect DEF Live
  <2> QED
    BY <2>1 DEF HeardIsHandled
<1>4. CASE RemoveStaleClients
  BY <1>4, RemoveEffect DEF HeardIsHandled
<1> QED
  BY <1>1, <1>2, <1>3, <1>4, TableChanges

LEMMA NextWithinMax ==
    ASSUME Typed, FiniteTable, [Next]_vars
    PROVE  FiniteTable'
<1>0. IsFiniteSet(Live) /\ Cardinality(Live) \in Nat
  BY FS_CardinalityType DEF FiniteTable
<1>1. CASE Live' = Live
  BY <1>1 DEF FiniteTable, WithinMaxClients
<1>2. CASE UNCHANGED <<clients, handled>> \/ AuthenticateClient
  BY <1>1, <1>2, AuthenticateEffect DEF Live
<1>3. CASE Accept
  <2>1. ASSUME NEW a \in Addresses, ~Full(a), Live' = Live \cup {a}
        PROVE  FiniteTable'
    <3>1. /\ IsFiniteSet(Live \cup {a})
          /\ Cardinality(Live \cup {a}) = IF a \in Live THEN Cardinality(Live) ELSE Cardinality(Live) + 1
      BY <1>0, FS_AddElement
    <3> QED
      BY <1>0, <2>1, <3>1, MaxClientsAssumption DEF FiniteTable, WithinMaxClients, Full
  <2> QED
    BY <1>2, <1>3, <2>1, AcceptEffect
<1>4. CASE RemoveStaleClients
  <2>1. Live' \subseteq Live
    BY <1>4, RemoveEffect
  <2>2. IsFiniteSet(Live') /\ Cardinality(Live') <= Cardinality(Live)
    BY <1>0, <2>1, FS_Subset
  <2>3. Cardinality(Live') \in Nat
    BY <2>2, FS_CardinalityType
  <2> QED
    BY <1>0, <2>2, <2>3, MaxClientsAssumption DEF FiniteTable, WithinMaxClients
<1> QED
  BY <1>2, <1>3, <1>4, TableChanges

LEMMA NextUnique ==
    ASSUME Typed, UniqueAuthenticatedIds, [Next]_vars
    PROVE  UniqueAuthenticatedIds'
<1>0. \A a \in Live : clients[a].authenticated = (clients[a].id # NoId)
  BY DEF Typed, TypeOK
<1>1. CASE UNCHANGED clients
  BY <1>1 DEF UniqueAuthenticatedIds, Live
<1>2. CASE Accept
  <2>1. ASSUME NEW a \in Addresses,
               Live' = Live \cup {a}, clients'[a] = Touched(a),
               \A b \in Live \ {a} : clients'[b] = clients[b]
        PROVE  UniqueAuthenticatedIds'
    <3>1. CASE a \in Live
      <4>1. \A b \in Live : /\ clients'[b].id = clients[b].id
                            /\ clients'[b].authenticated = clients[b].authenticated
        BY <2>1, <3>1, TouchedTyped
      <4> QED
        BY <2>1, <3>1, <4>1 DEF UniqueAuthenticatedIds
    <3>2. CASE a \notin Live
      <4>1. clients'[a].id = NoId /\ ~clients'[a].authenticated
        BY <2>1, <3>2, TouchedTyped
      <4>2. \A b \in Live : clients'[b] = clients[b]
        BY <2>1, <3>2
      <4>3. \A b, c \in Live : clients'[b].authenticated /\ clients'[b].id = clients'[c].id => b = c
        BY <4>2 DEF UniqueAuthenticatedIds
      <4>4. \A b \in Live : clients'[b].authenticated => clients'[b].id # NoId
        BY <1>0, <4>2
      <4> QED
        BY <2>1, <4>1, <4>3, <4>4 DEF UniqueAuthenticatedIds
    <3> QED
      BY <3>1, <3>2
  <2> QED
    BY <1>1, <1>2, <2>1, AcceptEffect
<1>3. CASE AuthenticateClient
  <2>1. ASSUME NEW a \in Live, NEW id \in Ids, ~IdInUse(a, id),
               Live' = Live, clients'[a].id = id,
               \A b \in Live \ {a} : clients'[b] = clients[b]
        PROVE  UniqueAuthenticatedIds'
    <3>1. id # NoId
      BY IdsAssumption
    <3>2. \A b \in Live \ {a} : clients[b].id # id
      BY <1>0, <2>1, <3>1 DEF IdInUse
    <3> QED
      BY <1>0, <2>1, <3>2 DEF UniqueAuthenticatedIds
  <2> QED
    BY <1>1, <1>3, <2>1, AuthenticateEffect
<1>4. CASE RemoveStaleClients
  BY <1>4, RemoveEffect DEF UniqueAuthenticatedIds
<1> QED
  BY <1>1, <1>2, <1>3, <1>4, TableChanges

LEMMA NextListed ==
    ASSUME Typed, ListedInBroadcast, SnapshotsToMembers, [Next]_vars
    PROVE  ListedInBroadcast' /\ SnapshotsToMembers'
<1>1. CASE UNCHANGED <<clients, listed, phase>>
  BY <1>1 DEF ListedInBroadcast, SnapshotsToMembers, Live
<1>2. CASE AdvanceClock \/ EnterHook \/ LeaveHook \/ UNCHANGED vars
           \/ (\E a \in Addresses, kind \in {"auth", "request"} : Send(a, kind))
  BY <1>1, <1>2 DEF AdvanceClock, EnterHook, LeaveHook, Send, vars, tickVars
<1>3. CASE Accept
  <2>1. UNCHANGED <<listed, phase>>
    BY <1>3, AcceptEffect DEF tickVars
  <2>2. Live \subseteq Live' /\ \A b \in Live : clients'[b].authenticated = clients[b].authenticated
    <3>1. CASE clients' = clients
      BY <3>1 DEF Live
    <3>2. ASSUME NEW a \in Addresses,
                 Live' = Live \cup {a}, clients'[a] = Touched(a),
                 \A b \in Live \ {a} : clients'[b] = clients[b]
          PROVE  /\ Live \subseteq Live'
                 /\ \A b \in Live : clients'[b].authenticated = clients[b].authenticated
      <4>1. a \in Live => clients'[a].authenticated = clients[a].authenticated
        BY <3>2, TouchedTyped
      <4> QED
        BY <3>2, <4>1
    <3> QED
      BY <1>3, <3>1, <3>2, AcceptEffect
  <2> QED
    BY <2>1, <2>2 DEF ListedInBroadcast, SnapshotsToMembers
<1>4. CASE AuthenticateClient
  <2>1. UNCHANGED <<listed, phase>>
    BY <1>4, AuthenticateEffect DEF tickVars
  <2>2. Live' = Live /\ \A b \in Live : clients[b].authenticated => clients'[b].authenticated
    BY <1>4, AuthenticateEffect DEF Live
  <2> QED
    BY <2>1, <2>2 DEF ListedInBroadcast, SnapshotsToMembers
<1>5. CASE BeginAdvance \/ EndAdvance
  BY <1>5 DEF BeginAdvance, EndAdvance, ListedInBroadcast, SnapshotsToMembers
<1>6. CASE RemoveStaleClients
  <2>1. listed = {} /\ listed' = {}
    BY <1>6, RemoveEffect DEF ListedInBroadcast
  <2> QED
    BY <2>1 DEF ListedInBroadcast, SnapshotsToMembers
<1>7. CASE SnapshotClients
  BY <1>7 DEF SnapshotClients, Eligible, ListedInBroadcast, SnapshotsToMembers, Live
<1>8. CASE SnapshotForClient \/ EndTick
  BY <1>8 DEF SnapshotForClient, EndTick, ListedInBroadcast, SnapshotsToMembers, Live
<1> QED
  BY <1>2, <1>3, <1>4, <1>5, <1>6, <1>7, <1>8 DEF Next, Receive

-----------------------------------------------------------------------------
LEMMA InitIInv == Init => IInv
<1> SUFFICES ASSUME Init PROVE IInv
  OBVIOUS
<1>1. Live = {} /\ listed = {}
  BY DEF Init, Live
<1>2. IsFiniteSet(Live) /\ Cardinality(Live) = 0
  BY <1>1, FS_EmptySet
<1> QED
  BY <1>1, <1>2, InitTyped, MaxClientsAssumption
     DEF IInv, HeardIsHandled, FiniteTable, WithinMaxClients, UniqueAuthenticatedIds,
         ListedInBroadcast, SnapshotsToMembers

LEMMA NextIInv == IInv /\ [Next]_vars => IInv'
  BY NextTyped, NextHeard, NextWithinMax, NextUnique, NextListed DEF IInv

(* MaxClients holds for any number of addresses: acceptClientRequest counts
   and inserts in one critical section, and nothing else adds a client. *)
THEOREM ClientLimit == Spec => []WithinMaxClients
<1>1. IInv => WithinMaxClients
  BY DEF IInv, FiniteTable
<1> QED
  BY <1>1, InitIInv, NextIInv, PTL DEF Spec

(* An authenticated ID is held by one client at most, although the hook that
   returned the ID ran before authenticateClient looked at the table. *)
THEOREM IdsUnique == Spec => []UniqueAuthenticatedIds
<1>1. IInv => UniqueAuthenticatedIds
  BY DEF IInv
<1> QED
  BY <1>1, InitIInv, NextIInv, PTL DEF Spec

(* A broadcast serves connected and authenticated clients to its end: the
   list is stale as soon as it is made, but only its own goroutine removes
   clients. *)
THEOREM BroadcastToMembers == Spec => []SnapshotsToMembers
<1>1. IInv => SnapshotsToMembers
  BY DEF IInv
<1> QED
  BY <1>1, InitIInv, NextIInv, PTL DEF Spec

(* No step removes a client a datagram was accepted from in the last
   ClientTimeout, whenever the tick goroutine read its clock. *)
THEOREM RemovalIsDue == Spec => RemovedWasUnheard
<1>1. ASSUME IInv, [Next]_vars
      PROVE  [\A a \in Live \ DOMAIN clients' : clock - handled[a] > ClientTimeout]_vars
  <2>0. Typed /\ HeardIsHandled
    BY <1>1 DEF IInv
  <2>1. CASE Live \subseteq Live'
    BY <2>1 DEF Live
  <2>2. CASE RemoveStaleClients
    <3> SUFFICES ASSUME NEW a \in Live, a \notin Live'
                 PROVE  clock - handled[a] > ClientTimeout
      BY DEF Live
    <3>1. Overdue(a)
      BY <2>0, <2>2, RemoveEffect
    <3>2. /\ handled[a] = clients[a].lastHeardAt /\ clients[a].lastHeardAt \in Nat
          /\ clock \in Nat /\ now \in Nat /\ now <= clock
      BY <2>0, SessionTypes DEF HeardIsHandled
    <3> QED
      BY <3>1, <3>2, TimeoutAssumption DEF Overdue
  <2>3. CASE Accept
    BY <2>0, <2>1, <2>3, AcceptEffect DEF Live
  <2>4. CASE AuthenticateClient \/ UNCHANGED <<clients, handled>>
    BY <2>0, <2>1, <2>4, AuthenticateEffect DEF Live
  <2> QED
    BY <1>1, <2>2, <2>3, <2>4, TableChanges
<1> QED
  BY <1>1, InitIInv, NextIInv, PTL DEF Spec, RemovedWasUnheard
=============================================================================
