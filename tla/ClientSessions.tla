--------------------------- MODULE ClientSessions ---------------------------
(***************************************************************************)
(* UDP client sessions (network/udp.go): creation on the first datagram,   *)
(* the client limit, authentication, and removal after ClientTimeout.  The *)
(* receive goroutine handles one datagram at a time and keeps a pointer to *)
(* the client across its hook; the tick goroutine removes stale clients    *)
(* and lists the ones to send snapshots to.  Hooks of both run under       *)
(* Runtime.hooksMu; each critical section of server.mu is one action.      *)
(*                                                                         *)
(* An address names a client.  While a datagram is handled no client is    *)
(* created, so a pointer whose address is gone is a detached client.       *)
(***************************************************************************)
EXTENDS Naturals, FiniteSets

CONSTANTS Addresses, Ids,
          AuthenticationRequired,  \* an authentication object is registered
          MaxClients,              \* Config.MaxClients; 0 is no limit
          ClientTimeout,           \* Config.ClientTimeout
          MaxClock                 \* bound on the clock

ASSUME AuthAssumption == AuthenticationRequired \in BOOLEAN
ASSUME MaxClientsAssumption == MaxClients \in Nat
ASSUME TimeoutAssumption == ClientTimeout \in Nat \ {0}
ASSUME MaxClockAssumption == MaxClock \in Nat

VARIABLES
    clock,     \* time.Now()
    waiting,   \* datagrams in the socket buffer, at most one per address (bound)
    clients,   \* server.clients: address -> session
    hooksMu,   \* holder of Runtime.hooksMu: "none", "receive" or "tick"
    request,   \* receive goroutine: the datagram being handled
    phase,     \* tick goroutine
    now,       \* tick goroutine: the time it read after Advance
    listed,    \* tick goroutine: clients that still get a snapshot
    handled    \* history: when a datagram of a connected address was last accepted

vars == <<clock, waiting, clients, hooksMu, request, phase, now, listed,
          handled>>
tickVars == <<phase, now, listed>>

Live == DOMAIN clients
NoId == "none"

(* authenticateClient refuses the empty ID. *)
ASSUME IdsAssumption == NoId \notin Ids

Idle == [stage |-> "idle"]
Session(id, authenticated, heard) ==
    [id |-> id, authenticated |-> authenticated, lastHeardAt |-> heard]
With(f, x, y) == [z \in DOMAIN f \cup {x} |-> IF z = x THEN y ELSE f[z]]

TypeOK ==
    /\ clock \in 0 .. MaxClock /\ now \in 0 .. clock
    /\ \A a \in Live : /\ clients[a].id \in Ids \cup {NoId}
                       /\ clients[a].authenticated = (clients[a].id # NoId)
                       /\ clients[a].lastHeardAt \in 0 .. clock
    /\ hooksMu = "receive" <=> request.stage = "hook"
    /\ hooksMu = "tick" <=> phase = "advance"
    /\ request.stage \in {"idle", "accepted", "hook", "identified"}
    /\ phase \in {"idle", "advance", "stale", "list", "snapshots"}

Init ==
    /\ clock = 0 /\ waiting = {} /\ clients = << >>
    /\ hooksMu = "none" /\ request = Idle
    /\ phase = "idle" /\ now = 0 /\ listed = {}
    /\ handled = [a \in Addresses |-> 0]

-----------------------------------------------------------------------------
AdvanceClock ==
    /\ clock < MaxClock
    /\ clock' = clock + 1
    /\ UNCHANGED <<waiting, clients, hooksMu, request, tickVars, handled>>

(* A datagram reaches the socket. *)
Send(a, kind) ==
    /\ \A w \in waiting : w.address # a
    /\ waiting' = waiting \cup {[address |-> a, kind |-> kind]}
    /\ UNCHANGED <<clock, clients, hooksMu, request, tickVars, handled>>

-----------------------------------------------------------------------------
(* The receive goroutine. *)

(* Mutated: one client more than the limit. *)
MutFullOneMore(a) ==
    a \notin Live /\ MaxClients > 0 /\ Cardinality(Live) > MaxClients

(* A new address is turned away when the client table is full. *)
Full(a) == a \notin Live /\ MaxClients > 0 /\ Cardinality(Live) >= MaxClients

(* Mutated: a known client is not marked as heard. *)
MutTouchedNewOnly(a) == IF a \in Live THEN clients[a] ELSE Session(NoId, FALSE, clock)

(* getOrCreateClientLocked, and lastHeardAt *)
Touched(a) ==
    IF a \in Live THEN [clients[a] EXCEPT !.lastHeardAt = clock]
    ELSE Session(NoId, FALSE, clock)

(* ReadFromUDP and acceptClientRequest.  handleDecodedRequest turns a
   request of an unauthenticated client away before any hook. *)
Accept ==
    /\ request = Idle
    /\ \E w \in waiting :
          /\ waiting' = waiting \ {w}
          /\ IF Full(w.address) THEN UNCHANGED <<clients, request, handled>>
             ELSE LET session == Touched(w.address)
                  IN  /\ clients' = With(clients, w.address, session)
                      /\ handled' = [handled EXCEPT ![w.address] = clock]
                      /\ request' =
                            IF w.kind = "request" /\ AuthenticationRequired
                                  /\ ~session.authenticated
                            THEN Idle
                            ELSE [stage |-> "accepted", address |-> w.address,
                                  kind |-> w.kind]
    /\ UNCHANGED <<clock, hooksMu, tickVars>>

(* HandleRequest or HandleAuthenticationAttempt takes hooksMu and calls the
   object's hook, *)
EnterHook ==
    /\ request.stage = "accepted"
    /\ hooksMu = "none"
    /\ hooksMu' = "receive"
    /\ request' = [request EXCEPT !.stage = "hook"]
    /\ UNCHANGED <<clock, waiting, clients, tickVars, handled>>

(* which returns; for an authentication attempt with an ID or an error (the
   only answer when no authentication object is registered). *)
LeaveHook ==
    /\ request.stage = "hook"
    /\ hooksMu' = "none"
    /\ \/ request' = Idle
       \/ /\ request.kind = "auth" /\ AuthenticationRequired
          /\ \E id \in Ids :
                request' = [stage |-> "identified", address |-> request.address, id |-> id]
    /\ UNCHANGED <<clock, waiting, clients, tickVars, handled>>

(* Mutated: only the client's own session is looked at. *)
MutIdInUseOwn(a, id) == a \in Live /\ clients[a].id = id /\ ~clients[a].authenticated

IdInUse(a, id) ==
    \E b \in Live \ {a} : clients[b].authenticated /\ clients[b].id = id

(* authenticateClient and its answer; a detached client is authenticated to
   no effect. *)
AuthenticateClient ==
    /\ request.stage = "identified"
    /\ clients' = IF request.address \in Live /\ ~IdInUse(request.address, request.id)
                  THEN [clients EXCEPT ![request.address].id = request.id,
                                       ![request.address].authenticated = TRUE]
                  ELSE clients
    /\ request' = Idle
    /\ UNCHANGED <<clock, waiting, hooksMu, tickVars, handled>>

-----------------------------------------------------------------------------
(* The tick goroutine. *)

(* Runtime.Advance runs the OnTick hooks under hooksMu. *)
BeginAdvance ==
    /\ phase = "idle"
    /\ hooksMu = "none"
    /\ hooksMu' = "tick" /\ phase' = "advance"
    /\ UNCHANGED <<clock, waiting, clients, request, now, listed, handled>>

EndAdvance ==
    /\ phase = "advance"
    /\ hooksMu' = "none" /\ phase' = "stale"
    /\ now' = clock
    /\ UNCHANGED <<clock, waiting, clients, request, listed, handled>>

(* Mutated: an authenticated client never goes stale. *)
MutOverdueStrangers(a) ==
    /\ ~clients[a].authenticated
    /\ now >= clients[a].lastHeardAt /\ now - clients[a].lastHeardAt > ClientTimeout

(* now.Sub(lastHeardAt) > timeout; the difference is negative for a client
   heard after now was read. *)
Overdue(a) ==
    now >= clients[a].lastHeardAt /\ now - clients[a].lastHeardAt > ClientTimeout

RemoveStaleClients ==
    /\ phase = "stale"
    /\ clients' = [a \in {b \in Live : ~Overdue(b)} |-> clients[a]]
    /\ phase' = "list"
    /\ handled' = [a \in Addresses |-> IF a \in Live /\ Overdue(a) THEN 0 ELSE handled[a]]
    /\ UNCHANGED <<clock, waiting, hooksMu, request, now, listed>>

(* Mutated: everyone gets a snapshot. *)
MutEligibleAll(a) == TRUE

Eligible(a) == AuthenticationRequired => clients[a].authenticated

(* snapshotClients, or no snapshot in this tick. *)
SnapshotClients ==
    /\ phase = "list"
    /\ \/ /\ listed' = {a \in Live : Eligible(a)}
          /\ phase' = "snapshots"
       \/ phase' = "idle" /\ UNCHANGED listed
    /\ UNCHANGED <<clock, waiting, clients, hooksMu, request, now, handled>>

(* SnapshotForClient waits for hooksMu for every client. *)
SnapshotForClient ==
    /\ phase = "snapshots" /\ listed # {}
    /\ hooksMu = "none"
    /\ \E a \in listed : listed' = listed \ {a}
    /\ UNCHANGED <<clock, waiting, clients, hooksMu, request, phase, now, handled>>

EndTick ==
    /\ phase = "snapshots" /\ listed = {}
    /\ phase' = "idle"
    /\ UNCHANGED <<clock, waiting, clients, hooksMu, request, now, listed, handled>>

Receive == Accept \/ EnterHook \/ LeaveHook \/ AuthenticateClient

Next ==
    \/ AdvanceClock
    \/ \E a \in Addresses, kind \in {"auth", "request"} : Send(a, kind)
    \/ Receive
    \/ BeginAdvance \/ EndAdvance \/ RemoveStaleClients
    \/ SnapshotClients \/ SnapshotForClient \/ EndTick

Spec == Init /\ [][Next]_vars

(* Hooks return, neither goroutine stops, and sync.Mutex is not unfair: the
   tick goroutine gets hooksMu although the receive goroutine may take it
   again and again. *)
Fairness ==
    /\ WF_vars(LeaveHook) /\ WF_vars(AuthenticateClient)
    /\ SF_vars(BeginAdvance) /\ SF_vars(SnapshotForClient)
    /\ WF_vars(EndAdvance) /\ WF_vars(RemoveStaleClients)
    /\ WF_vars(SnapshotClients) /\ WF_vars(EndTick)

FairSpec == Spec /\ Fairness

-----------------------------------------------------------------------------
(* The table never holds more than MaxClients, whatever is created, removed
   and created again between the goroutines. *)
WithinMaxClients == MaxClients > 0 => Cardinality(Live) <= MaxClients

(* No two clients hold the same authenticated ID, however authentication,
   expiry and reconnection interleave. *)
UniqueAuthenticatedIds ==
    \A a, b \in Live :
        clients[a].authenticated /\ clients[a].id = clients[b].id => a = b

(* While a broadcast is under way every client it serves is still connected
   and, where authentication is required, authenticated. *)
SnapshotsToMembers ==
    \A a \in listed :
        a \in Live /\ (AuthenticationRequired => clients[a].authenticated)

(* A client the server accepted a datagram from in the last ClientTimeout is
   not removed, although removeStaleClients decides by a time the tick
   goroutine read earlier and the receive goroutine may accept between. *)
RemovedWasUnheard ==
    [][\A a \in Live \ DOMAIN clients' :
          clock - handled[a] > ClientTimeout]_vars

(* A client that stays silent is removed, so its ID and its place in the
   table become free: removeStaleClients gets its turn whatever the other
   goroutine does with hooksMu. *)
SilentAreRemoved ==
    \A a \in Addresses :
        (a \in Live /\ clock - clients[a].lastHeardAt > ClientTimeout)
            ~> (a \notin Live \/ clock - clients[a].lastHeardAt <= ClientTimeout)
=============================================================================
