---------------------------- MODULE SessionTable ----------------------------
(***************************************************************************)
(* The server's session table (server.cpp): sessions_, connections_, the   *)
(* salt tombstones and the authentication throttle, shared by              *)
(*   - the UDP receive path, serialised on the socket's strand, which      *)
(*     takes the table lock once before and once after it authenticates;   *)
(*   - one strand per session, where its upstream connection is made and   *)
(*     torn down;                                                          *)
(*   - the periodic sweep, and stop().                                     *)
(* A session is a number in order of creation; the target socket a session *)
(* opens carries the session's number.                                     *)
(***************************************************************************)
EXTENDS SaltTombstones

CONSTANTS
    Endpoint,          \* UDP source endpoints (the table's keys)
    AddrOf,            \* AddrOf[ep]: the IP address of an endpoint
    None,              \* absence of a session, socket or pending datagram
    MaxSessions,       \* MAX_CONCURRENT_SESSIONS
    MaxAttempts,       \* MAX_AUTH_ATTEMPTS_PER_SEC
    MaxFailures,       \* MAX_AUTH_FAILURES_PER_ADDR_PER_SEC
    MaxTracked         \* MAX_TRACKED_AUTH_ADDRS

ASSUME ConstantsAssumption ==
    /\ None \notin Nat
    /\ MaxSessions \in Nat \ {0}
    /\ MaxAttempts \in Nat /\ MaxFailures \in Nat /\ MaxTracked \in Nat

Session == 1 .. MaxCreated
Addr == {AddrOf[ep] : ep \in Endpoint}

VARIABLES
    sessions,       \* sessions_: endpoint -> session or None
    connections,    \* connections_: endpoint -> the session whose socket it holds, or None
    sess,           \* the KCPSession objects created so far (a sequence)
    auth,           \* the throttle: window start, attempts, failures per address
    pending,        \* the datagram that authenticated and waits for the second lock
    stopped,        \* stopped_
    drained         \* stop() has swapped the maps out

vars == <<sessions, connections, sess, tombstoneVars, auth, pending, stopped, drained>>

(***************************************************************************)
(* Progress of a session on its strand: waiting for the SOCKS5 request,    *)
(* connecting to the target, connected but not yet published (the initial  *)
(* payload is being written), forwarding, over.                            *)
(***************************************************************************)
Phase == {"request", "connecting", "connected", "forwarding", "over"}

SessionObject ==
    [ep : Endpoint, salt : Salt,
     running : BOOLEAN,      \* RUNNING
     idle : BOOLEAN,         \* no authenticated datagram for KCP_TIMEOUT_SEC
     stopQueued : BOOLEAN,   \* stop() is queued on the strand
     phase : Phase,
     socket : {"none", "open", "closing", "closed"}]

Alive(s) == sess[s].running /\ ~sess[s].idle
Registered == {sessions[ep] : ep \in Endpoint} \ {None}

-----------------------------------------------------------------------------
(* Removing sessions from the table. *)

(* The session leaves the table but nobody stops it. *)
RetireSilently(objects, gone) ==
    [s \in DOMAIN objects |->
        IF s \notin gone THEN objects[s]
        ELSE [objects[s] EXCEPT
                !.socket = IF connections[objects[s].ep] = s /\ @ = "open" THEN "closing" ELSE @]]

(* The session is stopped, its published target socket left alone. *)
RetireKeepsTarget(objects, gone) ==
    [s \in DOMAIN objects |->
        IF s \in gone THEN [objects[s] EXCEPT !.stopQueued = TRUE] ELSE objects[s]]

(* stop() is dispatched to the session's strand; the target socket found in   *)
(* connections_ is closed there too.                                          *)
Retire(objects, gone) ==
    [s \in DOMAIN objects |->
        IF s \notin gone THEN objects[s]
        ELSE [objects[s] EXCEPT
                !.stopQueued = TRUE,
                !.socket = IF connections[objects[s].ep] = s /\ @ = "open" THEN "closing" ELSE @]]

Without(map, gone) ==
    [ep \in Endpoint |-> IF sessions[ep] \in gone THEN None ELSE map[ep]]

(* Both maps lose the sessions in gone, and objects becomes the new sess. *)
Unregister(gone, objects) ==
    /\ sessions' = Without(sessions, gone)
    /\ connections' = Without(connections, gone)
    /\ sess' = Retire(objects, gone)

-----------------------------------------------------------------------------
(* The authentication throttle. *)

(* The window restarts, failures forgotten, one second after it began. *)
RolledWindow ==
    IF now - auth.start >= 1
    THEN [start |-> now, attempts |-> 0, failures |-> [a \in Addr |-> 0]]
    ELSE auth

(* Off by one at the limit of a window. *)
ThrottleAdmitsOneMore(a) ==
    /\ RolledWindow.failures[a] < MaxFailures
    /\ RolledWindow.attempts <= MaxAttempts

ThrottleAdmits(a) ==
    /\ RolledWindow.failures[a] < MaxFailures
    /\ RolledWindow.attempts < MaxAttempts

(* A failure is counted against its address while the table has room. *)
CountFailure(window, a) ==
    IF window.failures[a] > 0 \/ Cardinality({b \in Addr : window.failures[b] > 0}) < MaxTracked
    THEN [window EXCEPT !.failures[a] = @ + 1]
    ELSE window

Attempted(a, genuine) ==
    LET counted == [RolledWindow EXCEPT !.attempts = @ + 1]
    IN  IF genuine THEN counted ELSE CountFailure(counted, a)

-----------------------------------------------------------------------------
(* The UDP receive path: route_datagram and get_or_create_session. *)

Incumbent(ep) == sessions[ep]
LiveIncumbent(ep) == Incumbent(ep) # None /\ Alive(Incumbent(ep))

(* The datagram carries the salt of the live session at its endpoint: it is   *)
(* handed to that session's strand and changes nothing here.                  *)
RouteToSession(ep, salt) ==
    /\ pending = None
    /\ LiveIncumbent(ep)
    /\ sess[Incumbent(ep)].salt = salt
    /\ UNCHANGED vars

(* First lock, throttle and decrypt.  A dead incumbent is reclaimed here; a   *)
(* live one speaking another salt is left alone until the datagram            *)
(* authenticates, and does not count against the cap.                         *)
Authenticate(ep, salt, genuine) ==
    LET gone == IF LiveIncumbent(ep) THEN {} ELSE {Incumbent(ep)} \ {None}
        full == Cardinality(Registered \ {Incumbent(ep)}) >= MaxSessions
        admitted == ~full /\ ThrottleAdmits(AddrOf[ep])
    IN  /\ pending = None
        /\ Len(sess) < MaxCreated
        /\ ~(LiveIncumbent(ep) /\ sess[Incumbent(ep)].salt = salt)
        /\ Unregister(gone, sess)
        /\ auth' = IF full THEN auth
                   ELSE IF admitted THEN Attempted(AddrOf[ep], genuine) ELSE RolledWindow
        /\ pending' = IF admitted /\ genuine THEN [ep |-> ep, salt |-> salt] ELSE None
        /\ UNCHANGED <<tombstoneVars, stopped, drained>>

(* Second lock. *)

(* The server stopped meanwhile, or something threw before the second lock:   *)
(* the datagram is dropped and the process goes on.                           *)
AbandonDatagram ==
    /\ pending # None
    /\ pending' = None
    /\ UNCHANGED <<sessions, connections, sess, tombstoneVars, auth, stopped, drained>>

(* Whom an authenticated datagram replaces: the incumbent, unless that one is  *)
(* live and the datagram's salt was accepted within the TTL.  (The receive     *)
(* path is serialised, so no session with the datagram's own salt can have     *)
(* been inserted since the first lock.)                                        *)
Replaced ==
    IF LiveIncumbent(pending.ep) /\ Tombstoned(pending.salt) THEN {}
    ELSE {Incumbent(pending.ep)} \ {None}

DuplicateSalt ==
    \E s \in Registered \ Replaced :
        sess[s].ep # pending.ep /\ sess[s].salt = pending.salt /\ Alive(s)

(* Only the tombstones are consulted, not the live sessions. *)
RefusedByTombstone ==
    \/ Cardinality(Registered \ Replaced) >= MaxSessions
    \/ Tombstoned(pending.salt)

(* A salt accepted before is not remembered. *)
RefusedIgnoringTombstones ==
    Cardinality(Registered \ Replaced) >= MaxSessions \/ DuplicateSalt

Refused ==
    \/ Cardinality(Registered \ Replaced) >= MaxSessions
    \/ DuplicateSalt
    \/ Tombstoned(pending.salt)

(* Session cap, duplicate salt or replayed salt; an incumbent to be replaced   *)
(* is gone all the same.                                                       *)
RefuseSession ==
    /\ pending # None
    /\ ~stopped
    /\ Refused
    /\ Unregister(Replaced, sess)
    /\ pending' = None
    /\ UNCHANGED <<tombstoneVars, auth, stopped, drained>>

NewSession(ep, salt) ==
    [ep |-> ep, salt |-> salt, running |-> TRUE, idle |-> FALSE,
     stopQueued |-> FALSE, phase |-> "request", socket |-> "none"]

(* The stopped flag is not looked at under the lock. *)
CreateSessionWhenStopped ==
    LET s == Len(sess) + 1 IN
    /\ pending # None
    /\ ~Refused
    /\ sessions' = [Without(sessions, Replaced) EXCEPT ![pending.ep] = s]
    /\ connections' = Without(connections, Replaced)
    /\ sess' = Append(Retire(sess, Replaced), NewSession(pending.ep, pending.salt))
    /\ RememberSalt(pending.salt)
    /\ accepted' = Append(accepted, [salt |-> pending.salt, at |-> now])
    /\ pending' = None
    /\ UNCHANGED <<now, auth, stopped, drained>>

(* The session is created, remembered, inserted, and its first datagram is     *)
(* injected on its strand.                                                     *)
CreateSession ==
    LET s == Len(sess) + 1 IN
    /\ pending # None
    /\ ~stopped
    /\ ~Refused
    /\ sessions' = [Without(sessions, Replaced) EXCEPT ![pending.ep] = s]
    /\ connections' = Without(connections, Replaced)
    /\ sess' = Append(Retire(sess, Replaced), NewSession(pending.ep, pending.salt))
    /\ RememberSalt(pending.salt)
    /\ accepted' = Append(accepted, [salt |-> pending.salt, at |-> now])
    /\ pending' = None
    /\ UNCHANGED <<now, auth, stopped, drained>>

-----------------------------------------------------------------------------
(* Handlers on a session's strand.  They run whether or not the session is    *)
(* still in the table.                                                        *)

onlySession == <<tombstoneVars, auth, pending, stopped, drained>>

(* A genuine datagram routed just before the idle timeout reaches on_receive  *)
(* just after it and restarts the idle clock.                                 *)
Revive(s) ==
    /\ sess[s].running /\ sess[s].idle
    /\ sess' = [sess EXCEPT ![s].idle = FALSE]
    /\ UNCHANGED <<sessions, connections, onlySession>>

(* The queued body of KCPSession::stop. *)
StopRuns(s) ==
    /\ sess[s].stopQueued
    /\ sess' = [sess EXCEPT ![s].stopQueued = FALSE, ![s].running = FALSE]
    /\ UNCHANGED <<sessions, connections, onlySession>>

(* The queued close of the target socket. *)
CloseRuns(s) ==
    /\ sess[s].socket = "closing"
    /\ sess' = [sess EXCEPT ![s].socket = "closed"]
    /\ UNCHANGED <<sessions, connections, onlySession>>

(* shut_down after a refused encryption: the session stops but stays in the   *)
(* table until it is swept, replaced or closed.                               *)
ShutDown(s) ==
    /\ sess[s].running /\ ~sess[s].stopQueued
    /\ sess' = [sess EXCEPT ![s].stopQueued = TRUE]
    /\ UNCHANGED <<sessions, connections, onlySession>>

(* KCP_TIMEOUT_SEC pass without an authenticated datagram. *)
GoIdle(s) ==
    /\ Alive(s)
    /\ sess' = [sess EXCEPT ![s].idle = TRUE]
    /\ UNCHANGED <<sessions, connections, onlySession>>

(* A complete SOCKS5 CONNECT request: the target connection is attempted. *)
RequestArrives(s) ==
    /\ sess[s].running
    /\ sess[s].phase = "request"
    /\ sess' = [sess EXCEPT ![s].phase = "connecting", ![s].socket = "open"]
    /\ UNCHANGED <<sessions, connections, onlySession>>

(* async_connect succeeded before the connect deadline. *)
ConnectCompletes(s) ==
    /\ sess[s].phase = "connecting"
    /\ sess' = [sess EXCEPT ![s].phase = "connected"]
    /\ UNCHANGED <<sessions, connections, onlySession>>

(* No identity check: the old session's socket is published under the key.    *)
StartForwardingUnchecked(s) ==
    /\ sess[s].phase = "connected"
    /\ connections' = [connections EXCEPT ![sess[s].ep] = s]
    /\ sess' = [sess EXCEPT ![s].phase = "forwarding"]
    /\ UNCHANGED <<sessions, onlySession>>

(* start_forwarding publishes the socket, unless the session has lost its     *)
(* endpoint: then the last reference goes and the socket closes.              *)
StartForwarding(s) ==
    /\ sess[s].phase = "connected"
    /\ IF sessions[sess[s].ep] = s
       THEN /\ connections' = [connections EXCEPT ![sess[s].ep] = s]
            /\ sess' = [sess EXCEPT ![s].phase = "forwarding"]
       ELSE /\ sess' = [sess EXCEPT ![s].phase = "over", ![s].socket = "closed"]
            /\ UNCHANGED connections
    /\ UNCHANGED <<sessions, onlySession>>

(* Closes whatever session holds the endpoint. *)
CloseConnectionAnyOwner(s, objects) ==
    Unregister({sessions[sess[s].ep]} \ {None}, objects)

(* close_connection(sid, _, owner): only if the table still holds the owner.  *)
CloseConnection(s, objects) ==
    IF sessions[sess[s].ep] = s
    THEN Unregister({s}, objects)
    ELSE sess' = objects /\ UNCHANGED <<sessions, connections>>

(* The request cannot be read or served: read error (a stopped session aborts *)
(* its pending read), malformed or unsupported request.                       *)
RequestFails(s) ==
    /\ sess[s].phase = "request"
    /\ CloseConnection(s, [sess EXCEPT ![s].phase = "over"])
    /\ UNCHANGED onlySession

(* Connect deadline, failed resolution, refused target or failed connect; or  *)
(* the write of the initial payload fails.  The socket is not in the map yet, *)
(* so it goes with the handlers that held it.                                 *)
ConnectFails(s) ==
    /\ sess[s].phase \in {"connecting", "connected"}
    /\ CloseConnection(s, [sess EXCEPT ![s].phase = "over", ![s].socket = "closed"])
    /\ UNCHANGED onlySession

(* The forwarding loops end: read or write error, drained after the target    *)
(* closed, or the pending read of a stopped session aborted.                  *)
ForwardingEnds(s) ==
    /\ sess[s].phase = "forwarding"
    /\ CloseConnection(s, [sess EXCEPT ![s].phase = "over"])
    /\ UNCHANGED onlySession

-----------------------------------------------------------------------------
(* The sweep, stop() and time. *)

(* Sessions short of a completed handshake; whether SERVER_SOCKS5_HANDSHAKE_  *)
(* TIMEOUT_SEC have passed for one is left open.                              *)
Handshaking == {s \in Registered : Alive(s) /\ sess[s].phase \in {"request", "connecting"}}

(* do_cleanup: dead and stalled sessions leave both maps in one step. *)
Sweep(stalled) ==
    /\ ~stopped
    /\ Unregister({s \in Registered : ~Alive(s)} \cup stalled, sess)
    /\ SweepTombstones
    /\ UNCHANGED <<auth, pending, stopped, drained>>

BeginStop ==
    /\ ~stopped
    /\ stopped' = TRUE
    /\ UNCHANGED <<sessions, connections, sess, tombstoneVars, auth, pending, drained>>

(* stop() swaps the maps out under the lock. *)
Drain ==
    /\ stopped /\ ~drained
    /\ drained' = TRUE
    /\ Unregister(Registered, sess)
    /\ UNCHANGED <<tombstoneVars, auth, pending, stopped>>

Tick ==
    /\ AdvanceClock
    /\ UNCHANGED <<sessions, connections, sess, auth, pending, stopped, drained>>

-----------------------------------------------------------------------------
Init ==
    /\ sessions = [ep \in Endpoint |-> None]
    /\ connections = [ep \in Endpoint |-> None]
    /\ sess = <<>>
    /\ TombstoneInit
    /\ auth = [start |-> 0, attempts |-> 0, failures |-> [a \in Addr |-> 0]]
    /\ pending = None
    /\ stopped = FALSE
    /\ drained = FALSE

ReceivePath ==
    \/ \E ep \in Endpoint, salt \in Salt :
          \/ RouteToSession(ep, salt)
          \/ \E genuine \in BOOLEAN : Authenticate(ep, salt, genuine)
    \/ AbandonDatagram
    \/ RefuseSession
    \/ CreateSession

Strand(s) ==
    \/ Revive(s) \/ StopRuns(s) \/ CloseRuns(s) \/ ShutDown(s) \/ GoIdle(s)
    \/ RequestArrives(s) \/ ConnectCompletes(s) \/ StartForwarding(s)
    \/ RequestFails(s) \/ ConnectFails(s) \/ ForwardingEnds(s)

Next ==
    \/ ReceivePath
    \/ \E s \in DOMAIN sess : Strand(s)
    \/ \E stalled \in SUBSET Handshaking : Sweep(stalled)
    \/ BeginStop \/ Drain \/ Tick

Spec == Init /\ [][Next]_vars

(***************************************************************************)
(* Queued strand work is executed, a connection attempt ends (by its own   *)
(* outcome or the 15-second deadline), the cleanup timer re-arms itself    *)
(* while the server runs, and a stop() once begun completes.               *)
(***************************************************************************)
Fairness ==
    /\ \A s \in Session :
          /\ WF_vars(s \in DOMAIN sess /\ StopRuns(s))
          /\ WF_vars(s \in DOMAIN sess /\ CloseRuns(s))
          /\ WF_vars(s \in DOMAIN sess /\ (ConnectCompletes(s) \/ ConnectFails(s)))
          /\ WF_vars(s \in DOMAIN sess /\ (StartForwarding(s) \/ ConnectFails(s)))
    /\ WF_vars(\E stalled \in SUBSET Handshaking : Sweep(stalled))
    /\ WF_vars(Drain)

FairSpec == Spec /\ Fairness

-----------------------------------------------------------------------------
(* Properties *)

(* The maps, session objects and counters have their types. *)
TypeOK ==
    /\ sessions \in [Endpoint -> Session \cup {None}]
    /\ connections \in [Endpoint -> Session \cup {None}]
    /\ Len(sess) <= MaxCreated /\ \A s \in DOMAIN sess : sess[s] \in SessionObject
    /\ auth.start \in Nat /\ auth.attempts \in Nat /\ auth.failures \in [Addr -> Nat]
    /\ pending = None \/ pending \in [ep : Endpoint, salt : Salt]
    /\ stopped \in BOOLEAN /\ drained \in BOOLEAN

(* connections_[sid] always holds the socket of the very session that          *)
(* sessions_[sid] holds: no step of the receive path, a strand, the sweep or   *)
(* stop() leaves a target socket under a key whose session is gone or newer,   *)
(* although sockets are published long after their session was inserted.       *)
ConnectionsOwned ==
    \A ep \in Endpoint :
        connections[ep] # None => /\ sessions[ep] = connections[ep]
                                  /\ sess[connections[ep]].ep = ep

(* A session that is running, and not about to run a queued stop, is in the    *)
(* table: nothing keeps running that no tick drives and no sweep can reap.     *)
NoOrphan ==
    \A s \in DOMAIN sess :
        sess[s].running /\ ~sess[s].stopQueued => sessions[sess[s].ep] = s

(* Once stop() has swapped the maps out they stay empty, although a datagram   *)
(* may be between the two locks and connects may still complete.               *)
EmptyAfterStop ==
    drained => \A ep \in Endpoint : sessions[ep] = None /\ connections[ep] = None

(* The table, the failure table and the attempts of a window stay within       *)
(* their limits, also when an authenticated reconnect replaces a session at    *)
(* exactly the cap.  The state keeps its type.                                 *)
Bounded ==
    /\ TypeOK
    /\ Cardinality(Registered) <= MaxSessions
    /\ Cardinality({a \in Addr : auth.failures[a] > 0}) <= MaxTracked
    /\ auth.attempts <= MaxAttempts
    /\ \A a \in Addr : auth.failures[a] <= MaxFailures

(* Whatever the session table does to the tombstones is an acceptance of a     *)
(* salt that has none, a sweep, or time passing: get_or_create_session checks  *)
(* and records a salt in one critical section, so what SaltTombstones promises *)
(* of accepted salts holds of the sessions of the whole server.                *)
TombstonesRespected == TombstoneSpec

(* When a session enters the table no other live session there has its salt    *)
(* (and with it its traffic keys), wherever that one lives and however long    *)
(* ago its tombstone expired.                                                  *)
SaltsDistinctOnEntry ==
    [][\A s \in Registered' \ Registered : \A t \in Registered' \ {s} :
          Alive(t)' => sess'[s].salt # sess'[t].salt]_vars

(* A live session leaves the table only through its own handlers, a handshake  *)
(* that stalled, stop(), or an authenticated datagram from its endpoint under  *)
(* another salt: never by a datagram that did not authenticate, nor by the     *)
(* late teardown of a session it replaced.                                     *)
LiveSessionKept ==
    [][\A ep \in Endpoint :
          LET s == sessions[ep] IN
          s # None /\ Alive(s) /\ sessions'[ep] # s
              => \/ sess'[s].phase = "over" /\ sess[s].phase # "over"
                 \/ /\ s \in Handshaking
                    /\ UNCHANGED <<auth, pending>>
                    /\ \A t \in DOMAIN sess : sess'[t].phase = sess[t].phase
                 \/ stopped
                 \/ pending # None /\ pending.ep = ep]_vars

(* An authenticated datagram never destroys the live session at its endpoint   *)
(* without putting the new one in its place.                                   *)
EvictedMeansReplaced ==
    [][\A ep \in Endpoint :
          LiveIncumbent(ep) /\ pending # None /\ pending.ep = ep /\ pending' = None
              => sessions'[ep] # None]_vars

(* Every session is reclaimed: one that stopped by itself (refused encryption) *)
(* does not keep its endpoint, and whatever removed a session from the table,  *)
(* its target socket is closed in the end, also when the connect was still in  *)
(* flight at that moment.                                                      *)
SessionReclaimed ==
    \A s \in Session :
        /\ (s \in Registered /\ ~sess[s].running) ~> (s \notin Registered)
        /\ (s \in DOMAIN sess /\ s \notin Registered)
               ~> (s \in DOMAIN sess /\ sess[s].socket \in {"none", "closed"})
=============================================================================
