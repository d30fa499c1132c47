------------------------- MODULE SessionTableProofs -------------------------
(***************************************************************************)
(* What the session table keeps for any number of endpoints, salts and     *)
(* sessions and any limits: its two maps agree, no running session is      *)
(* outside it, stop() leaves it empty, it treats the salt tombstones as    *)
(* SaltTombstones specifies, and a session enters and leaves it only in    *)
(* the ways the code means it to; the table and the authentication         *)
(* throttle stay within their limits; and what SaltTombstones promises of  *)
(* accepted salts holds of the server.                                     *)
(***************************************************************************)
EXTENDS SessionTable, SaltTombstonesProofs, FiniteSetTheorems, TLAPS

(* The two maps hold existing sessions, under the endpoint of each; a target  *)
(* socket is published under a key only by the session that holds it; and     *)
(* whoever runs without a stop queued is registered.                          *)
Maps(ss, cs, obs) ==
    /\ obs \in Seq(SessionObject)
    /\ ss \in [Endpoint -> DOMAIN obs \cup {None}]
    /\ cs \in [Endpoint -> DOMAIN obs \cup {None}]
    /\ \A ep \in Endpoint : ss[ep] # None => obs[ss[ep]].ep = ep
    /\ \A ep \in Endpoint : cs[ep] # None => ss[ep] = cs[ep]
    /\ \A s \in DOMAIN obs : obs[s].running /\ ~obs[s].stopQueued => ss[obs[s].ep] = s

(* The sessions created are the salts accepted; a datagram between the two    *)
(* locks leaves room for its session; stop() empties the maps after it has    *)
(* set the flag the receive path looks at.                                    *)
TableInv ==
    /\ Maps(sessions, connections, sess)
    /\ accepted \in Seq([salt : Salt, at : Nat]) /\ Len(accepted) = Len(sess) /\ now \in Nat
    /\ Len(sess) <= MaxCreated
    /\ pending # None => pending \in [ep : Endpoint, salt : Salt] /\ Len(sess) < MaxCreated
    /\ drained => stopped
    /\ EmptyAfterStop

-----------------------------------------------------------------------------
(* The maps. *)

(* The sessions are numbered, and no number is None. *)
LEMMA SessionNumbers ==
    ASSUME NEW obs \in Seq(SessionObject)
    PROVE  /\ Len(obs) \in Nat /\ DOMAIN obs = 1 .. Len(obs)
           /\ None \notin DOMAIN obs
           /\ \A s \in DOMAIN obs : obs[s] \in SessionObject /\ obs[s].ep \in Endpoint
<1>1. Len(obs) \in Nat /\ DOMAIN obs = 1 .. Len(obs)
      /\ \A s \in DOMAIN obs : obs[s] \in SessionObject
  OBVIOUS
<1>2. None \notin DOMAIN obs
  BY <1>1, ConstantsAssumption
<1>3. \A o \in SessionObject : o.ep \in Endpoint
  BY DEF SessionObject
<1> QED BY <1>1, <1>2, <1>3

(* obs with new contents: same sessions at the same endpoints, and none that  *)
(* runs without a queued stop unless it did before.                           *)
NoNewRunner(obs, new) ==
    /\ new \in Seq(SessionObject) /\ DOMAIN new = DOMAIN obs
    /\ \A s \in DOMAIN obs :
          /\ new[s].ep = obs[s].ep
          /\ new[s].running /\ ~new[s].stopQueued => obs[s].running /\ ~obs[s].stopQueued

(* A handler that stops or advances sessions and leaves the maps alone. *)
LEMMA ContentsChange ==
    ASSUME NEW ss, NEW cs, NEW obs, NEW new, Maps(ss, cs, obs), NoNewRunner(obs, new)
    PROVE  Maps(ss, cs, new)
<1>1. \A ep \in Endpoint : ss[ep] # None => ss[ep] \in DOMAIN obs
  BY DEF Maps
<1> QED BY <1>1, Zenon DEF Maps, NoNewRunner

(* Retired sessions keep their endpoint and have a stop queued. *)
LEMMA RetireFacts ==
    ASSUME NEW objects \in Seq(SessionObject), NEW gone
    PROVE  /\ Retire(objects, gone) \in Seq(SessionObject)
           /\ DOMAIN Retire(objects, gone) = DOMAIN objects
           /\ Len(Retire(objects, gone)) = Len(objects)
           /\ \A s \in DOMAIN objects :
                 /\ Retire(objects, gone)[s].ep = objects[s].ep
                 /\ Retire(objects, gone)[s].salt = objects[s].salt
                 /\ Retire(objects, gone)[s].running = objects[s].running
                 /\ Retire(objects, gone)[s].idle = objects[s].idle
                 /\ Retire(objects, gone)[s].phase = objects[s].phase
                 /\ s \notin gone => Retire(objects, gone)[s] = objects[s]
                 /\ s \in gone => Retire(objects, gone)[s].stopQueued
<1> DEFINE new == Retire(objects, gone)
           stoppedOne(s) ==
              [objects[s] EXCEPT
                !.stopQueued = TRUE,
                !.socket = IF connections[objects[s].ep] = s /\ @ = "open" THEN "closing" ELSE @]
<1>1. new = [s \in DOMAIN objects |-> IF s \notin gone THEN objects[s] ELSE stoppedOne(s)]
  BY DEF Retire
<1>2. ASSUME NEW s \in DOMAIN objects
      PROVE  /\ stoppedOne(s) \in SessionObject /\ stoppedOne(s).stopQueued
             /\ stoppedOne(s).ep = objects[s].ep /\ stoppedOne(s).salt = objects[s].salt
             /\ stoppedOne(s).running = objects[s].running
             /\ stoppedOne(s).idle = objects[s].idle
             /\ stoppedOne(s).phase = objects[s].phase
  <2>1. objects[s] \in SessionObject
    BY SessionNumbers
  <2> QED BY <2>1, Zenon DEF SessionObject
<1> HIDE DEF new, stoppedOne
<1>3. Len(objects) \in Nat /\ DOMAIN objects = 1 .. Len(objects)
      /\ \A s \in DOMAIN objects : objects[s] \in SessionObject
  BY SessionNumbers
<1>4. \A s \in DOMAIN objects : new[s] \in SessionObject
  BY <1>1, <1>2, <1>3
<1>5. new \in Seq(SessionObject) /\ Len(new) = Len(objects) /\ DOMAIN new = DOMAIN objects
  BY <1>1, <1>3, <1>4
<1>6. ASSUME NEW s \in DOMAIN objects
      PROVE  /\ new[s].ep = objects[s].ep /\ new[s].salt = objects[s].salt
             /\ new[s].running = objects[s].running
             /\ new[s].idle = objects[s].idle /\ new[s].phase = objects[s].phase
             /\ s \notin gone => new[s] = objects[s]
             /\ s \in gone => new[s].stopQueued
  BY <1>1, <1>2, ZenonT(30)
<1> QED BY <1>5, <1>6 DEF new

(* Removing sessions from both maps and stopping them keeps the maps right,   *)
(* also when a handler has just changed the contents of the objects.          *)
LEMMA RemovalKeepsMaps ==
    ASSUME NEW objects, NEW gone, Maps(sessions, connections, sess),
           NoNewRunner(sess, objects)
    PROVE  /\ Maps(Without(sessions, gone), Without(connections, gone), Retire(objects, gone))
           /\ Len(Retire(objects, gone)) = Len(sess)
           /\ \A ep \in Endpoint : /\ Without(sessions, gone)[ep] \in {None, sessions[ep]}
                                   /\ Without(connections, gone)[ep] \in {None, connections[ep]}
<1> DEFINE ss == Without(sessions, gone)
           cs == Without(connections, gone)
           new == Retire(objects, gone)
<1>1. /\ \A ep \in Endpoint : ss[ep] = IF sessions[ep] \in gone THEN None ELSE sessions[ep]
      /\ \A ep \in Endpoint : cs[ep] = IF sessions[ep] \in gone THEN None ELSE connections[ep]
      /\ DOMAIN ss = Endpoint /\ DOMAIN cs = Endpoint
      /\ ss = [ep \in Endpoint |-> ss[ep]] /\ cs = [ep \in Endpoint |-> cs[ep]]
  BY DEF Without
<1>2. /\ new \in Seq(SessionObject) /\ DOMAIN new = DOMAIN sess /\ Len(new) = Len(objects)
      /\ \A s \in DOMAIN sess :
            /\ new[s].ep = sess[s].ep
            /\ new[s].running /\ ~new[s].stopQueued
                  => s \notin gone /\ sess[s].running /\ ~sess[s].stopQueued
  BY RetireFacts DEF NoNewRunner
<1>3. Len(objects) = Len(sess)
  BY SessionNumbers DEF NoNewRunner, Maps
<1>4. \A s \in DOMAIN sess : sess[s].ep \in Endpoint
  BY SessionNumbers DEF Maps
<1> HIDE DEF ss, cs, new
<1>5. /\ ss \in [Endpoint -> DOMAIN new \cup {None}]
      /\ cs \in [Endpoint -> DOMAIN new \cup {None}]
  BY <1>1, <1>2 DEF Maps
<1>6. \A ep \in Endpoint : ss[ep] # None => new[ss[ep]].ep = ep
  <2> SUFFICES ASSUME NEW ep \in Endpoint, ss[ep] # None PROVE new[ss[ep]].ep = ep
    OBVIOUS
  <2>1. ss[ep] = sessions[ep] /\ sessions[ep] \in DOMAIN sess /\ sess[sessions[ep]].ep = ep
    BY <1>1 DEF Maps
  <2> QED BY <1>2, <2>1, ZenonT(30)
<1>7. \A ep \in Endpoint : cs[ep] # None => ss[ep] = cs[ep]
  BY <1>1 DEF Maps
<1>8. \A s \in DOMAIN new : new[s].running /\ ~new[s].stopQueued => ss[new[s].ep] = s
  <2> SUFFICES ASSUME NEW s \in DOMAIN sess, new[s].running, ~new[s].stopQueued
               PROVE  ss[new[s].ep] = s
    BY <1>2
  <2>1. new[s].ep = sess[s].ep /\ s \notin gone /\ sess[s].running /\ ~sess[s].stopQueued
    BY <1>2
  <2>2. sessions[sess[s].ep] = s
    BY <2>1 DEF Maps
  <2> QED BY <1>1, <1>4, <2>1, <2>2, ZenonT(30)
<1>9. Maps(ss, cs, new)
  BY <1>2, <1>5, <1>6, <1>7, <1>8, ZenonT(30) DEF Maps
<1> QED BY <1>1, <1>2, <1>3, <1>9, ZenonT(30) DEF ss, cs, new

(* A new session under an endpoint that neither map holds. *)
LEMMA InsertionKeepsMaps ==
    ASSUME NEW ss, NEW cs, NEW obs, NEW o \in SessionObject, Maps(ss, cs, obs),
           ss[o.ep] = None, cs[o.ep] = None
    PROVE  /\ Maps([ss EXCEPT ![o.ep] = Len(obs) + 1], cs, Append(obs, o))
           /\ Len(Append(obs, o)) = Len(obs) + 1
<1> DEFINE new == Append(obs, o)
           s2 == [ss EXCEPT ![o.ep] = Len(obs) + 1]
<1>0. obs \in Seq(SessionObject) /\ o.ep \in Endpoint
  BY DEF Maps, SessionObject
<1>1. /\ Len(obs) \in Nat /\ DOMAIN obs = 1 .. Len(obs) /\ None \notin DOMAIN obs
      /\ \A s \in DOMAIN obs : obs[s].ep \in Endpoint
  BY <1>0, SessionNumbers, ZenonT(30)
<1>2. /\ new \in Seq(SessionObject) /\ Len(new) = Len(obs) + 1
      /\ DOMAIN new = DOMAIN obs \cup {Len(obs) + 1}
      /\ new[Len(obs) + 1] = o
      /\ \A s \in DOMAIN obs : new[s] = obs[s]
  BY <1>0, <1>1
<1>3. /\ DOMAIN s2 = Endpoint /\ s2[o.ep] = Len(obs) + 1
      /\ \A ep \in Endpoint : ep # o.ep => s2[ep] = ss[ep]
      /\ s2 = [ep \in Endpoint |-> s2[ep]]
  BY <1>0, ZenonT(30) DEF Maps
<1> HIDE DEF new, s2
<1>4. /\ s2 \in [Endpoint -> DOMAIN new \cup {None}]
      /\ cs \in [Endpoint -> DOMAIN new \cup {None}]
  BY <1>2, <1>3 DEF Maps
<1>5. \A ep \in Endpoint : s2[ep] # None => new[s2[ep]].ep = ep
  <2> SUFFICES ASSUME NEW ep \in Endpoint, s2[ep] # None PROVE new[s2[ep]].ep = ep
    OBVIOUS
  <2>1. CASE ep = o.ep
    BY <1>2, <1>3, <2>1, ZenonT(30)
  <2>2. CASE ep # o.ep
    <3>1. s2[ep] = ss[ep] /\ ss[ep] \in DOMAIN obs /\ obs[ss[ep]].ep = ep
      BY <1>3, <2>2, SMTT(20) DEF Maps
    <3> QED BY <1>2, <3>1
  <2> QED BY <2>1, <2>2
<1>6. \A ep \in Endpoint : cs[ep] # None => s2[ep] = cs[ep]
  BY <1>3 DEF Maps
<1>7. \A s \in DOMAIN new : new[s].running /\ ~new[s].stopQueued => s2[new[s].ep] = s
  <2> SUFFICES ASSUME NEW s \in DOMAIN new, new[s].running, ~new[s].stopQueued
               PROVE  s2[new[s].ep] = s
    OBVIOUS
  <2>1. CASE s = Len(obs) + 1
    BY <1>2, <1>3, <2>1, ZenonT(30)
  <2>2. CASE s \in DOMAIN obs
    <3>1. new[s] = obs[s] /\ ss[obs[s].ep] = s /\ obs[s].ep \in Endpoint
      BY <1>1, <1>2, <2>2, ZenonT(30) DEF Maps
    <3>2. obs[s].ep # o.ep
      BY <1>1, <2>2, <3>1, ZenonT(30)
    <3> QED BY <1>3, <3>1, <3>2, ZenonT(30)
  <2> QED BY <1>2, <2>1, <2>2, ZenonT(30)
<1>8. Maps(s2, cs, new)
  BY <1>2, <1>4, <1>5, <1>6, <1>7, ZenonT(30) DEF Maps
<1> QED BY <1>2, <1>8 DEF s2, new

-----------------------------------------------------------------------------
(* The handlers on a session's strand. *)

(* The object o in place of r: same endpoint, and no new runner. *)
Quieter(o, r) ==
    /\ o \in SessionObject /\ o.ep = r.ep
    /\ o.running /\ ~o.stopQueued => r.running /\ ~r.stopQueued

(* One session object is replaced. *)
LEMMA OneObject ==
    ASSUME sess \in Seq(SessionObject), NEW s \in DOMAIN sess, NEW o, Quieter(o, sess[s])
    PROVE  NoNewRunner(sess, [sess EXCEPT ![s] = o])
<1>1. Len(sess) \in Nat /\ DOMAIN sess = 1 .. Len(sess)
      /\ \A t \in DOMAIN sess : sess[t] \in SessionObject
  BY SessionNumbers
<1>2. [sess EXCEPT ![s] = o] \in Seq(SessionObject) /\ DOMAIN [sess EXCEPT ![s] = o] = DOMAIN sess
  BY <1>1 DEF Quieter
<1>3. \A t \in DOMAIN sess : [sess EXCEPT ![s] = o][t] = IF t = s THEN o ELSE sess[t]
  BY <1>1
<1> QED BY <1>2, <1>3 DEF NoNewRunner, Quieter

(* What the handlers do to their own session object: none makes it a new      *)
(* runner.                                                                    *)
LEMMA HandlerObjects ==
    ASSUME sess \in Seq(SessionObject), NEW s \in DOMAIN sess
    PROVE  /\ NoNewRunner(sess, [sess EXCEPT ![s].idle = FALSE])
           /\ NoNewRunner(sess, [sess EXCEPT ![s].idle = TRUE])
           /\ NoNewRunner(sess, [sess EXCEPT ![s].stopQueued = FALSE, ![s].running = FALSE])
           /\ NoNewRunner(sess, [sess EXCEPT ![s].stopQueued = TRUE])
           /\ NoNewRunner(sess, [sess EXCEPT ![s].socket = "closed"])
           /\ NoNewRunner(sess, [sess EXCEPT ![s].phase = "connecting", ![s].socket = "open"])
           /\ NoNewRunner(sess, [sess EXCEPT ![s].phase = "connected"])
           /\ NoNewRunner(sess, [sess EXCEPT ![s].phase = "forwarding"])
           /\ NoNewRunner(sess, [sess EXCEPT ![s].phase = "over"])
           /\ NoNewRunner(sess, [sess EXCEPT ![s].phase = "over", ![s].socket = "closed"])
<1>0. sess[s] \in SessionObject
  BY SessionNumbers
<1>1. ASSUME NEW r \in SessionObject
      PROVE  /\ Quieter([r EXCEPT !.idle = FALSE], r)
             /\ Quieter([r EXCEPT !.idle = TRUE], r)
             /\ Quieter([r EXCEPT !.stopQueued = FALSE, !.running = FALSE], r)
             /\ Quieter([r EXCEPT !.stopQueued = TRUE], r)
             /\ Quieter([r EXCEPT !.socket = "closed"], r)
             /\ Quieter([r EXCEPT !.phase = "connecting", !.socket = "open"], r)
             /\ Quieter([r EXCEPT !.phase = "connected"], r)
             /\ Quieter([r EXCEPT !.phase = "forwarding"], r)
             /\ Quieter([r EXCEPT !.phase = "over"], r)
             /\ Quieter([r EXCEPT !.phase = "over", !.socket = "closed"], r)
  BY ZenonT(30) DEF Quieter, SessionObject, Phase
<1>2. /\ [sess EXCEPT ![s].stopQueued = FALSE, ![s].running = FALSE]
           = [sess EXCEPT ![s] = [sess[s] EXCEPT !.stopQueued = FALSE, !.running = FALSE]]
      /\ [sess EXCEPT ![s].phase = "connecting", ![s].socket = "open"]
           = [sess EXCEPT ![s] = [sess[s] EXCEPT !.phase = "connecting", !.socket = "open"]]
      /\ [sess EXCEPT ![s].phase = "over", ![s].socket = "closed"]
           = [sess EXCEPT ![s] = [sess[s] EXCEPT !.phase = "over", !.socket = "closed"]]
  BY Zenon
<1>3. ASSUME NEW o, Quieter(o, sess[s])
      PROVE  NoNewRunner(sess, [sess EXCEPT ![s] = o])
  BY <1>3, OneObject
<1> QED BY <1>0, <1>1, <1>2, <1>3, ZenonT(30)

(* What a step that neither creates a session nor lets a datagram through     *)
(* leaves of the maps: right, no larger, and with the same sessions.          *)
Shrinks ==
    /\ Maps(sessions, connections, sess)'
    /\ Len(sess') = Len(sess)
    /\ \A ep \in Endpoint : sessions'[ep] \in {None, sessions[ep]}
    /\ \A ep \in Endpoint : connections'[ep] \in {None, connections[ep], sessions[ep]}

(* Sessions leave the table. *)
LEMMA UnregisterShrinks ==
    ASSUME Maps(sessions, connections, sess), NEW gone, NEW objects,
           NoNewRunner(sess, objects), Unregister(gone, objects)
    PROVE  Shrinks
<1>1. /\ Maps(Without(sessions, gone), Without(connections, gone), Retire(objects, gone))
      /\ Len(Retire(objects, gone)) = Len(sess)
      /\ \A ep \in Endpoint : /\ Without(sessions, gone)[ep] \in {None, sessions[ep]}
                              /\ Without(connections, gone)[ep] \in {None, connections[ep]}
  BY RemovalKeepsMaps, Zenon
<1>2. /\ sessions' = Without(sessions, gone) /\ connections' = Without(connections, gone)
      /\ sess' = Retire(objects, gone)
  BY ZenonT(30) DEF Unregister
<1>3. Maps(sessions, connections, sess)'
  BY <1>1, <1>2, ZenonT(30) DEF Maps
<1> QED BY <1>1, <1>2, <1>3 DEF Shrinks

(* A handler changes its own object and leaves the maps alone. *)
LEMMA HandlerShrinks ==
    ASSUME Maps(sessions, connections, sess), NoNewRunner(sess, sess'),
           UNCHANGED <<sessions, connections>>
    PROVE  Shrinks
<1>1. Maps(sessions, connections, sess')
  BY ContentsChange, ZenonT(30)
<1>2. Maps(sessions, connections, sess)'
  BY <1>1, ZenonT(30) DEF Maps
<1>3. Len(sess') = Len(sess)
  BY SessionNumbers DEF NoNewRunner, Maps
<1> QED BY <1>2, <1>3 DEF Shrinks

(* close_connection, whether or not the session still holds its endpoint. *)
LEMMA CloseShrinks ==
    ASSUME Maps(sessions, connections, sess), NEW s, NEW objects,
           NoNewRunner(sess, objects), CloseConnection(s, objects)
    PROVE  Shrinks
<1>1. CASE sessions[sess[s].ep] = s
  BY <1>1, UnregisterShrinks, ZenonT(30) DEF CloseConnection
<1>2. CASE sessions[sess[s].ep] # s
  BY <1>2, HandlerShrinks, ZenonT(30) DEF CloseConnection
<1> QED BY <1>1, <1>2, ZenonT(30)

(* start_forwarding: the socket is published by the session that holds the    *)
(* key, or not at all.                                                        *)
LEMMA StartForwardingShrinks ==
    ASSUME Maps(sessions, connections, sess), NEW s \in DOMAIN sess, StartForwarding(s)
    PROVE  Shrinks
<1>0. sess \in Seq(SessionObject) /\ sess[s].ep \in Endpoint
  BY SessionNumbers DEF Maps
<1>1. CASE sessions[sess[s].ep] = s
  <2>1. /\ sess' = [sess EXCEPT ![s].phase = "forwarding"] /\ sessions' = sessions
        /\ connections' = [connections EXCEPT ![sess[s].ep] = s]
    BY <1>1 DEF StartForwarding
  <2>2. Maps(sessions, connections, sess') /\ DOMAIN sess' = DOMAIN sess
        /\ Len(sess') = Len(sess)
    <3>1. NoNewRunner(sess, sess')
      BY <1>0, <2>1, HandlerObjects, ZenonT(30)
    <3>2. Maps(sessions, connections, sess')
      BY <3>1, ContentsChange, ZenonT(30)
    <3> QED BY <1>0, <3>1, <3>2, SessionNumbers, SMTT(20) DEF NoNewRunner
  <2>3. /\ connections' \in [Endpoint -> DOMAIN sess' \cup {None}]
        /\ \A ep \in Endpoint : connections'[ep] # None => sessions[ep] = connections'[ep]
        /\ \A ep \in Endpoint : connections'[ep] \in {connections[ep], sessions[ep]}
    BY <1>0, <1>1, <2>1, <2>2, SMTT(20) DEF Maps
  <2>4. Maps(sessions, connections, sess)'
    BY <2>1, <2>2, <2>3, ZenonT(30) DEF Maps
  <2> QED BY <2>1, <2>2, <2>3, <2>4, ZenonT(30) DEF Shrinks
<1>2. CASE sessions[sess[s].ep] # s
  <2>1. /\ sess' = [sess EXCEPT ![s].phase = "over", ![s].socket = "closed"]
        /\ UNCHANGED <<sessions, connections>>
    BY <1>2 DEF StartForwarding
  <2> QED BY <1>0, <2>1, HandlerObjects, HandlerShrinks, ZenonT(30)
<1> QED BY <1>1, <1>2, ZenonT(30)

(* Every handler of a session. *)
LEMMA StrandShrinks ==
    ASSUME Maps(sessions, connections, sess), NEW s \in DOMAIN sess, Strand(s)
    PROVE  Shrinks /\ UNCHANGED onlySession
<1>0. sess \in Seq(SessionObject)
  BY DEF Maps
<1>1. CASE Revive(s) \/ StopRuns(s) \/ CloseRuns(s) \/ ShutDown(s) \/ GoIdle(s)
           \/ RequestArrives(s) \/ ConnectCompletes(s)
  <2>1. NoNewRunner(sess, sess') /\ UNCHANGED <<sessions, connections, onlySession>>
    BY <1>0, <1>1, HandlerObjects, ZenonT(30)
       DEF Revive, StopRuns, CloseRuns, ShutDown, GoIdle, RequestArrives, ConnectCompletes
  <2> QED BY <2>1, HandlerShrinks
<1>2. CASE StartForwarding(s)
  BY <1>2, StartForwardingShrinks, ZenonT(30) DEF StartForwarding
<1>3. CASE RequestFails(s) \/ ConnectFails(s) \/ ForwardingEnds(s)
  BY <1>0, <1>3, HandlerObjects, CloseShrinks, ZenonT(30)
     DEF RequestFails, ConnectFails, ForwardingEnds
<1> QED BY <1>1, <1>2, <1>3, ZenonT(30) DEF Strand

-----------------------------------------------------------------------------
(* The receive path, the sweep and stop(). *)

(* The objects as they are bring no new runner. *)
LEMMA SameObjects ==
    ASSUME Maps(sessions, connections, sess)
    PROVE  NoNewRunner(sess, sess)
BY DEF Maps, NoNewRunner

(* The salt is free, so the incumbent of the endpoint, alive or not, is gone   *)
(* when the new session is inserted.                                           *)
LEMMA CreateReplaces ==
    ASSUME Maps(sessions, connections, sess), pending.ep \in Endpoint, ~Refused
    PROVE  /\ Replaced = {sessions[pending.ep]} \ {None}
           /\ Without(sessions, Replaced)[pending.ep] = None
           /\ Without(connections, Replaced)[pending.ep] = None
<1>1. Replaced = {sessions[pending.ep]} \ {None}
  BY DEF Refused, Replaced, Incumbent
<1>2. sessions[pending.ep] = None => connections[pending.ep] = None
  BY DEF Maps
<1> QED BY <1>1, <1>2, ZenonT(30) DEF Without

(* get_or_create_session inserts a session. *)
LEMMA CreateKeepsMaps ==
    ASSUME TableInv, CreateSession
    PROVE  /\ Maps(sessions, connections, sess)'
           /\ Len(sess') = Len(sess) + 1
<1> DEFINE o == NewSession(pending.ep, pending.salt)
           ss == Without(sessions, Replaced)
           cs == Without(connections, Replaced)
           obs == Retire(sess, Replaced)
<1>0. pending.ep \in Endpoint /\ pending.salt \in Salt /\ Maps(sessions, connections, sess)
  BY DEF TableInv, CreateSession
<1>1. o \in SessionObject /\ o.ep = pending.ep
  BY <1>0 DEF NewSession, SessionObject, Phase
<1>2. Maps(ss, cs, obs) /\ Len(obs) = Len(sess)
  BY <1>0, SameObjects, RemovalKeepsMaps, ZenonT(30)
<1>3. ss[pending.ep] = None /\ cs[pending.ep] = None
  BY <1>0, CreateReplaces, ZenonT(30) DEF CreateSession
<1>4. /\ sessions' = [ss EXCEPT ![pending.ep] = Len(sess) + 1]
      /\ connections' = cs
      /\ sess' = Append(obs, o)
  BY DEF CreateSession
<1> HIDE DEF o, ss, cs, obs
<1>5. /\ Maps([ss EXCEPT ![o.ep] = Len(obs) + 1], cs, Append(obs, o))
      /\ Len(Append(obs, o)) = Len(obs) + 1
  BY <1>1, <1>2, <1>3, InsertionKeepsMaps, SMTT(20)
<1>6. Maps(sessions', connections', sess') /\ Len(sess') = Len(sess) + 1
  BY <1>1, <1>2, <1>4, <1>5, ZenonT(30)
<1>7. Maps(sessions, connections, sess)'
  BY <1>6, ZenonT(30) DEF Maps
<1> QED BY <1>6, <1>7, ZenonT(30)

(* Every step that creates no session takes sessions out of the table or       *)
(* leaves them, and what it does to the tombstones is a sweep or a tick.       *)
LEMMA OtherStepsShrink ==
    ASSUME TableInv, [Next]_vars, ~CreateSession
    PROVE  /\ Shrinks
           /\ accepted' = accepted
           /\ SweepTombstones \/ AdvanceClock \/ UNCHANGED tombstoneVars
           /\ \/ pending' \in {None, pending}
              \/ pending' \in [ep : Endpoint, salt : Salt] /\ Len(sess) < MaxCreated
           /\ stopped => stopped'
           /\ drained' => drained \/ (stopped /\ \A ep \in Endpoint :
                                         sessions'[ep] = None /\ connections'[ep] = None)
<1>0. Maps(sessions, connections, sess) /\ NoNewRunner(sess, sess)
  BY SameObjects DEF TableInv
<1> DEFINE Goal ==
           /\ Shrinks
           /\ accepted' = accepted
           /\ SweepTombstones \/ AdvanceClock \/ UNCHANGED tombstoneVars
           /\ \/ pending' \in {None, pending}
              \/ pending' \in [ep : Endpoint, salt : Salt] /\ Len(sess) < MaxCreated
           /\ stopped => stopped'
           /\ drained' => drained \/ (stopped /\ \A ep \in Endpoint :
                                         sessions'[ep] = None /\ connections'[ep] = None)
<1> SUFFICES Goal
  OBVIOUS
<1>1. ASSUME UNCHANGED <<sessions, connections, sess>>
      PROVE  Shrinks
  BY <1>0, <1>1, HandlerShrinks, ZenonT(30)
<1>2. ASSUME NEW ep \in Endpoint, NEW salt \in Salt, NEW genuine \in BOOLEAN,
             Authenticate(ep, salt, genuine)
      PROVE  Goal
  <2>1. Shrinks
    BY <1>0, <1>2, UnregisterShrinks, ZenonT(30) DEF Authenticate
  <2>2. pending' = None \/ (pending' = [ep |-> ep, salt |-> salt] /\ Len(sess) < MaxCreated)
    BY <1>2, ZenonT(30) DEF Authenticate
  <2>3. UNCHANGED <<tombstoneVars, stopped, drained>>
    BY <1>2 DEF Authenticate
  <2> QED BY <1>0, <2>1, <2>2, <2>3, SMTT(20) DEF tombstoneVars
<1>3. CASE AbandonDatagram
  BY <1>0, <1>1, <1>3, ZenonT(30) DEF AbandonDatagram, tombstoneVars
<1>4. CASE RefuseSession
  BY <1>0, <1>4, UnregisterShrinks, ZenonT(30) DEF RefuseSession, tombstoneVars
<1>5. ASSUME NEW s \in DOMAIN sess, Strand(s)
      PROVE  Goal
  BY <1>0, <1>5, StrandShrinks, ZenonT(30) DEF onlySession, tombstoneVars
<1>6. ASSUME NEW stalled, Sweep(stalled)
      PROVE  Goal
  BY <1>0, <1>6, UnregisterShrinks, ZenonT(30) DEF Sweep, SweepTombstones
<1>7. CASE BeginStop
  BY <1>0, <1>1, <1>7, ZenonT(30) DEF BeginStop, tombstoneVars
<1>8. CASE Drain
  <2>1. Shrinks
    BY <1>0, <1>8, UnregisterShrinks, ZenonT(30) DEF Drain
  <2>2. \A ep \in Endpoint : sessions'[ep] = None
    BY <1>8 DEF Drain, Unregister, Without, Registered
  <2>3. \A ep \in Endpoint : connections'[ep] = None
    BY <2>1, <2>2, ZenonT(30) DEF Shrinks, Maps
  <2> QED BY <1>0, <1>8, <2>1, <2>2, <2>3, ZenonT(30) DEF Drain, tombstoneVars
<1>9. CASE Tick
  BY <1>0, <1>1, <1>9, ZenonT(30) DEF Tick, AdvanceClock
<1>10. CASE UNCHANGED vars
  BY <1>0, <1>1, <1>10, ZenonT(30) DEF vars, tombstoneVars
<1> QED
  BY <1>2, <1>3, <1>4, <1>5, <1>6, <1>7, <1>8, <1>9, <1>10, ZenonT(30)
     DEF Next, ReceivePath, RouteToSession

(* The table's invariant, for every step. *)
LEMMA TableInvStep == TableInv /\ [Next]_vars => TableInv'
<1> SUFFICES ASSUME TableInv, [Next]_vars PROVE TableInv'
  OBVIOUS
<1>0. /\ accepted \in Seq([salt : Salt, at : Nat]) /\ Len(accepted) = Len(sess)
      /\ drained => stopped
      /\ now \in Nat
  BY ZenonT(30) DEF TableInv
<1>1. CASE CreateSession
  <2>1. Maps(sessions, connections, sess)' /\ Len(sess') = Len(sess) + 1
    BY <1>1, CreateKeepsMaps, ZenonT(30)
  <2>2. pending' = None /\ UNCHANGED <<stopped, drained>> /\ ~stopped /\ ~drained
    BY <1>0, <1>1, ZenonT(30) DEF CreateSession
  <2>3. pending.salt \in Salt /\ accepted' = Append(accepted, [salt |-> pending.salt, at |-> now])
        /\ now' = now
    BY <1>1 DEF CreateSession, TableInv
  <2>4. accepted' \in Seq([salt : Salt, at : Nat]) /\ Len(accepted') = Len(accepted) + 1
    BY <1>0, <2>3, SMTT(20)
  <2>5. Len(sess) < MaxCreated /\ Len(sess) \in Nat /\ MaxCreated \in Nat
    BY <1>1, SessionNumbers, TombstoneAssumption, ZenonT(30) DEF TableInv, CreateSession, Maps
  <2>6. Len(sess) + 1 <= MaxCreated
    BY <2>5, SMTT(20)
  <2> QED BY <1>0, <2>1, <2>2, <2>3, <2>4, <2>6, ZenonT(30) DEF TableInv, EmptyAfterStop
<1>2. CASE ~CreateSession
  <2>1. now' \in Nat
    BY <1>0, <1>2, OtherStepsShrink, SMTT(20) DEF SweepTombstones, AdvanceClock, tombstoneVars
  <2> QED BY <1>0, <1>2, <2>1, OtherStepsShrink, ZenonT(30) DEF TableInv, EmptyAfterStop, Shrinks
<1> QED BY <1>1, <1>2

(* The table's invariant holds throughout every run of the server. *)
THEOREM TableInvHolds == Spec => []TableInv
<1>1. Init => TableInv
  <2> SUFFICES ASSUME Init PROVE TableInv
    OBVIOUS
  <2>1. sess = <<>> /\ accepted = <<>> /\ Len(sess) = 0 /\ Len(accepted) = 0 /\ DOMAIN sess = {}
    BY DEF Init, TombstoneInit
  <2>2. Maps(sessions, connections, sess)
    BY <2>1 DEF Init, Maps
  <2> QED BY <2>1, <2>2, TombstoneAssumption, SMTT(20)
          DEF Init, TombstoneInit, TableInv, EmptyAfterStop
<1> QED BY <1>1, TableInvStep, PTL DEF Spec

(* connections_ holds under a key the socket of the very session sessions_     *)
(* holds there: publishing, replacing, closing and sweeping keep the maps in   *)
(* agreement for any number of sessions and endpoints.                         *)
THEOREM ConnectionsOwnedHolds == Spec => []ConnectionsOwned
<1>1. TableInv => ConnectionsOwned
  BY ZenonT(30) DEF TableInv, Maps, ConnectionsOwned
<1> QED BY <1>1, TableInvHolds, PTL

(* No session runs outside the table without a stop queued on its strand.      *)
THEOREM NoOrphanHolds == Spec => []NoOrphan
<1>1. TableInv => NoOrphan
  BY ZenonT(30) DEF TableInv, Maps, NoOrphan
<1> QED BY <1>1, TableInvHolds, PTL

(* After stop() has swapped the maps out, nothing enters them again.           *)
THEOREM EmptyAfterStopHolds == Spec => []EmptyAfterStop
<1>1. TableInv => EmptyAfterStop
  BY DEF TableInv
<1> QED BY <1>1, TableInvHolds, PTL

(* The server as a whole uses the tombstones as SaltTombstones specifies: it   *)
(* accepts a salt only without a tombstone, and otherwise only sweeps.         *)
THEOREM TombstonesRespectedHolds == Spec => TombstonesRespected
<1>1. Init => TombstoneInit
  BY DEF Init
<1>2. TableInv /\ [Next]_vars => [TombstoneNext]_tombstoneVars
  <2> SUFFICES ASSUME TableInv, [Next]_vars PROVE [TombstoneNext]_tombstoneVars
    OBVIOUS
  <2>1. CASE CreateSession
    <3>1. pending.salt \in Salt /\ Len(accepted) < MaxCreated /\ ~Tombstoned(pending.salt)
      BY <2>1, ZenonT(30) DEF TableInv, CreateSession, Refused
    <3>2. AcceptSalt(pending.salt)
      BY <2>1, <3>1, ZenonT(30) DEF CreateSession, AcceptSalt
    <3> QED BY <3>1, <3>2, ZenonT(30) DEF TombstoneNext
  <2>2. CASE ~CreateSession
    BY <2>2, OtherStepsShrink, ZenonT(30) DEF TombstoneNext
  <2> QED BY <2>1, <2>2
<1> QED BY <1>1, <1>2, TableInvHolds, PTL DEF Spec, TombstoneSpec, TombstonesRespected

-----------------------------------------------------------------------------
(* Entering the table. *)

(* What a creation inserts, and who else is in the table after it.             *)
LEMMA CreateEntry ==
    ASSUME TableInv, CreateSession
    PROVE  /\ Registered' = (Registered \ Replaced) \cup {Len(sess) + 1}
           /\ Len(sess) + 1 \notin Registered
           /\ sess'[Len(sess) + 1].salt = pending.salt
           /\ \A t \in Registered \ Replaced :
                 sess'[t] = sess[t] /\ sess[t].ep # pending.ep
<1> DEFINE n == Len(sess) + 1
           ss == Without(sessions, Replaced)
           obs == Retire(sess, Replaced)
<1>0. pending.ep \in Endpoint /\ Maps(sessions, connections, sess) /\ sess \in Seq(SessionObject)
  BY DEF TableInv, CreateSession, Maps
<1>1. /\ Len(sess) \in Nat /\ DOMAIN sess = 1 .. Len(sess) /\ None \notin DOMAIN sess
  BY <1>0, SessionNumbers, ZenonT(30)
<1>2. /\ Replaced = {sessions[pending.ep]} \ {None}
      /\ ss[pending.ep] = None
  BY <1>0, CreateReplaces, ZenonT(30) DEF CreateSession
<1>3. \A ep \in Endpoint : ss[ep] = IF sessions[ep] \in Replaced THEN None ELSE sessions[ep]
  BY ZenonT(30) DEF Without
<1>4. /\ obs \in Seq(SessionObject) /\ DOMAIN obs = DOMAIN sess /\ Len(obs) = Len(sess)
      /\ \A t \in DOMAIN sess : t \notin Replaced => obs[t] = sess[t]
  BY <1>0, RetireFacts, SMTT(20)
<1>5. /\ sessions' = [ss EXCEPT ![pending.ep] = n]
      /\ sess' = Append(obs, NewSession(pending.ep, pending.salt))
      /\ DOMAIN ss = Endpoint
  BY DEF CreateSession, Without
<1> HIDE DEF ss, obs
<1>6. /\ sessions'[pending.ep] = n
      /\ \A ep \in Endpoint : ep # pending.ep => sessions'[ep] = ss[ep]
  BY <1>0, <1>5, ZenonT(30)
<1>7. n \notin DOMAIN sess /\ n # None
  BY <1>1, ConstantsAssumption, SMTT(20)
<1>8. /\ sess'[n].salt = pending.salt
      /\ \A t \in DOMAIN sess : sess'[t] = obs[t]
  <2>1. /\ sess'[n] = NewSession(pending.ep, pending.salt)
        /\ \A t \in DOMAIN sess : sess'[t] = obs[t]
    BY <1>1, <1>4, <1>5, SMTT(20)
  <2> QED BY <2>1, SMTT(20) DEF NewSession
<1>9. Registered \subseteq DOMAIN sess
  BY <1>0, SMTT(20) DEF Registered, Maps
<1>10. ASSUME NEW t \in Registered \ Replaced
       PROVE  /\ sess'[t] = sess[t] /\ sess[t].ep # pending.ep
              /\ t \in Registered'
  <2>1. PICK ep \in Endpoint : t = sessions[ep] /\ t # None
    BY ZenonT(30) DEF Registered
  <2>2. ep # pending.ep /\ sess[t].ep = ep
    BY <1>0, <1>2, <2>1, ZenonT(30) DEF Maps
  <2>3. sessions'[ep] = t
    BY <1>3, <1>6, <1>10, <2>1, <2>2, ZenonT(30)
  <2>4. t \in Registered'
    BY <2>1, <2>3, ZenonT(30) DEF Registered
  <2>5. sess'[t] = sess[t]
    BY <1>4, <1>8, <1>9, <1>10, ZenonT(30)
  <2> QED BY <2>2, <2>4, <2>5, ZenonT(30)
<1>11. ASSUME NEW t \in Registered', t # n
       PROVE  t \in Registered \ Replaced
  <2>1. PICK ep \in Endpoint : t = sessions'[ep] /\ t # None
    BY <1>11, ZenonT(30) DEF Registered
  <2>2. t = ss[ep]
    BY <1>6, <1>11, <2>1, ZenonT(30)
  <2> QED BY <1>3, <2>1, <2>2, ZenonT(30) DEF Registered
<1>12. n \in Registered'
  BY <1>0, <1>6, <1>7, ZenonT(30) DEF Registered
<1> QED BY <1>7, <1>8, <1>9, <1>10, <1>11, <1>12, ZenonT(30)

(* Every other step leaves fewer or the same sessions in the table.            *)
LEMMA OtherRegistered ==
    ASSUME TableInv, [Next]_vars, ~CreateSession
    PROVE  Registered' \subseteq Registered
<1>1. \A ep \in Endpoint : sessions'[ep] \in {None, sessions[ep]}
  BY OtherStepsShrink DEF Shrinks
<1> QED BY <1>1, ZenonT(30) DEF Registered

(* A session enters the table only with a salt, hence with traffic keys, that  *)
(* no other live session there has, for any number of sessions.                *)
THEOREM SaltsDistinctOnEntryHolds == Spec => SaltsDistinctOnEntry
<1> DEFINE Entry == \A s \in Registered' \ Registered : \A t \in Registered' \ {s} :
                       Alive(t)' => sess'[s].salt # sess'[t].salt
<1>1. TableInv /\ [Next]_vars => [Entry]_vars
  <2> SUFFICES ASSUME TableInv, [Next]_vars PROVE Entry
    BY ZenonT(30)
  <2>1. CASE CreateSession
    <3> SUFFICES ASSUME NEW s \in Registered' \ Registered, NEW t \in Registered' \ {s},
                        Alive(t)'
                 PROVE  sess'[s].salt # sess'[t].salt
      OBVIOUS
    <3>1. s = Len(sess) + 1 /\ t \in Registered \ Replaced
      BY <2>1, CreateEntry, ZenonT(30)
    <3>2. sess'[s].salt = pending.salt /\ sess'[t] = sess[t] /\ sess[t].ep # pending.ep
      BY <2>1, <3>1, CreateEntry, ZenonT(30)
    <3>3. Alive(t)
      BY <3>2, ZenonT(30) DEF Alive
    <3>4. ~DuplicateSalt
      BY <2>1 DEF CreateSession, Refused
    <3> QED BY <3>1, <3>2, <3>3, <3>4, ZenonT(30) DEF DuplicateSalt
  <2>2. CASE ~CreateSession
    BY <2>2, OtherRegistered, ZenonT(30)
  <2> QED BY <2>1, <2>2, ZenonT(30)
<1> QED BY <1>1, TableInvHolds, PTL DEF Spec, SaltsDistinctOnEntry

-----------------------------------------------------------------------------
(* Leaving the table. *)

(* Unregister takes out the sessions in gone and nobody else. *)
LEMMA OnlyGoneLeave ==
    ASSUME Maps(sessions, connections, sess), NEW gone, NEW objects, Unregister(gone, objects),
           NEW ep \in Endpoint, sessions[ep] # None, sessions'[ep] # sessions[ep]
    PROVE  sessions[ep] \in gone
BY ZenonT(30) DEF Unregister, Without

(* Unregister ends nobody's handshake or forwarding. *)
LEMMA UnregisterKeepsPhases ==
    ASSUME sess \in Seq(SessionObject), NEW gone, Unregister(gone, sess)
    PROVE  \A t \in DOMAIN sess : sess'[t].phase = sess[t].phase
<1>1. sess' = Retire(sess, gone)
  BY ZenonT(30) DEF Unregister
<1>2. ASSUME NEW t \in DOMAIN sess
      PROVE  Retire(sess, gone)[t].phase = sess[t].phase
  BY RetireFacts, SMTT(20)
<1> QED BY <1>1, <1>2, ZenonT(30)

(* Only the incumbent of its endpoint is replaced by a datagram. *)
LEMMA ReplacedIsIncumbent ==
    \A s \in Replaced : s = sessions[pending.ep] /\ s # None
BY ZenonT(30) DEF Replaced, Incumbent

(* A handler that closes its connection takes out only its own session, and    *)
(* ends it.                                                                    *)
LEMMA CloseLeaves ==
    ASSUME Maps(sessions, connections, sess), NEW s \in DOMAIN sess, NEW objects,
           NoNewRunner(sess, objects), objects[s].phase = "over",
           CloseConnection(s, objects),
           NEW ep \in Endpoint, sessions[ep] # None, sessions'[ep] # sessions[ep]
    PROVE  sessions[ep] = s /\ sess'[s].phase = "over"
<1>1. Unregister({s}, objects)
  BY ZenonT(30) DEF CloseConnection
<1>2. sessions[ep] = s
  BY <1>1, OnlyGoneLeave, SMTT(20)
<1>3. sess'[s].phase = objects[s].phase
  BY <1>1, RetireFacts, SMTT(20) DEF Unregister, NoNewRunner
<1> QED BY <1>2, <1>3, ZenonT(30)

(* The same for every handler of a session. *)
LEMMA StrandLeaves ==
    ASSUME Maps(sessions, connections, sess), NEW s \in DOMAIN sess, Strand(s),
           NEW ep \in Endpoint, sessions[ep] # None, sessions'[ep] # sessions[ep]
    PROVE  sessions[ep] = s /\ sess'[s].phase = "over" /\ sess[s].phase # "over"
<1> DEFINE ended == [sess EXCEPT ![s].phase = "over"]
           closed == [sess EXCEPT ![s].phase = "over", ![s].socket = "closed"]
<1>0. sess \in Seq(SessionObject) /\ sess[s] \in SessionObject
  BY SessionNumbers DEF Maps
<1>1. NoNewRunner(sess, ended) /\ NoNewRunner(sess, closed)
  BY <1>0, HandlerObjects, ZenonT(30)
<1>2. ended[s].phase = "over" /\ closed[s].phase = "over"
  BY <1>0, ZenonT(30) DEF SessionObject
<1>3. /\ \/ CloseConnection(s, ended)
         \/ CloseConnection(s, closed)
      /\ sess[s].phase \in {"request", "connecting", "connected", "forwarding"}
  BY ZenonT(30) DEF Strand, Revive, StopRuns, CloseRuns, ShutDown, GoIdle, RequestArrives,
         ConnectCompletes, StartForwarding, RequestFails, ConnectFails, ForwardingEnds
<1> HIDE DEF ended, closed
<1>4. sessions[ep] = s /\ sess'[s].phase = "over"
  BY <1>1, <1>2, <1>3, CloseLeaves, ZenonT(30)
<1> QED BY <1>3, <1>4, ZenonT(30)

(* A live session leaves the table only by its own handlers, as a stalled      *)
(* handshake, when the server stops, or for an authenticated datagram from its *)
(* endpoint, however many sessions there are.                                  *)
THEOREM LiveSessionKeptHolds == Spec => LiveSessionKept
<1> DEFINE Leaves(ep, s) ==
              \/ sess'[s].phase = "over" /\ sess[s].phase # "over"
              \/ /\ s \in Handshaking
                 /\ UNCHANGED <<auth, pending>>
                 /\ \A t \in DOMAIN sess : sess'[t].phase = sess[t].phase
              \/ stopped
              \/ pending # None /\ pending.ep = ep
           Kept == \A ep \in Endpoint :
                      LET s == sessions[ep] IN
                      s # None /\ Alive(s) /\ sessions'[ep] # s => Leaves(ep, s)
<1>1. TableInv /\ [Next]_vars => [Kept]_vars
  <2> SUFFICES ASSUME TableInv, [Next]_vars, NEW ep \in Endpoint, sessions[ep] # None,
                      Alive(sessions[ep]), sessions'[ep] # sessions[ep]
               PROVE  Leaves(ep, sessions[ep])
    BY ZenonT(30)
  <2> HIDE DEF Leaves
  <2>0. /\ Maps(sessions, connections, sess) /\ sess \in Seq(SessionObject)
        /\ \A e \in Endpoint : sessions[e] = sessions[ep] => e = ep
    BY ZenonT(30) DEF TableInv, Maps
  <2>1. \A e \in Endpoint, salt \in Salt, genuine \in BOOLEAN : ~Authenticate(e, salt, genuine)
    <3> SUFFICES ASSUME NEW e \in Endpoint, NEW salt \in Salt, NEW genuine \in BOOLEAN,
                        Authenticate(e, salt, genuine)
                 PROVE  FALSE
      OBVIOUS
    <3>1. sessions[ep] \in IF LiveIncumbent(e) THEN {} ELSE {Incumbent(e)} \ {None}
      BY <2>0, OnlyGoneLeave, ZenonT(30) DEF Authenticate
    <3>2. sessions[ep] = Incumbent(e) /\ ~LiveIncumbent(e)
      BY <3>1, ZenonT(30)
    <3>3. e = ep
      BY <2>0, <3>2, ZenonT(30) DEF Incumbent
    <3> QED BY <3>2, <3>3, ZenonT(30) DEF LiveIncumbent, Incumbent
  <2>2. ASSUME RefuseSession
        PROVE  pending # None /\ pending.ep = ep
    <3>1. pending # None /\ pending.ep \in Endpoint
      BY <2>2, ZenonT(30) DEF RefuseSession, TableInv
    <3>2. sessions[ep] \in Replaced
      BY <2>0, <2>2, OnlyGoneLeave, ZenonT(30) DEF RefuseSession
    <3>3. sessions[ep] = sessions[pending.ep]
      BY <3>2, ReplacedIsIncumbent, ZenonT(30)
    <3> QED BY <2>0, <3>1, <3>3, ZenonT(30)
  <2>3. ASSUME CreateSession
        PROVE  pending # None /\ pending.ep = ep
    <3>1. pending # None /\ pending.ep \in Endpoint
      BY <2>3, ZenonT(30) DEF CreateSession, TableInv
    <3>2. sessions' = [Without(sessions, Replaced) EXCEPT ![pending.ep] = Len(sess) + 1]
      BY <2>3, ZenonT(30) DEF CreateSession
    <3>3. ep = pending.ep \/ sessions[ep] \in Replaced
      BY <3>2, ZenonT(30) DEF Without
    <3>4. sessions[ep] \in Replaced => sessions[ep] = sessions[pending.ep]
      BY ReplacedIsIncumbent, ZenonT(30)
    <3> QED BY <2>0, <3>1, <3>3, <3>4, ZenonT(30)
  <2>4. ASSUME NEW s \in DOMAIN sess, Strand(s)
        PROVE  sess'[sessions[ep]].phase = "over" /\ sess[sessions[ep]].phase # "over"
    <3>1. sessions[ep] = s /\ sess'[s].phase = "over" /\ sess[s].phase # "over"
      BY <2>0, <2>4, StrandLeaves, ZenonT(30)
    <3> QED BY <3>1, ZenonT(30)
  <2>5. ASSUME NEW stalled \in SUBSET Handshaking, Sweep(stalled)
        PROVE  /\ sessions[ep] \in Handshaking
               /\ UNCHANGED <<auth, pending>>
               /\ \A t \in DOMAIN sess : sess'[t].phase = sess[t].phase
    <3>1. /\ Unregister({s \in Registered : ~Alive(s)} \cup stalled, sess)
          /\ UNCHANGED <<auth, pending>>
      BY <2>5, ZenonT(30) DEF Sweep
    <3>2. sessions[ep] \in {s \in Registered : ~Alive(s)} \cup stalled
      BY <2>0, <3>1, OnlyGoneLeave, ZenonT(30)
    <3>3. sessions[ep] \in Handshaking
      BY <3>2, ZenonT(30)
    <3>4. \A t \in DOMAIN sess : sess'[t].phase = sess[t].phase
      BY <2>0, <3>1, UnregisterKeepsPhases, ZenonT(30)
    <3> QED BY <3>1, <3>3, <3>4, ZenonT(30)
  <2>6. Drain => stopped
    BY ZenonT(30) DEF Drain
  <2>7. ~(AbandonDatagram \/ BeginStop \/ Tick \/ UNCHANGED vars)
    BY ZenonT(30) DEF AbandonDatagram, BeginStop, Tick, vars
  <2>8. \A e \in Endpoint, salt \in Salt : ~RouteToSession(e, salt)
    BY <2>7, ZenonT(30) DEF RouteToSession
  <2>9. \/ RefuseSession \/ CreateSession \/ Drain
        \/ \E s \in DOMAIN sess : Strand(s)
        \/ \E stalled \in SUBSET Handshaking : Sweep(stalled)
    BY <2>1, <2>7, <2>8, ZenonT(30) DEF Next, ReceivePath
  <2> QED BY <2>2, <2>3, <2>4, <2>5, <2>6, <2>9, ZenonT(30) DEF Leaves
<1> QED BY <1>1, TableInvHolds, PTL DEF Spec, LiveSessionKept

-----------------------------------------------------------------------------
(* The limits of the table and of the authentication throttle. *)

Failing(window) == {a \in Addr : window.failures[a] > 0}

(* An authentication window within its limits. *)
WindowOK(window) ==
    /\ window \in [start : Nat, attempts : Nat, failures : [Addr -> Nat]]
    /\ window.attempts <= MaxAttempts
    /\ \A a \in Addr : window.failures[a] <= MaxFailures
    /\ IsFiniteSet(Failing(window)) /\ Cardinality(Failing(window)) <= MaxTracked

(* The table and the window within their limits, the flags Boolean. *)
LimitInv ==
    /\ WindowOK(auth)
    /\ Cardinality(Registered) <= MaxSessions
    /\ stopped \in BOOLEAN /\ drained \in BOOLEAN

(* The empty window. *)
LEMMA FreshWindow ==
    ASSUME NEW t \in Nat
    PROVE  WindowOK([start |-> t, attempts |-> 0, failures |-> [a \in Addr |-> 0]])
<1> DEFINE w == [start |-> t, attempts |-> 0, failures |-> [a \in Addr |-> 0]]
<1>1. w \in [start : Nat, attempts : Nat, failures : [Addr -> Nat]]
  OBVIOUS
<1>2. w.attempts <= MaxAttempts /\ \A a \in Addr : w.failures[a] <= MaxFailures
  BY ConstantsAssumption, SMTT(20)
<1>3. Failing(w) = {}
  BY SMTT(20) DEF Failing
<1>4. IsFiniteSet(Failing(w)) /\ Cardinality(Failing(w)) <= MaxTracked
  BY <1>3, FS_EmptySet, ConstantsAssumption, SMTT(20)
<1> QED BY <1>1, <1>2, <1>4, ZenonT(30) DEF WindowOK

(* The window restarts or goes on. *)
LEMMA RolledWindowOK ==
    ASSUME WindowOK(auth), now \in Nat
    PROVE  WindowOK(RolledWindow)
BY FreshWindow DEF RolledWindow

(* An admitted attempt and, where it fails, its failure stay within the        *)
(* limits.                                                                     *)
LEMMA AttemptedOK ==
    ASSUME WindowOK(auth), now \in Nat, NEW a \in Addr, NEW genuine \in BOOLEAN,
           ThrottleAdmits(a)
    PROVE  WindowOK(Attempted(a, genuine))
<1> DEFINE w == RolledWindow
           c == [w EXCEPT !.attempts = @ + 1]
           f == [c EXCEPT !.failures[a] = @ + 1]
<1>1. WindowOK(w) /\ w.failures[a] < MaxFailures /\ w.attempts < MaxAttempts
  BY RolledWindowOK DEF ThrottleAdmits
<1>2. Attempted(a, genuine) \in {c, f}
      /\ (Attempted(a, genuine) # c => c.failures[a] > 0 \/ Cardinality(Failing(c)) < MaxTracked)
  BY DEF Attempted, CountFailure, Failing
<1> HIDE DEF w
<1>3. /\ c \in [start : Nat, attempts : Nat, failures : [Addr -> Nat]]
      /\ c.attempts = w.attempts + 1 /\ c.failures = w.failures
  BY <1>1, SMTT(20) DEF WindowOK
<1> HIDE DEF c
<1>4. c.attempts <= MaxAttempts
  BY <1>1, <1>3, ConstantsAssumption, SMTT(20) DEF WindowOK
<1>5. WindowOK(c)
  BY <1>1, <1>3, <1>4, ZenonT(30) DEF WindowOK, Failing
<1>6. ASSUME c.failures[a] > 0 \/ Cardinality(Failing(c)) < MaxTracked
      PROVE  WindowOK(f)
  <2>1. /\ f.start = c.start /\ f.attempts = c.attempts
        /\ f.failures = [c.failures EXCEPT ![a] = @ + 1]
        /\ f \in [start : Nat, attempts : Nat, failures : [Addr -> Nat]]
    <3>1. c.failures \in [Addr -> Nat]
      BY <1>3, ZenonT(30)
    <3>2. [c.failures EXCEPT ![a] = @ + 1] \in [Addr -> Nat]
      BY <3>1, SMTT(20)
    <3>3. f = [c EXCEPT !.failures = [c.failures EXCEPT ![a] = @ + 1]]
      BY <1>3, <3>1, ZenonT(30)
    <3> HIDE DEF f
    <3> QED BY <1>3, <3>2, <3>3, ZenonT(30)
  <2>2. c.failures \in [Addr -> Nat] /\ c.failures[a] < MaxFailures
    BY <1>1, <1>3, ZenonT(30)
  <2>3. \A b \in Addr : f.failures[b] = IF b = a THEN c.failures[a] + 1 ELSE c.failures[b]
    BY <2>1, <2>2, ZenonT(30)
  <2> HIDE DEF f
  <2>4. \A b \in Addr : f.failures[b] <= MaxFailures
    BY <1>5, <2>2, <2>3, ConstantsAssumption, SMTT(20) DEF WindowOK
  <2>5. Failing(f) = Failing(c) \cup {a}
    BY <2>2, <2>3, SMTT(20) DEF Failing
  <2>6. IsFiniteSet(Failing(c)) /\ Cardinality(Failing(c)) <= MaxTracked
    BY <1>5, ZenonT(30) DEF WindowOK
  <2>7. IsFiniteSet(Failing(f)) /\ Cardinality(Failing(c)) \in Nat
        /\ Cardinality(Failing(f)) = IF a \in Failing(c) THEN Cardinality(Failing(c))
                                     ELSE Cardinality(Failing(c)) + 1
    BY <2>5, <2>6, FS_AddElement, FS_CardinalityType, SMTT(20)
  <2>8. a \in Failing(c) \/ Cardinality(Failing(c)) < MaxTracked
    BY <1>6, ZenonT(30) DEF Failing
  <2>9. Cardinality(Failing(f)) <= MaxTracked
    BY <2>6, <2>7, <2>8, ConstantsAssumption, SMTT(20)
  <2> QED BY <1>5, <2>1, <2>4, <2>7, <2>9, ZenonT(30) DEF WindowOK
<1> QED BY <1>2, <1>5, <1>6, ZenonT(30)

(* The table holds finitely many sessions, each of them created. *)
LEMMA RegisteredFinite ==
    ASSUME TableInv
    PROVE  Registered \subseteq DOMAIN sess /\ IsFiniteSet(Registered)
<1>1. Len(sess) \in Nat /\ DOMAIN sess = 1 .. Len(sess)
  BY SessionNumbers, ZenonT(30) DEF TableInv, Maps
<1>2. Registered \subseteq DOMAIN sess
  BY DEF TableInv, Maps, Registered
<1>3. IsFiniteSet(1 .. Len(sess))
  BY <1>1, FS_Interval, SMTT(20)
<1> QED BY <1>1, <1>2, <1>3, FS_Subset, ZenonT(30)

(* No step exceeds a limit: the cap is checked again under the second lock,    *)
(* after the session to be replaced was taken out.                             *)
LEMMA LimitInvStep == TableInv /\ LimitInv /\ [Next]_vars => LimitInv'
<1> SUFFICES ASSUME TableInv, LimitInv, [Next]_vars PROVE LimitInv'
  OBVIOUS
<1>0. IsFiniteSet(Registered) /\ WindowOK(auth) /\ Cardinality(Registered) <= MaxSessions
      /\ now \in Nat
  BY RegisteredFinite DEF LimitInv, TableInv
<1>1. Cardinality(Registered') <= MaxSessions
  <2>1. CASE CreateSession
    <3>1. Registered' = (Registered \ Replaced) \cup {Len(sess) + 1}
          /\ Len(sess) + 1 \notin Registered
      BY <2>1, CreateEntry, ZenonT(30)
    <3>2. ~(Cardinality(Registered \ Replaced) >= MaxSessions)
      BY <2>1, ZenonT(30) DEF CreateSession, Refused
    <3>3. IsFiniteSet(Registered \ Replaced)
      BY <1>0, FS_Subset, ZenonT(30)
    <3>4. Cardinality(Registered \ Replaced) \in Nat
      BY <3>3, FS_CardinalityType, ZenonT(30)
    <3>5. Cardinality((Registered \ Replaced) \cup {Len(sess) + 1})
             = Cardinality(Registered \ Replaced) + 1
      BY <3>1, <3>3, FS_AddElement, ZenonT(30)
    <3> QED BY <3>1, <3>2, <3>4, <3>5, ConstantsAssumption, SMTT(20)
  <2>2. CASE ~CreateSession
    <3>1. Registered' \subseteq Registered
      BY <2>2, OtherRegistered, ZenonT(30)
    <3>2. Cardinality(Registered') <= Cardinality(Registered) /\ IsFiniteSet(Registered')
      BY <1>0, <3>1, FS_Subset, ZenonT(30)
    <3>3. Cardinality(Registered') \in Nat /\ Cardinality(Registered) \in Nat
      BY <1>0, <3>2, FS_CardinalityType, ZenonT(30)
    <3> QED BY <1>0, <3>2, <3>3, ConstantsAssumption, SMTT(20)
  <2> QED BY <2>1, <2>2, ZenonT(30)
<1>2. WindowOK(auth)'
  <2>1. ASSUME NEW ep \in Endpoint, NEW salt \in Salt, NEW genuine \in BOOLEAN,
               Authenticate(ep, salt, genuine)
        PROVE  WindowOK(auth')
    <3>1. AddrOf[ep] \in Addr
      BY ZenonT(30) DEF Addr
    <3>2. \/ auth' = auth \/ auth' = RolledWindow
          \/ ThrottleAdmits(AddrOf[ep]) /\ auth' = Attempted(AddrOf[ep], genuine)
      BY <2>1 DEF Authenticate
    <3> QED BY <1>0, <3>1, <3>2, RolledWindowOK, AttemptedOK, ZenonT(30)
  <2>2. CASE UNCHANGED auth
    BY <1>0, <2>2
  <2>3. UNCHANGED auth \/ \E ep \in Endpoint, salt \in Salt, genuine \in BOOLEAN :
                             Authenticate(ep, salt, genuine)
    <3>1. \A s \in DOMAIN sess : Strand(s) => UNCHANGED auth
      BY StrandShrinks DEF TableInv, onlySession
    <3> QED BY <3>1, ZenonT(30)
       DEF Next, ReceivePath, RouteToSession, AbandonDatagram, RefuseSession,
                     CreateSession, Sweep, BeginStop, Drain, Tick, vars
  <2>4. WindowOK(auth')
    BY <2>1, <2>2, <2>3
  <2> QED BY <2>4, ZenonT(30) DEF WindowOK, Failing
<1>3. stopped' \in BOOLEAN /\ drained' \in BOOLEAN
  <2>1. stopped' \in {stopped, TRUE} /\ drained' \in {drained, TRUE}
    <3>1. \A s \in DOMAIN sess : Strand(s) => UNCHANGED <<stopped, drained>>
      BY StrandShrinks DEF TableInv, onlySession
    <3> QED BY <3>1, ZenonT(30)
       DEF Next, ReceivePath, RouteToSession, Authenticate, AbandonDatagram,
                     RefuseSession, CreateSession, Sweep, BeginStop, Drain, Tick, vars
  <2> QED BY <2>1, Zenon DEF LimitInv
<1> QED BY <1>1, <1>2, <1>3, ZenonT(30) DEF LimitInv

(* The table never holds more than MAX_CONCURRENT_SESSIONS sessions, a window  *)
(* never more attempts, failures or tracked addresses than their limits,       *)
(* whatever the limits are.                                                    *)
THEOREM BoundedHolds == Spec => []Bounded
<1>1. Init => LimitInv
  <2> SUFFICES ASSUME Init PROVE LimitInv
    OBVIOUS
  <2>1. WindowOK(auth)
    BY FreshWindow, ZenonT(30) DEF Init
  <2>2. Registered = {}
    BY DEF Init, Registered
  <2>3. Cardinality(Registered) <= MaxSessions
    BY <2>2, FS_EmptySet, ConstantsAssumption, SMTT(20)
  <2> QED BY <2>1, <2>3, ZenonT(30) DEF Init, LimitInv
<1>2. TableInv /\ LimitInv => Bounded
  <2> SUFFICES ASSUME TableInv, LimitInv PROVE Bounded
    BY ZenonT(30)
  <2>1. /\ Len(sess) \in Nat /\ DOMAIN sess = 1 .. Len(sess) /\ Len(sess) <= MaxCreated
        /\ \A s \in DOMAIN sess : sess[s] \in SessionObject
    BY SessionNumbers, ZenonT(30) DEF TableInv, Maps
  <2>2. DOMAIN sess \subseteq Session
    BY <2>1, TombstoneAssumption, SMTT(20) DEF Session
  <2>3. /\ sessions \in [Endpoint -> Session \cup {None}]
        /\ connections \in [Endpoint -> Session \cup {None}]
    BY <2>2, ZenonT(30) DEF TableInv, Maps
  <2>4. /\ auth.start \in Nat /\ auth.attempts \in Nat /\ auth.failures \in [Addr -> Nat]
        /\ auth.attempts <= MaxAttempts /\ \A a \in Addr : auth.failures[a] <= MaxFailures
        /\ Cardinality({a \in Addr : auth.failures[a] > 0}) <= MaxTracked
    BY ZenonT(30) DEF LimitInv, WindowOK, Failing
  <2>5. TypeOK
    BY <2>1, <2>3, <2>4, ZenonT(30) DEF TypeOK, TableInv, LimitInv
  <2> QED BY <2>4, <2>5 DEF Bounded, LimitInv
<1> QED BY <1>1, <1>2, LimitInvStep, TableInvHolds, PTL DEF Spec

-----------------------------------------------------------------------------
(* Accepted salts. *)

(* Hence no session of the server is opened with a salt that was accepted      *)
(* within the TTL, unless MAX_SALT_TOMBSTONES later ones made room.            *)
THEOREM ServerSaltNotReaccepted == Spec => []SaltNotReaccepted
BY TombstonesRespectedHolds, SaltsNotReaccepted, PTL DEF TombstonesRespected
=============================================================================
