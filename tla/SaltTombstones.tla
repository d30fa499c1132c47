--------------------------- MODULE SaltTombstones ---------------------------
(***************************************************************************)
(* The server's memory of accepted session salts (server.cpp): a map from  *)
(* salt to expiry and a queue in order of insertion, both changed only     *)
(* under the table's write lock.  A salt whose tombstone has not expired   *)
(* opens no session; at the cap the oldest tombstones make room.           *)
(***************************************************************************)
EXTENDS Integers, Sequences, FiniteSets, Functions

CONSTANTS
    Salt,              \* session salts
    MaxTombstones,     \* MAX_SALT_TOMBSTONES
    TTL,               \* SALT_TOMBSTONE_TTL_SEC, in ticks of the clock
    MaxCreated,        \* bound: sessions accepted in a run
    MaxTime            \* bound: length of a run, in ticks

ASSUME TombstoneAssumption ==
    /\ MaxTombstones \in Nat \ {0}
    /\ TTL \in Nat \ {0}
    /\ MaxCreated \in Nat
    /\ MaxTime \in Nat

VARIABLES
    tombExpiry,     \* salt_tombstones_: salt -> expiry, 0 when absent
    tombOrder,      \* salt_tombstone_order_
    now,            \* the steady clock
    accepted        \* history: [salt, at] of every session created, in order

tombstoneVars == <<tombExpiry, tombOrder, now, accepted>>

Tombstoned(salt) == tombExpiry[salt] > now

Least(S) == CHOOSE m \in S : \A n \in S : m <= n

(* The order queue after popping its front while that front has no map entry  *)
(* or an expired one.                                                         *)
PrunedOrder ==
    LET kept == {i \in DOMAIN tombOrder : Tombstoned(tombOrder[i])}
    IN  IF kept = {} THEN <<>> ELSE SubSeq(tombOrder, Least(kept), Len(tombOrder))

PrunedExpiry ==
    [s \in Salt |-> IF s \in Range(tombOrder) \ Range(PrunedOrder) THEN 0 ELSE tombExpiry[s]]

PruneSaltTombstones ==
    /\ tombOrder' = PrunedOrder
    /\ tombExpiry' = PrunedExpiry

(* The map loses its oldest entry, the order queue does not. *)
RememberSaltKeepsOrder(salt) ==
    LET evicted == IF Len(PrunedOrder) >= MaxTombstones THEN {Head(PrunedOrder)} ELSE {}
    IN  /\ tombOrder' = Append(PrunedOrder, salt)
        /\ tombExpiry' = [s \in Salt |-> IF s = salt THEN now + TTL
                                         ELSE IF s \in evicted THEN 0
                                         ELSE PrunedExpiry[s]]

(* The two containers hold the same salts (TombstonesInStep), so the map's     *)
(* size is the queue's length and every pop of the loop makes room.            *)
RememberSalt(salt) ==
    LET excess == IF Len(PrunedOrder) >= MaxTombstones
                  THEN Len(PrunedOrder) - MaxTombstones + 1 ELSE 0
        room == SubSeq(PrunedOrder, excess + 1, Len(PrunedOrder))
    IN  /\ tombOrder' = Append(room, salt)
        /\ tombExpiry' = [s \in Salt |-> IF s = salt THEN now + TTL
                                         ELSE IF s \in Range(room) THEN PrunedExpiry[s]
                                         ELSE 0]

-----------------------------------------------------------------------------
TombstoneInit ==
    /\ tombExpiry = [s \in Salt |-> 0]
    /\ tombOrder = <<>>
    /\ now = 0
    /\ accepted = <<>>

(* A session with this salt is created (see CreateSession). *)
AcceptSalt(salt) ==
    /\ ~Tombstoned(salt)
    /\ Len(accepted) < MaxCreated
    /\ RememberSalt(salt)
    /\ accepted' = Append(accepted, [salt |-> salt, at |-> now])
    /\ UNCHANGED now

(* The periodic sweep. *)
SweepTombstones ==
    /\ PruneSaltTombstones
    /\ UNCHANGED <<now, accepted>>

AdvanceClock ==
    /\ now < MaxTime
    /\ now' = now + 1
    /\ UNCHANGED <<tombExpiry, tombOrder, accepted>>

TombstoneNext ==
    \/ \E salt \in Salt : AcceptSalt(salt)
    \/ SweepTombstones
    \/ AdvanceClock

TombstoneSpec == TombstoneInit /\ [][TombstoneNext]_tombstoneVars

-----------------------------------------------------------------------------
(* Properties *)

(* Map, queue, clock and history have their types. *)
TombstoneTypeOK ==
    /\ tombExpiry \in [Salt -> Nat]
    /\ tombOrder \in Seq(Salt)
    /\ now \in Nat
    /\ accepted \in Seq([salt : Salt, at : Nat])

(* The tombstone map and its order queue hold the same salts, each once, in    *)
(* order of expiry, and no more of them than MAX_SALT_TOMBSTONES: what makes   *)
(* popping the front a correct expiry sweep and a correct choice of the        *)
(* oldest entry.                                                               *)
TombstonesInStep ==
    /\ IsInjective(tombOrder)
    /\ Range(tombOrder) = {s \in Salt : tombExpiry[s] # 0}
    /\ \A i, j \in DOMAIN tombOrder :
          i <= j => tombExpiry[tombOrder[i]] <= tombExpiry[tombOrder[j]]
    /\ Len(tombOrder) <= MaxTombstones

(* A salt is accepted again only after its tombstone lived for the whole TTL,  *)
(* or after more than MAX_SALT_TOMBSTONES sessions were accepted since: a      *)
(* repeated first datagram cannot open a second session before that, wherever  *)
(* it comes from and whatever became of the first session.                     *)
SaltNotReaccepted ==
    \A i, j \in DOMAIN accepted :
        i < j /\ accepted[i].salt = accepted[j].salt
            => \/ accepted[j].at >= accepted[i].at + TTL
               \/ j - i > MaxTombstones
=============================================================================
