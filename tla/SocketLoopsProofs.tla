------------------------- MODULE SocketLoopsProofs -------------------------
(***************************************************************************)
(* The loops that serve a socket keep it served, for any number of slots,  *)
(* any batch limits and any number of arrivals and failures.               *)
(***************************************************************************)
EXTENDS SocketLoops, TLAPS

Op == {"none", "arming", "waiting", "data", "empty", "refused", "error", "aborted"}

Busy == [slot : Nat, doing : {"nothing", "check", "route", "park", "arm"},
         held : Nat, failed : BOOLEAN]

Loop ==
    [running : BOOLEAN,
     resolver : {"none", "pending", "ok", "failed", "aborted"},
     op : [Slot -> Op],
     parked : [Slot -> BOOLEAN],
     backoff : BOOLEAN,
     timer : {"off", "armed", "expired", "cancelled"},
     busy : Busy,
     stop : {"no", "queued", "done"},
     halted : BOOLEAN,
     key : BOOLEAN,
     routed : Nat,
     stacked : BOOLEAN,
     failures : [Slot -> Nat]]

(* A slot is in one place: its operation, the handler at work, or waiting for  *)
(* the timer; where the loop has one slot, the timer is off unless that slot   *)
(* waits for it.  A slot that has failed is not armed before the timer fired,  *)
(* and a running loop has no slot that waits for nothing.                      *)
GoodSlot(s, i) ==
    /\ s.op[i] # "none" \/ s.busy.slot = i
          => /\ s.parked[i] = FALSE /\ s.failures[i] = 0
             /\ kind # "slots" => s.timer = "off"
    /\ s.op[i] # "none" => s.busy.slot # i
    /\ s.op[i] = "aborted" => s.running = FALSE
    /\ s.failures[i] <= 1
    /\ s.running = TRUE /\ s.halted = FALSE /\ s.op[i] = "none" /\ s.busy.slot # i
          => s.timer \in {"armed", "expired"} /\ (kind = "slots" => s.parked[i] = TRUE)

(* The flags: a loop that runs has its key and is not being stopped; the       *)
(* resolver is at work only before the client's loop begins.                   *)
GoodFlags(s) ==
    /\ s.stacked = FALSE
    /\ s.busy.doing = "nothing" => s.busy = Idle
    /\ s.busy.doing # "nothing" => s.busy.slot \in Slot
    /\ s.busy.doing = "route" => s.key = TRUE
    /\ s.running = TRUE => s.key = TRUE /\ s.stop = "no" /\ s.timer # "cancelled"
    /\ kind = "accept" /\ s.halted = FALSE => s.key = TRUE /\ s.stop = "no"
    /\ kind \in Server /\ s.running = TRUE => (s.backoff = TRUE <=> s.timer # "off")
    /\ s.resolver # "none" => /\ kind = "accept" /\ s.running = FALSE /\ s.timer = "off"
                              /\ s.busy = Idle
                              /\ s.op[1] = "none" /\ s.failures[1] = 0

Good(s) == s \in Loop /\ GoodFlags(s) /\ \A i \in Slot : GoodSlot(s, i)

LoopInv ==
    /\ kind \in {"slots", "drain", "session", "accept"}
    /\ kernel \in Nat
    /\ Good(x)

(* The slots are numbered from one; zero is nobody's. *)
LEMMA SlotFacts ==
    ASSUME kind \in {"slots", "drain", "session", "accept"}
    PROVE  /\ Slot \subseteq Nat \ {0} /\ 1 \in Slot
           /\ kind # "slots" => Slot = {1}
BY LoopAssumption DEF Slot, SlotsOf

(* The invariant gives the properties. *)
LEMMA LoopInvGives == LoopInv => StaysArmed /\ NoStackedReceive /\ Paced /\ KeyHeldWhileRouting
<1> SUFFICES ASSUME LoopInv PROVE StaysArmed /\ NoStackedReceive /\ Paced /\ KeyHeldWhileRouting
  OBVIOUS
<1>0. /\ x.running \in BOOLEAN /\ x.halted \in BOOLEAN /\ x.backoff \in BOOLEAN
      /\ x.key \in BOOLEAN /\ x.stacked \in BOOLEAN
      /\ \A i \in Slot : x.parked[i] \in BOOLEAN
  BY DEF LoopInv, Good, Loop
<1>1. StaysArmed
  BY <1>0 DEF LoopInv, Good, GoodFlags, GoodSlot, StaysArmed
<1>2. NoStackedReceive
  BY <1>0 DEF LoopInv, Good, GoodFlags, GoodSlot, NoStackedReceive
<1>3. Paced
  BY DEF LoopInv, Good, GoodSlot, Paced
<1>4. KeyHeldWhileRouting
  BY <1>0 DEF LoopInv, Good, GoodFlags, KeyHeldWhileRouting
<1> QED BY <1>1, <1>2, <1>3, <1>4

(* start() *)
LEMMA LoopInvInit == Init => LoopInv
<1> SUFFICES ASSUME Init PROVE LoopInv
  OBVIOUS
<1>0. kind \in {"slots", "drain", "session", "accept"} /\ kernel = 0 /\ x = Start(kind)
  BY DEF Init
<1>1. Slot \subseteq Nat \ {0} /\ 1 \in Slot
  BY <1>0, SlotFacts
<1>2. x \in Loop
  BY <1>0 DEF Start, Loop, Op, Busy, Idle, Slot
<1>3. GoodFlags(x)
  BY <1>0, <1>1, Zenon DEF Start, GoodFlags, Idle, Slot, Server
<1>4. ASSUME NEW i \in Slot PROVE GoodSlot(x, i)
  <2>1. /\ x.parked[i] = FALSE /\ x.failures[i] = 0 /\ x.timer = "off"
        /\ x.busy.slot = 0 /\ (kind = "accept" => x.running = FALSE)
    BY <1>0, Zenon DEF Start, Idle, Slot
  <2>2. x.op[i] = IF kind \in Server THEN "arming" ELSE IF kind = "session" THEN "waiting" ELSE "none"
    BY <1>0 DEF Start, Slot
  <2>3. i # 0
    BY <1>1
  <2> QED BY <1>0, <2>1, <2>2, <2>3 DEF GoodSlot, Server
<1> QED BY <1>0, <1>2, <1>3, <1>4 DEF LoopInv, Good

-----------------------------------------------------------------------------
(* A slot that arming puts in order, whatever the loop's state. *)
Armable(s, i) ==
    /\ s.op[i] \in {"none", "arming"} /\ s.busy.slot # i /\ s.failures[i] = 0
    /\ kind # "slots" => s.timer = "off"

LEMMA ArmGood ==
    ASSUME kind \in {"slots", "drain", "session", "accept"},
           NEW s \in Loop, NEW T \in SUBSET Slot,
           GoodFlags(s), s.resolver = "none", s.running = TRUE,
           \A i \in T : Armable(s, i),
           \A i \in Slot \ T : GoodSlot(s, i)
    PROVE  Good(ArmAll(s, T))
<1> DEFINE r == ArmAll(s, T)
           o == [i \in Slot |-> IF i \in T THEN "waiting" ELSE s.op[i]]
           q == [i \in Slot |-> s.parked[i] /\ i \notin T]
<1>a. /\ o \in [Slot -> Op]
      /\ \A i \in T : o[i] = "waiting"
      /\ \A i \in Slot \ T : o[i] = s.op[i]
  BY DEF Loop, Op
<1>b. /\ q \in [Slot -> BOOLEAN]
      /\ \A i \in T : q[i] = FALSE
      /\ \A i \in Slot \ T : q[i] = s.parked[i]
  <2>1. \A i \in Slot : s.parked[i] \in BOOLEAN
    BY DEF Loop
  <2>2. \A i \in Slot : q[i] = (s.parked[i] /\ i \notin T)
    BY Zenon
  <2> QED BY <2>1, <2>2, Zenon
<1>1. r = [s EXCEPT !.op = o, !.parked = q, !.stacked = FALSE]
  <2>1. DOMAIN s.op = Slot /\ DOMAIN s.parked = Slot
    BY DEF Loop
  <2>2. ~(s.stacked \/ \E i \in T : s.op[i] \notin {"none", "arming"})
    BY DEF GoodFlags, Armable
  <2>3. (s.stacked \/ \E i \in T : s.op[i] \notin {"none", "arming"}) = FALSE
    BY <2>2
  <2> QED BY <2>1, <2>3, Zenon DEF ArmAll
<1> HIDE DEF o, q, r
<1>2. /\ r.running = TRUE /\ r.resolver = "none" /\ r.backoff = s.backoff /\ r.timer = s.timer
      /\ r.busy = s.busy /\ r.stop = s.stop /\ r.halted = s.halted /\ r.key = s.key
      /\ r.stacked = FALSE /\ r.failures = s.failures
  BY <1>1 DEF Loop
<1>3. r.op = o /\ r.parked = q
  BY <1>1 DEF Loop
<1>4. r \in Loop
  BY <1>1, <1>a, <1>b, Zenon DEF Loop
<1>5. GoodFlags(r)
  BY <1>2 DEF GoodFlags
<1>6. ASSUME NEW i \in Slot PROVE GoodSlot(r, i)
  <2>1. CASE i \in T
    <3>1. r.op[i] = "waiting" /\ r.parked[i] = FALSE
      BY <1>3, <1>a, <1>b, <2>1
    <3> QED BY <1>2, <2>1, <3>1 DEF Armable, GoodSlot
  <2>2. CASE i \notin T
    <3>1. r.op[i] = s.op[i] /\ r.parked[i] = s.parked[i]
      BY <1>3, <1>a, <1>b, <2>2
    <3> QED BY <1>2, <2>2, <3>1 DEF GoodSlot
  <2> QED BY <2>1, <2>2
<1> QED BY <1>4, <1>5, <1>6 DEF Good, r

LEMMA ParkGood ==
    ASSUME kind \in {"slots", "drain", "session", "accept"},
           NEW s \in Loop, NEW i \in Slot,
           GoodFlags(s), s.resolver = "none", s.busy = Idle,
           s.op[i] = "none", s.failures[i] = 0,
           kind # "slots" => s.timer = "off",
           \A j \in Slot \ {i} : GoodSlot(s, j)
    PROVE  Good(Park(s, i))
<1> DEFINE r == Park(s, i)
           shared == kind \in Server /\ s.backoff = TRUE
           q == [s.parked EXCEPT ![i] = (kind = "slots")]
<1>0. Slot \subseteq Nat \ {0} /\ (kind # "slots" => Slot = {1})
  BY SlotFacts
<1>1. /\ r.running = s.running /\ r.resolver = "none" /\ r.op = s.op
      /\ r.busy = Idle /\ r.stop = s.stop /\ r.halted = s.halted /\ r.key = s.key
      /\ r.stacked = s.stacked
      /\ r.failures = [s.failures EXCEPT ![i] = 1]
      /\ r.parked = q
  BY DEF Park, Loop
<1>2. r.timer = IF shared THEN s.timer ELSE "armed"
  BY DEF Park, Loop
<1>3. /\ shared => r.backoff = TRUE
      /\ ~shared => (r.backoff = TRUE <=> kind \in Server)
  BY Zenon DEF Park, Loop
<1>a. q \in [Slot -> BOOLEAN] /\ (kind = "slots" => q[i] = TRUE)
      /\ \A j \in Slot \ {i} : q[j] = s.parked[j]
  <2>1. s.parked \in [Slot -> BOOLEAN]
    BY DEF Loop
  <2> QED BY <2>1, Zenon
<1>4. r \in Loop
  <2>1. r.failures \in [Slot -> Nat]
    BY <1>1 DEF Loop
  <2>2. r = [s EXCEPT !.failures = r.failures, !.parked = r.parked, !.backoff = r.backoff,
                      !.timer = r.timer]
    BY ZenonT(60) DEF Park, Loop
  <2>3. r.timer \in {"off", "armed", "expired", "cancelled"}
    BY <1>2 DEF Loop
  <2>4. r.backoff \in BOOLEAN
    <3>1. CASE shared
      BY <1>3, <3>1, Zenon
    <3>2. CASE ~shared
      <4>1. CASE kind \in Server
        BY <1>3, <3>2, <4>1, Zenon
      <4>2. CASE kind \notin Server
        <5>1. r.backoff = (kind \in Server)
          BY <3>2 DEF Park, Loop
        <5>2. (kind \in Server) = FALSE
          BY <4>2
        <5> QED BY <5>1, <5>2
      <4> QED BY <4>1, <4>2
    <3> QED BY <3>1, <3>2, Zenon
  <2> HIDE DEF r, q
  <2> QED BY <1>1, <1>a, <2>1, <2>2, <2>3, <2>4, ZenonT(30) DEF Loop
<1> HIDE DEF q, r
<1>5. GoodFlags(r)
  BY <1>1, <1>2, <1>3 DEF GoodFlags, Idle, Loop
<1>6. s.running = TRUE => r.timer \in {"armed", "expired"}
  BY <1>2 DEF GoodFlags, Loop
<1>7. ASSUME NEW j \in Slot PROVE GoodSlot(r, j)
  <2>1. CASE j = i
    <3>1. r.op[i] = "none" /\ r.failures[i] = 1 /\ (kind = "slots" => r.parked[i] = TRUE) /\ r.busy.slot = 0
      BY <1>1, <1>a DEF Loop, Idle
    <3> QED BY <1>0, <1>1, <1>6, <2>1, <3>1 DEF GoodSlot
  <2>2. CASE j # i
    <3>1. r.op[j] = s.op[j] /\ r.failures[j] = s.failures[j] /\ r.parked[j] = s.parked[j]
      BY <1>1, <1>a, <2>2 DEF Loop
    <3>2. kind = "slots"
      BY <1>0, <2>2
    <3> QED BY <1>1, <1>6, <2>2, <3>1, <3>2 DEF GoodSlot
  <2> QED BY <2>1, <2>2, ZenonT(30)
<1> QED BY <1>4, <1>5, <1>7 DEF Good, r

(* An operation moves on, or ends in a loop that no longer runs. *)
LEMMA OpGood ==
    ASSUME kind \in {"slots", "drain", "session", "accept"},
           NEW s, Good(s), NEW i \in Slot, NEW o \in Op \ {"aborted"},
           s.op[i] # "none", o = "none" => s.running = FALSE
    PROVE  Good([s EXCEPT !.op[i] = o])
<1> DEFINE r == [s EXCEPT !.op[i] = o]
<1>0. s \in Loop /\ GoodFlags(s) /\ \A j \in Slot : GoodSlot(s, j)
  BY DEF Good
<1>1. /\ r.running = s.running /\ r.resolver = s.resolver /\ r.backoff = s.backoff
      /\ r.timer = s.timer /\ r.busy = s.busy /\ r.stop = s.stop /\ r.halted = s.halted
      /\ r.key = s.key /\ r.stacked = s.stacked /\ r.failures = s.failures
      /\ r.parked = s.parked
      /\ r.op[i] = o /\ \A j \in Slot \ {i} : r.op[j] = s.op[j]
  BY <1>0 DEF Loop
<1>2. r \in Loop
  BY <1>0, ZenonT(30) DEF Loop
<1> HIDE DEF r
<1>3. s.resolver = "none"
  BY <1>0, SlotFacts DEF GoodFlags
<1>4. GoodFlags(r)
  BY <1>0, <1>1, <1>3, ZenonT(30) DEF GoodFlags
<1>5. ASSUME NEW j \in Slot PROVE GoodSlot(r, j)
  BY <1>0, <1>1 DEF GoodSlot
<1> QED BY <1>2, <1>4, <1>5 DEF Good, r

(* A completion handler begins. *)
LEMMA BeginGood ==
    ASSUME kind \in {"slots", "drain", "session", "accept"},
           NEW s, Good(s), NEW i \in Slot, NEW b \in Busy,
           s.op[i] # "none", s.running = TRUE, s.busy = Idle,
           b.slot = i, b.doing # "nothing"
    PROVE  Good([s EXCEPT !.op[i] = "none", !.busy = b])
<1> DEFINE r == [s EXCEPT !.op[i] = "none", !.busy = b]
<1>0. s \in Loop /\ GoodFlags(s) /\ \A j \in Slot : GoodSlot(s, j)
  BY DEF Good
<1>1. /\ r.running = s.running /\ r.resolver = s.resolver /\ r.backoff = s.backoff
      /\ r.timer = s.timer /\ r.busy = b /\ r.stop = s.stop /\ r.halted = s.halted
      /\ r.key = s.key /\ r.stacked = s.stacked /\ r.failures = s.failures
      /\ r.parked = s.parked
      /\ r.op[i] = "none" /\ \A j \in Slot \ {i} : r.op[j] = s.op[j]
  BY <1>0 DEF Loop
<1>2. r \in Loop
  BY <1>0, ZenonT(30) DEF Loop, Op
<1> HIDE DEF r
<1>3. s.resolver = "none"
  BY <1>0, SlotFacts DEF GoodFlags
<1>4. GoodFlags(r)
  BY <1>0, <1>1, <1>3 DEF GoodFlags
<1>5. ASSUME NEW j \in Slot PROVE GoodSlot(r, j)
  <2>1. s.busy.slot = 0 /\ j # 0
    BY SlotFacts DEF Idle
  <2>2. CASE j = i
    BY <1>0, <1>1, <2>1, <2>2, SMTT(20) DEF GoodSlot
  <2>3. CASE j # i
    BY <1>0, <1>1, <2>1, <2>3 DEF GoodSlot
  <2> QED BY <2>2, <2>3
<1> QED BY <1>2, <1>4, <1>5 DEF Good, r

(* The socket is closed by a loop at rest, which no longer runs. *)
LEMMA CloseGood ==
    ASSUME kind \in {"slots", "drain", "session", "accept"},
           NEW s, Good(s), s.busy = Idle,
           NEW k \in BOOLEAN, NEW h \in BOOLEAN, kind = "accept" => h = TRUE
    PROVE  Good([CloseAll(s) EXCEPT !.running = FALSE, !.stop = "done", !.key = k, !.halted = h])
<1> DEFINE o == [i \in Slot |-> IF s.op[i] = "waiting" THEN "aborted" ELSE s.op[i]]
           t == IF s.timer = "armed" THEN "cancelled" ELSE s.timer
           a == IF s.resolver = "pending" THEN "aborted" ELSE s.resolver
           r == [CloseAll(s) EXCEPT !.running = FALSE, !.stop = "done", !.key = k, !.halted = h]
<1>0. s \in Loop /\ GoodFlags(s) /\ \A j \in Slot : GoodSlot(s, j)
  BY DEF Good
<1>1. o \in [Slot -> Op] /\ \A j \in Slot : (o[j] = "none" <=> s.op[j] = "none")
  BY <1>0 DEF Loop, Op
<1>2. /\ t \in {"off", "armed", "expired", "cancelled"} /\ (t = "off" <=> s.timer = "off")
      /\ a \in {"none", "pending", "ok", "failed", "aborted"} /\ (a = "none" <=> s.resolver = "none")
  BY <1>0 DEF Loop
<1>3. r = [s EXCEPT !.op = o, !.timer = t, !.resolver = a, !.running = FALSE, !.stop = "done",
                    !.key = k, !.halted = h]
  <2>1. DOMAIN s.op = Slot
    BY <1>0 DEF Loop
  <2> QED BY <1>0, <2>1 DEF CloseAll, Loop
<1> HIDE DEF o, t, a, r
<1>4. /\ r.running = FALSE /\ r.resolver = a /\ r.backoff = s.backoff
      /\ r.timer = t /\ r.busy = Idle /\ r.stop = "done" /\ r.halted = h
      /\ r.key = k /\ r.stacked = s.stacked /\ r.failures = s.failures
      /\ r.parked = s.parked /\ r.op = o
  BY <1>0, <1>3 DEF Loop
<1>5. r \in Loop
  <2>1. /\ o \in [Slot -> Op] /\ t \in {"off", "armed", "expired", "cancelled"}
        /\ a \in {"none", "pending", "ok", "failed", "aborted"}
    BY <1>1, <1>2
  <2> DEFINE c == [s EXCEPT !.op = o, !.timer = t, !.resolver = a]
  <2>2. c \in Loop
    BY <1>0, <2>1, ZenonT(60) DEF Loop
  <2>3. r = [c EXCEPT !.running = FALSE, !.stop = "done", !.key = k, !.halted = h]
    BY <1>0, <1>3 DEF Loop
  <2> HIDE DEF c
  <2> QED BY <2>2, <2>3, ZenonT(60) DEF Loop
<1>6. GoodFlags(r)
  <2>1. r.busy.doing = "nothing"
    BY <1>4 DEF Idle
  <2> QED BY <1>0, <1>1, <1>2, <1>4, <2>1, SlotFacts DEF GoodFlags
<1>7. ASSUME NEW j \in Slot PROVE GoodSlot(r, j)
  BY <1>0, <1>1, <1>2, <1>4 DEF GoodSlot
<1> QED BY <1>5, <1>6, <1>7 DEF Good, r

-----------------------------------------------------------------------------
(* Every step keeps the invariant. *)
LEMMA LoopInvNext == LoopInv /\ [Next]_vars => LoopInv'
<1> SUFFICES ASSUME LoopInv, [Next]_vars PROVE LoopInv'
  OBVIOUS
<1> USE DEF Op
<1>k. kind \in {"slots", "drain", "session", "accept"} /\ kernel \in Nat
  BY DEF LoopInv
<1>0. Good(x) /\ x \in Loop /\ GoodFlags(x) /\ \A i \in Slot : GoodSlot(x, i)
  BY DEF LoopInv, Good
<1>s. Slot \subseteq Nat \ {0} /\ 1 \in Slot /\ (kind # "slots" => Slot = {1})
  BY <1>k, SlotFacts
<1>b. /\ x.running \in BOOLEAN /\ x.halted \in BOOLEAN /\ x.key \in BOOLEAN
      /\ x.op \in [Slot -> Op] /\ x.busy \in Busy
  BY <1>0, ZenonT(30) DEF Loop
(* What is to be shown of a step: the new record is good. *)
<1>g. ASSUME kind' = kind, kernel' \in Nat, NEW r, x' = r, Good(r) PROVE LoopInv'
  BY <1>k, <1>g DEF LoopInv, Good, GoodFlags, GoodSlot, Loop, Slot
<1>1. CASE Arrives
  BY <1>0, <1>k, <1>1, <1>g DEF Arrives
<1>2. CASE BackoffExpires
  <2> DEFINE r == [x EXCEPT !.timer = "expired"]
  <2>1. r \in Loop
    BY <1>0 DEF Loop
  <2>2. /\ r.running = x.running /\ r.resolver = x.resolver /\ r.backoff = x.backoff
        /\ r.timer = "expired" /\ r.busy = x.busy /\ r.stop = x.stop /\ r.halted = x.halted
        /\ r.key = x.key /\ r.stacked = x.stacked /\ r.failures = x.failures
        /\ r.parked = x.parked /\ r.op = x.op
    BY <1>0 DEF Loop
  <2>3. x.timer = "armed" /\ x' = r /\ UNCHANGED <<kind, kernel>>
    BY <1>2, ZenonT(30) DEF BackoffExpires
  <2> HIDE DEF r
  <2>4. GoodFlags(r)
    BY <1>0, <2>2, <2>3, ZenonT(30) DEF GoodFlags
  <2>5. ASSUME NEW i \in Slot PROVE GoodSlot(r, i)
    BY <1>0, <2>2, <2>3 DEF GoodSlot
  <2>6. Good(r)
    BY <2>1, <2>4, <2>5 DEF Good
  <2> QED BY <1>k, <1>g, <2>3, <2>6
<1>3. CASE ResolverAnswers
  <2>1. PICK o \in {"ok", "failed"} : x' = [x EXCEPT !.resolver = o]
    BY <1>3 DEF ResolverAnswers
  <2> DEFINE r == [x EXCEPT !.resolver = o]
  <2>2. r \in Loop
    BY <1>0 DEF Loop
  <2>3. /\ r.running = x.running /\ r.resolver = o /\ r.backoff = x.backoff
        /\ r.timer = x.timer /\ r.busy = x.busy /\ r.stop = x.stop /\ r.halted = x.halted
        /\ r.key = x.key /\ r.stacked = x.stacked /\ r.failures = x.failures
        /\ r.parked = x.parked /\ r.op = x.op
    BY <1>0 DEF Loop
  <2>4. x.resolver = "pending" /\ x' = r /\ UNCHANGED <<kind, kernel>>
    BY <1>3, <2>1, ZenonT(30) DEF ResolverAnswers
  <2> HIDE DEF r
  <2>5. GoodFlags(r)
    BY <1>0, <2>3, <2>4, ZenonT(30) DEF GoodFlags
  <2>6. ASSUME NEW i \in Slot PROVE GoodSlot(r, i)
    BY <1>0, <2>3 DEF GoodSlot
  <2>7. Good(r)
    BY <2>2, <2>5, <2>6 DEF Good
  <2> QED BY <1>k, <1>g, <2>4, <2>7
<1>4. CASE Resolved
  <2> DEFINE s == [x EXCEPT !.resolver = "none"]
             h == [s EXCEPT !.halted = TRUE]
             u == [s EXCEPT !.running = TRUE]
  <2>0. /\ x.halted = FALSE /\ x.busy = Idle /\ x.resolver \in {"ok", "failed"}
        /\ x' = h \/ x' = ArmAll(u, {1})
        /\ UNCHANGED <<kind, kernel>>
    BY <1>4, <1>b DEF Resolved, OnLoop, Arm
  <2>1. /\ kind = "accept" /\ x.running = FALSE /\ x.timer = "off"
        /\ x.op[1] = "none" /\ x.failures[1] = 0 /\ x.key = TRUE /\ x.stop = "no"
    BY <1>0, <2>0 DEF GoodFlags
  <2>2. CASE x' = h
    <3>1. h \in Loop
      BY <1>0, ZenonT(30) DEF Loop
    <3>2. /\ h.running = x.running /\ h.resolver = "none" /\ h.backoff = x.backoff
          /\ h.timer = x.timer /\ h.busy = x.busy /\ h.stop = x.stop /\ h.halted = TRUE
          /\ h.key = x.key /\ h.stacked = x.stacked /\ h.failures = x.failures
          /\ h.parked = x.parked /\ h.op = x.op
      BY <1>0 DEF Loop
    <3> HIDE DEF h
    <3>3. GoodFlags(h)
      BY <1>0, <3>2, ZenonT(30) DEF GoodFlags
    <3>4. ASSUME NEW i \in Slot PROVE GoodSlot(h, i)
      BY <1>0, <3>2 DEF GoodSlot
    <3>5. Good(h)
      BY <3>1, <3>3, <3>4 DEF Good
    <3> QED BY <1>k, <1>g, <2>0, <2>2, <3>5
  <2>3. CASE x' = ArmAll(u, {1})
    <3>1. u \in Loop
      BY <1>0, ZenonT(30) DEF Loop
    <3>2. /\ u.running = TRUE /\ u.resolver = "none" /\ u.backoff = x.backoff
          /\ u.timer = x.timer /\ u.busy = x.busy /\ u.stop = x.stop /\ u.halted = x.halted
          /\ u.key = x.key /\ u.stacked = x.stacked /\ u.failures = x.failures
          /\ u.parked = x.parked /\ u.op = x.op
      BY <1>0 DEF Loop
    <3> HIDE DEF u
    <3>3. GoodFlags(u)
      BY <1>0, <2>0, <2>1, <3>2 DEF GoodFlags, Server
    <3>4. Armable(u, 1)
      BY <2>0, <2>1, <3>2 DEF Armable, Idle
    <3>5. Slot \ {1} = {} /\ {1} \in SUBSET Slot
      BY <1>s, <2>1
    <3>6. Good(ArmAll(u, {1}))
      BY <1>k, <3>1, <3>2, <3>3, <3>4, <3>5, ArmGood, Zenon
    <3> QED BY <1>k, <1>g, <2>0, <2>3, <3>6
  <2> QED BY <2>0, <2>2, <2>3
<1>5. CASE DrainChecked
  <2>0. x.busy.doing = "check" /\ UNCHANGED <<kind, kernel>>
    BY <1>5 DEF DrainChecked
  <2>1. x.resolver = "none" /\ x.busy.slot \in Slot
    BY <1>0, <2>0 DEF GoodFlags, Idle
  <2>2. CASE x.running = TRUE
    <3> DEFINE r == [x EXCEPT !.busy.doing = "route"]
    <3>1. r \in Loop
      BY <1>0, ZenonT(30) DEF Loop, Busy
    <3>2. /\ r.running = x.running /\ r.resolver = x.resolver /\ r.backoff = x.backoff
          /\ r.timer = x.timer /\ r.stop = x.stop /\ r.halted = x.halted
          /\ r.key = x.key /\ r.stacked = x.stacked /\ r.failures = x.failures
          /\ r.parked = x.parked /\ r.op = x.op
          /\ r.busy.doing = "route" /\ r.busy.slot = x.busy.slot
      BY <1>0 DEF Loop, Busy
    <3>3. x' = r
      BY <1>5, <2>2 DEF DrainChecked
    <3> HIDE DEF r
    <3>4. GoodFlags(r)
      BY <1>0, <2>1, <2>2, <3>2, ZenonT(30) DEF GoodFlags
    <3>5. ASSUME NEW i \in Slot PROVE GoodSlot(r, i)
      BY <1>0, <3>2 DEF GoodSlot
    <3>6. Good(r)
      BY <3>1, <3>4, <3>5 DEF Good
    <3> QED BY <1>k, <1>g, <2>0, <3>3, <3>6
  <2>3. CASE x.running = FALSE
    <3> DEFINE r == [x EXCEPT !.busy = Idle]
    <3>1. r \in Loop
      BY <1>0, ZenonT(30) DEF Loop, Busy, Idle
    <3>2. /\ r.running = x.running /\ r.resolver = x.resolver /\ r.backoff = x.backoff
          /\ r.timer = x.timer /\ r.stop = x.stop /\ r.halted = x.halted
          /\ r.key = x.key /\ r.stacked = x.stacked /\ r.failures = x.failures
          /\ r.parked = x.parked /\ r.op = x.op
          /\ r.busy = Idle /\ r.busy.slot = 0 /\ r.busy.doing = "nothing"
      BY <1>0 DEF Loop, Idle
    <3>3. x' = r
      BY <1>5, <2>3 DEF DrainChecked
    <3> HIDE DEF r
    <3>4. GoodFlags(r)
      BY <1>0, <2>1, <2>3, <3>2, ZenonT(30) DEF GoodFlags
    <3>5. ASSUME NEW i \in Slot PROVE GoodSlot(r, i)
      BY <1>0, <1>s, <2>3, <3>2 DEF GoodSlot
    <3>6. Good(r)
      BY <3>1, <3>4, <3>5 DEF Good
    <3> QED BY <1>k, <1>g, <2>0, <3>3, <3>6
  <2> QED BY <1>b, <2>2, <2>3, Zenon
<1>6. CASE HandlerEnds
  <2> DEFINE i == x.busy.slot
             s == [x EXCEPT !.busy = Idle, !.routed = @ + x.busy.held]
  <2>0. /\ x.busy.doing \in {"route", "park", "arm"} /\ UNCHANGED <<kind, kernel>>
        /\ x' = Park(s, i) \/ x' = ArmAll(s, {i})
    BY <1>6 DEF HandlerEnds, Arm
  <2>1. x.resolver = "none" /\ i \in Slot
    BY <1>0, <2>0 DEF GoodFlags, Idle
  <2>2. s \in Loop
    <3>1. Idle \in Busy
      BY DEF Idle, Busy
    <3>2. x.routed + x.busy.held \in Nat
      BY <1>0, <1>b DEF Loop, Busy
    <3>3. s = [x EXCEPT !.busy = Idle, !.routed = x.routed + x.busy.held]
      OBVIOUS
    <3> HIDE DEF s
    <3> QED BY <1>0, <3>1, <3>2, <3>3, ZenonT(30) DEF Loop
  <2>3. /\ s.running = x.running /\ s.resolver = x.resolver /\ s.backoff = x.backoff
        /\ s.timer = x.timer /\ s.stop = x.stop /\ s.halted = x.halted
        /\ s.key = x.key /\ s.stacked = x.stacked /\ s.failures = x.failures
        /\ s.parked = x.parked /\ s.op = x.op
        /\ s.busy = Idle /\ s.busy.slot = 0 /\ s.busy.doing = "nothing"
    BY <1>0 DEF Loop, Idle
  <2> HIDE DEF s
  <2>4. GoodFlags(s)
    BY <1>0, <2>1, <2>3, ZenonT(30) DEF GoodFlags
  <2>5. /\ x.op[i] = "none" /\ x.failures[i] = 0 /\ (kind # "slots" => x.timer = "off")
    BY <1>0, <2>1 DEF GoodSlot
  <2>6. ASSUME NEW j \in Slot \ {i} PROVE GoodSlot(s, j)
    BY <1>0, <1>s, <2>3 DEF GoodSlot
  <2> HIDE DEF i
  <2>7. Good(Park(s, i))
    BY <1>k, <2>1, <2>2, <2>3, <2>4, <2>5, <2>6, ParkGood, ZenonT(30)
  <2>8. Good(ArmAll(s, {i}))
    <3>1. CASE x.running = TRUE
      <4>1. Armable(s, i)
        BY <1>s, <2>1, <2>3, <2>5 DEF Armable
      <4>2. {i} \in SUBSET Slot /\ \A j \in {i} : Armable(s, j)
        BY <2>1, <4>1
      <4> QED BY <1>k, <2>1, <2>2, <2>3, <2>4, <2>6, <3>1, <4>2, ArmGood, Zenon
    <3>2. CASE x.running = FALSE
      <4>1. ArmAll(s, {i}) = s
        BY <2>3, <3>2, ZenonT(30) DEF ArmAll
      <4>2. GoodSlot(s, i)
        BY <1>0, <1>s, <2>1, <2>3, <2>5, <3>2, ZenonT(30) DEF GoodSlot
      <4>3. \A j \in Slot : GoodSlot(s, j)
        BY <2>6, <4>2
      <4> QED BY <2>2, <2>4, <4>1, <4>3 DEF Good
    <3> QED BY <1>b, <3>1, <3>2, Zenon
  <2> QED BY <1>k, <1>g, <2>0, <2>7, <2>8
<1>7. CASE BackoffFired
  <2> DEFINE t == TimerOff(x)
             s == [t EXCEPT !.failures = [i \in Slot |-> 0]]
  <2>0. /\ x.busy = Idle /\ x.timer \in {"expired", "cancelled"} /\ UNCHANGED <<kind, kernel>>
        /\ x.halted = FALSE
        /\ x.timer = "cancelled" => x' = t
        /\ x.timer = "expired" => x' = ArmAll(s, Parked(x))
    BY <1>7, <1>b DEF BackoffFired, OnLoop
  <2>1. x.resolver = "none"
    BY <1>0, <2>0 DEF GoodFlags
  <2>2. t \in Loop
    BY <1>0, ZenonT(30) DEF Loop, TimerOff
  <2>3. /\ t.running = x.running /\ t.resolver = "none" /\ t.backoff = FALSE
        /\ t.timer = "off" /\ t.busy = Idle /\ t.stop = x.stop /\ t.halted = x.halted
        /\ t.key = x.key /\ t.stacked = x.stacked /\ t.failures = x.failures
        /\ t.parked = x.parked /\ t.op = x.op
    BY <1>0, <2>0, <2>1 DEF Loop, TimerOff
  <2> HIDE DEF t
  <2>4. s \in Loop
    BY <2>2, ZenonT(30) DEF Loop
  <2>5. /\ s.running = x.running /\ s.resolver = "none" /\ s.backoff = FALSE
        /\ s.timer = "off" /\ s.busy = Idle /\ s.stop = x.stop /\ s.halted = x.halted
        /\ s.key = x.key /\ s.stacked = x.stacked
        /\ s.parked = x.parked /\ s.op = x.op
        /\ \A i \in Slot : s.failures[i] = 0
    BY <2>2, <2>3, ZenonT(30) DEF Loop
  <2> HIDE DEF s
  <2>6. Idle.slot = 0 /\ Idle.doing = "nothing"
    BY DEF Idle
  <2>7. CASE x.timer = "cancelled"
    <3>1. x.running = FALSE
      BY <1>0, <1>b, <2>7, ZenonT(30) DEF GoodFlags
    <3>2. GoodFlags(t)
      BY <1>0, <2>3, <2>6, <3>1, ZenonT(30) DEF GoodFlags
    <3>3. ASSUME NEW i \in Slot PROVE GoodSlot(t, i)
      BY <1>0, <1>s, <2>0, <2>3, <2>6, <3>1 DEF GoodSlot
    <3>4. Good(t)
      BY <2>2, <3>2, <3>3 DEF Good
    <3> QED BY <1>k, <1>g, <2>0, <2>7, <3>4, ZenonT(30)
  <2>8. CASE x.timer = "expired"
    <3>1. GoodFlags(s)
      BY <1>0, <2>5, <2>6, ZenonT(30) DEF GoodFlags
    <3>2. CASE x.running = FALSE
      <4>1. ArmAll(s, Parked(x)) = s
        BY <2>5, <3>2, ZenonT(30) DEF ArmAll
      <4>2. ASSUME NEW i \in Slot PROVE GoodSlot(s, i)
        BY <1>0, <1>s, <2>0, <2>5, <2>6, <3>2 DEF GoodSlot
      <4>3. Good(s)
        BY <2>4, <3>1, <4>2 DEF Good
      <4> QED BY <1>k, <1>g, <2>0, <2>8, <4>1, <4>3
    <3>3. CASE x.running = TRUE
      <4>1. /\ Parked(x) \in SUBSET Slot
            /\ kind = "slots" => \A i \in Slot : i \in Parked(x) <=> x.parked[i] = TRUE
            /\ kind # "slots" => Parked(x) = Slot
        <5>1. \A i \in Slot : x.parked[i] \in BOOLEAN
          BY <1>0, ZenonT(30) DEF Loop
        <5> QED BY <5>1, ZenonT(30) DEF Parked
      <4>2. ASSUME NEW i \in Parked(x) PROVE Armable(s, i)
        <5>1. i \in Slot /\ GoodSlot(x, i) /\ i # 0
          BY <1>0, <1>s, <4>1, ZenonT(30)
        <5>2. x.op[i] = "none"
          BY <4>1, <5>1, <2>8 DEF GoodSlot
        <5> QED BY <2>5, <2>6, <5>1, <5>2, ZenonT(30) DEF Armable
      <4>3. ASSUME NEW i \in Slot \ Parked(x) PROVE GoodSlot(s, i)
        <5>1. GoodSlot(x, i) /\ i # 0 /\ kind = "slots" /\ x.parked[i] # TRUE
          BY <1>0, <1>s, <4>1, ZenonT(30)
        <5>2. x.op[i] # "none"
          BY <2>0, <2>6, <3>3, <5>1, ZenonT(30) DEF GoodSlot
        <5>3. x.parked[i] = FALSE /\ x.op[i] # "aborted"
          BY <3>3, <5>1, <5>2, ZenonT(30) DEF GoodSlot
        <5> QED BY <2>5, <2>6, <5>1, <5>2, <5>3, ZenonT(30) DEF GoodSlot
      <4>4. Good(ArmAll(s, Parked(x)))
        BY <1>k, <2>4, <2>5, <3>1, <3>3, <4>1, <4>2, <4>3, ArmGood, ZenonT(30)
      <4> QED BY <1>k, <1>g, <2>0, <2>8, <4>4
    <3> QED BY <1>b, <3>2, <3>3, Zenon
  <2> QED BY <2>0, <2>7, <2>8
<1>8. CASE Stop
  <2>0. /\ x.stop = "no" /\ UNCHANGED <<kind, kernel>>
        /\ \/ kind \in Server /\ x' = StopServer(x)
           \/ kind = "session" /\ x.busy = Idle /\ x' = OnClose(x)
           \/ kind = "accept" /\ x.busy = Idle /\ x' = StopClient(x)
    BY <1>8, ZenonT(30) DEF Stop, OnLoop
  <2>1. CASE kind \in Server /\ x' = StopServer(x)
    <3> DEFINE r == StopServer(x)
    <3>1. r \in Loop
      BY <1>0, ZenonT(30) DEF Loop, StopServer
    <3>2. /\ r.running = FALSE /\ r.resolver = x.resolver /\ r.backoff = x.backoff /\ r.timer = x.timer
          /\ r.busy = x.busy /\ r.stop = "queued" /\ r.halted = x.halted /\ r.key = x.key
          /\ r.stacked = x.stacked /\ r.failures = x.failures /\ r.parked = x.parked /\ r.op = x.op
      BY <1>0 DEF Loop, StopServer
    <3>3. x' = r
      BY <2>1
    <3> HIDE DEF r
    <3>4. GoodFlags(r)
      BY <1>0, <2>1, <3>2, ZenonT(30) DEF GoodFlags, Server
    <3>5. ASSUME NEW i \in Slot PROVE GoodSlot(r, i)
      BY <1>0, <3>2, ZenonT(30) DEF GoodSlot
    <3>6. Good(r)
      BY <3>1, <3>4, <3>5 DEF Good
    <3> QED BY <1>k, <1>g, <3>3, <3>6, <2>0
  <2>2. CASE kind = "session" /\ x.busy = Idle /\ x' = OnClose(x)
    <3>1. x' = [CloseAll(x) EXCEPT !.running = FALSE, !.stop = "done", !.key = x.key,
                                   !.halted = x.halted]
      BY <1>0, <2>2, ZenonT(30) DEF OnClose, CloseAll, Loop
    <3>2. Good([CloseAll(x) EXCEPT !.running = FALSE, !.stop = "done", !.key = x.key,
                                   !.halted = x.halted])
      BY <1>0, <1>b, <1>k, <2>2, CloseGood, Zenon
    <3> QED BY <1>k, <1>g, <2>0, <3>1, <3>2
  <2>3. CASE kind = "accept" /\ x.busy = Idle /\ x' = StopClient(x)
    <3>1. Good([CloseAll(x) EXCEPT !.running = FALSE, !.stop = "done", !.key = FALSE,
                                   !.halted = TRUE])
      BY <1>0, <1>k, <2>3, CloseGood, Zenon
    <3> QED BY <1>k, <1>g, <2>0, <2>3, <3>1 DEF StopClient
  <2> QED BY <2>0, <2>1, <2>2, <2>3, ZenonT(30)
<1>9. CASE Teardown
  <2>0. /\ x.busy = Idle /\ x.halted = FALSE /\ x.stop = "queued" /\ UNCHANGED <<kind, kernel>>
        /\ x' = [CloseAll(x) EXCEPT !.stop = "done", !.key = FALSE]
    BY <1>9, <1>b DEF Teardown, OnLoop
  <2>1. x.running = FALSE /\ kind # "accept"
    BY <1>0, <1>b, <2>0 DEF GoodFlags
  <2>2. x' = [CloseAll(x) EXCEPT !.running = FALSE, !.stop = "done", !.key = FALSE,
                                 !.halted = FALSE]
    BY <1>0, <2>0, <2>1, ZenonT(30) DEF CloseAll, Loop
  <2>3. Good([CloseAll(x) EXCEPT !.running = FALSE, !.stop = "done", !.key = FALSE,
                                 !.halted = FALSE])
    BY <1>0, <1>k, <2>0, <2>1, CloseGood, Zenon
  <2> QED BY <1>k, <1>g, <2>0, <2>2, <2>3
<1>10. CASE IoStops
  <2>0. kind \in Server /\ UNCHANGED <<kind, kernel>>
    BY <1>10 DEF IoStops
  <2> DEFINE r == [x EXCEPT !.halted = TRUE]
  <2>1. r \in Loop
    BY <1>0, ZenonT(30) DEF Loop
  <2>2. /\ r.running = x.running /\ r.resolver = x.resolver /\ r.backoff = x.backoff /\ r.timer = x.timer
        /\ r.busy = x.busy /\ r.stop = x.stop /\ r.halted = TRUE /\ r.key = x.key
        /\ r.stacked = x.stacked /\ r.failures = x.failures /\ r.parked = x.parked /\ r.op = x.op
    BY <1>0 DEF Loop
  <2>3. x' = r
    BY <1>10 DEF IoStops
  <2> HIDE DEF r
  <2>4. GoodFlags(r)
    BY <1>0, <2>0, <2>2 DEF GoodFlags
  <2>5. ASSUME NEW i \in Slot PROVE GoodSlot(r, i)
    BY <1>0, <2>0, <2>2 DEF GoodSlot
  <2>6. Good(r)
    BY <2>1, <2>4, <2>5 DEF Good
  <2> QED BY <1>k, <1>g, <2>3, <2>6, <2>0
<1>11. CASE Destroyed
  <2>0. x.halted = TRUE /\ x.busy = Idle /\ UNCHANGED <<kind, kernel>>
        /\ Idle.doing = "nothing" /\ Idle.slot = 0
    BY <1>11, <1>b, Zenon DEF Destroyed, Idle
  <2> DEFINE r == Destroy(x)
  <2>1. r \in Loop
    BY <1>0, ZenonT(30) DEF Loop, Destroy
  <2>2. /\ r.running = FALSE /\ r.resolver = "none" /\ r.backoff = x.backoff /\ r.timer = "off"
        /\ r.busy = x.busy /\ r.stop = x.stop /\ r.halted = x.halted /\ r.key = FALSE
        /\ r.stacked = x.stacked /\ r.failures = x.failures /\ r.parked = x.parked /\ r.op = [i \in Slot |-> "none"]
    BY <1>0 DEF Loop, Destroy
  <2>3. x' = r
    BY <1>11 DEF Destroyed
  <2> HIDE DEF r
  <2>4. GoodFlags(r)
    BY <1>0, <2>0, <2>2, ZenonT(30) DEF GoodFlags
  <2>5. ASSUME NEW i \in Slot PROVE GoodSlot(r, i)
    BY <1>0, <1>s, <2>0, <2>2 DEF GoodSlot
  <2>6. Good(r)
    BY <2>1, <2>4, <2>5 DEF Good
  <2> QED BY <1>k, <1>g, <2>3, <2>6, <2>0
<1>12. ASSUME NEW i \in Slot, Completes(i) PROVE LoopInv'
  <2>1. PICK o \in {"data", "empty"} : x' = [x EXCEPT !.op[i] = o]
    BY <1>12 DEF Completes
  <2>2. x.op[i] = "waiting" /\ kind' = kind /\ kernel' \in Nat
    BY <1>12, <1>k DEF Completes
  <2>3. Good([x EXCEPT !.op[i] = o])
    BY <1>0, <1>k, <2>2, OpGood, Zenon
  <2> QED BY <1>g, <2>1, <2>2, <2>3
<1>13. ASSUME NEW i \in Slot, Fails(i) PROVE LoopInv'
  <2>1. PICK o \in {"refused", "error"} : x' = [x EXCEPT !.op[i] = o]
    BY <1>13 DEF Fails
  <2>2. x.op[i] = "waiting" /\ kind' = kind /\ kernel' \in Nat
    BY <1>13, <1>k DEF Fails
  <2>3. Good([x EXCEPT !.op[i] = o])
    BY <1>0, <1>k, <2>2, OpGood, Zenon
  <2> QED BY <1>g, <2>1, <2>2, <2>3
<1>14. ASSUME NEW i \in Slot, FirstArm(i) PROVE LoopInv'
  <2>0. x.op[i] = "arming" /\ UNCHANGED <<kind, kernel>>
    BY <1>14 DEF FirstArm
  <2>1. CASE x.running = TRUE
    <3>1. x' = ArmAll(x, {i})
      BY <1>14, <2>1, ZenonT(30) DEF FirstArm, Arm
    <3>2. x.resolver = "none"
      BY <1>0, <2>1, ZenonT(30) DEF GoodFlags
    <3>3. Armable(x, i)
      BY <1>0, <2>0, Zenon DEF Armable, GoodSlot
    <3>4. {i} \in SUBSET Slot /\ \A j \in {i} : Armable(x, j)
      BY <3>3, ZenonT(30)
    <3>5. Good(ArmAll(x, {i}))
      BY <1>0, <1>k, <2>1, <3>2, <3>4, ArmGood, Zenon
    <3> QED BY <1>k, <1>g, <2>0, <3>1, <3>5, Zenon
  <2>2. CASE x.running = FALSE
    <3>1. x' = [x EXCEPT !.op[i] = "none"]
      BY <1>14, <2>2 DEF FirstArm
    <3>2. Good([x EXCEPT !.op[i] = "none"])
      BY <1>0, <1>k, <2>0, <2>2, OpGood, Zenon
    <3> QED BY <1>k, <1>g, <2>0, <3>1, <3>2
  <2> QED BY <1>b, <2>1, <2>2, ZenonT(30)
<1>15. ASSUME NEW i \in Slot, HandleReceive(i) PROVE LoopInv'
  <2> DEFINE s == [x EXCEPT !.op[i] = "none"]
             b(w) == [Idle EXCEPT !.slot = i, !.doing = w, !.held = IF w = "route" THEN 1 ELSE 0]
  <2>0. /\ x.busy = Idle /\ UNCHANGED <<kind, kernel>>
        /\ x.op[i] \in {"data", "empty", "refused", "error", "aborted"}
    BY <1>15 DEF HandleReceive, OnLoop
  <2>1. CASE x.running = FALSE
    <3>1. x' = s
      BY <1>15, <2>1 DEF HandleReceive
    <3>2. Good(s)
      BY <1>0, <1>k, <2>0, <2>1, OpGood, ZenonT(30)
    <3> QED BY <1>k, <1>g, <2>0, <3>1, <3>2
  <2>2. CASE x.running = TRUE
    <3>1. x.op[i] # "aborted"
      BY <1>0, <2>2, Zenon DEF GoodSlot
    <3>2. PICK w \in {"route", "park", "arm"} : x' = [s EXCEPT !.busy = b(w)]
      <4>1. CASE x.op[i] = "data"
        BY <1>15, <2>2, <4>1, ZenonT(30) DEF HandleReceive
      <4>2. CASE x.op[i] = "error"
        BY <1>15, <2>2, <4>2, ZenonT(30) DEF HandleReceive
      <4>3. CASE x.op[i] \in {"refused", "empty"}
        BY <1>15, <2>2, <4>3, ZenonT(30) DEF HandleReceive
      <4> QED BY <2>0, <3>1, <4>1, <4>2, <4>3, ZenonT(30)
    <3>3. b(w) \in Busy /\ b(w).slot = i /\ b(w).doing # "nothing"
      BY <1>s, ZenonT(30) DEF Idle, Busy
    <3>4. x' = [x EXCEPT !.op[i] = "none", !.busy = b(w)]
      BY <1>0, <3>2 DEF Loop
    <3> HIDE DEF b
    <3>5. Good([x EXCEPT !.op[i] = "none", !.busy = b(w)])
      BY <1>0, <1>k, <2>0, <2>2, <3>3, BeginGood, ZenonT(30)
    <3> QED BY <1>k, <1>g, <2>0, <3>4, <3>5
  <2> QED BY <1>b, <2>1, <2>2, ZenonT(30)
<1>16. ASSUME NEW i \in Slot, HandleReceiveDrain(i) PROVE LoopInv'
  <2> DEFINE s == [x EXCEPT !.op[i] = "none"]
             b(w, n, f) == [slot |-> i, doing |-> w, held |-> n, failed |-> f]
             all == IF kernel < DrainMax THEN kernel ELSE DrainMax
  <2>0. x.busy = Idle /\ kind' = kind /\ x.op[i] \in {"data", "error", "aborted"}
    BY <1>16, ZenonT(30) DEF HandleReceiveDrain, OnLoop
  <2>1. all \in Nat /\ all <= kernel
    BY <1>k, LoopAssumption, SMTT(20)
  <2>2. CASE x.running = FALSE
    <3>1. x' = s /\ kernel' = kernel
      BY <1>16, <2>2, ZenonT(30) DEF HandleReceiveDrain
    <3>2. Good(s)
      BY <1>0, <1>k, <2>0, <2>2, OpGood, ZenonT(30)
    <3> QED BY <1>k, <1>g, <2>0, <3>1, <3>2, ZenonT(30)
  <2>3. CASE x.running = TRUE
    <3>1. x.op[i] # "aborted"
      BY <1>0, <2>3, Zenon DEF GoodSlot
    <3>2. \E w \in {"park", "check"}, n \in 0..all, f \in BOOLEAN :
             x' = [s EXCEPT !.busy = b(w, n, f)] /\ kernel' = kernel - n
      <4>0. 0 \in 0..all /\ all \in 0..all /\ kernel = kernel - 0
        BY <1>k, <2>1
      <4> HIDE DEF b, s, all
      <4>1. CASE x' = [s EXCEPT !.busy = b("park", 0, TRUE)] /\ kernel' = kernel
        <5>1. kernel' = kernel - 0
          BY <4>0, <4>1
        <5> QED BY <4>0, <4>1, <5>1, ZenonT(30)
      <4>2. CASE x' = [s EXCEPT !.busy = b("check", all, FALSE)] /\ kernel' = kernel - all
        BY <4>0, <4>2, Zenon
      <4>3. CASE \E n \in 0..all : x' = [s EXCEPT !.busy = b("check", n, TRUE)] /\ kernel' = kernel - n
        BY <4>3, ZenonT(30)
      <4> QED BY <1>16, <2>3, <3>1, <4>1, <4>2, <4>3, ZenonT(30) DEF HandleReceiveDrain, b, s, all
    <3>3. PICK w \in {"park", "check"}, n \in 0..all, f \in BOOLEAN :
             x' = [s EXCEPT !.busy = b(w, n, f)] /\ kernel' = kernel - n
      BY <3>2, ZenonT(30)
    <3>4. b(w, n, f) \in Busy /\ b(w, n, f).slot = i /\ b(w, n, f).doing # "nothing"
      BY <1>s, <2>1 DEF Busy
    <3>5. x' = [x EXCEPT !.op[i] = "none", !.busy = b(w, n, f)] /\ kernel' \in Nat
      BY <1>0, <1>k, <2>1, <3>3 DEF Loop
    <3> HIDE DEF b
    <3>6. Good([x EXCEPT !.op[i] = "none", !.busy = b(w, n, f)])
      BY <1>0, <1>k, <2>0, <2>3, <3>4, BeginGood, ZenonT(30)
    <3> QED BY <1>g, <2>0, <3>5, <3>6
  <2> QED BY <1>b, <2>2, <2>3, Zenon
<1>17. CASE UNCHANGED vars
  BY <1>0, <1>k, <1>17, <1>g DEF vars
<1> QED
  BY <1>1, <1>2, <1>3, <1>4, <1>5, <1>6, <1>7, <1>8, <1>9, <1>10, <1>11, <1>12, <1>13, <1>14,
     <1>15, <1>16, <1>17 DEF Next

-----------------------------------------------------------------------------
(* The receive and accept loops are never deaf while they run, with any        *)
(* number of slots: every slot has its operation outstanding, its handler at   *)
(* work, or waits for a timer that is armed and will find it.                  *)
THEOREM StaysArmedHolds == Spec => []StaysArmed
BY LoopInvInit, LoopInvNext, LoopInvGives, PTL DEF Spec

(* No receive is armed over another one on the same slot's buffer, nor on a    *)
(* slot that waits for the shared back-off timer.                              *)
THEOREM NoStackedReceiveHolds == Spec => []NoStackedReceive
BY LoopInvInit, LoopInvNext, LoopInvGives, PTL DEF Spec

(* A failing socket is retried at the pace of the back-off timer. *)
THEOREM PacedHolds == Spec => []Paced
BY LoopInvInit, LoopInvNext, LoopInvGives, PTL DEF Spec

(* What is routed is routed with the key in place, whenever stop() is called.  *)
THEOREM KeyHeldHolds == Spec => []KeyHeldWhileRouting
BY LoopInvInit, LoopInvNext, LoopInvGives, PTL DEF Spec
=============================================================================
