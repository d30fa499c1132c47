------------------------------ MODULE CleanPath ------------------------------
(***************************************************************************)
(* The adaptive policies (clean_path.hpp, fec_parity.hpp, rto_floor.hpp):  *)
(* a periodic sample of two cumulative counters decides whether the path   *)
(* is clean, and each policy's gate tells every tunnel of the process      *)
(* whether to stay protected (emit parity, keep the 30 ms RTO floor).      *)
(* One timer samples, for all policies; the counters belong to KCP.        *)
(***************************************************************************)
EXTENDS Integers

CONSTANTS
    Policy,       \* the controllers that are switched on
    CleanTime,    \* CleanTime[p]: probe_sec, relax_sec
    HoldTime,     \* HoldTime[p]: hold_sec
    MinRate,      \* min_seg_rate, in segments per unit of time
    Word,         \* 2^64, the counters' modulus
    MaxTime,      \* bound: length of a run
    MaxSegs,      \* bound: segments sent between two samples
    MaxCount      \* bound: the segment counter

ASSUME CleanPathAssumption ==
    /\ CleanTime \in [Policy -> Nat \ {0}]
    /\ HoldTime \in [Policy -> Nat]
    /\ Word \in Nat /\ MaxCount < Word
    /\ MinRate \in Nat \ {0} /\ MaxTime \in Nat /\ MaxSegs \in Nat /\ MaxCount \in Nat

VARIABLES
    tracker,     \* the CleanPathTracker of each policy
    gate,        \* gate[p]: protected
    now,         \* the clock
    segs, fast,  \* the cumulative counters out_segs and fast_retrans_segs
    lossAt,      \* history: when p last saw evidence of loss, -1 before
    relaxedAt,   \* history: when p last entered the cheap state, -1 before
    earned       \* history: time since that evidence during which p saw traffic

vars == <<tracker, gate, now, segs, fast, lossAt, relaxedAt, earned>>

NewTracker ==
    [initialized |-> FALSE, clean |-> FALSE, segs |-> 0, fast |-> 0, at |-> 0,
     cleanFor |-> 0, holdUntil |-> 0]

Init ==
    /\ tracker = [p \in Policy |-> NewTracker]
    /\ gate = [p \in Policy |-> TRUE]
    /\ now = 0 /\ segs = 0 /\ fast = 0
    /\ lossAt = [p \in Policy |-> -1]
    /\ relaxedAt = [p \in Policy |-> -1]
    /\ earned = [p \in Policy |-> 0]

(* The baseline every sample leaves behind. *)
Rebased(t) == [t EXCEPT !.initialized = TRUE, !.segs = segs, !.fast = fast, !.at = now]

(* A counter that went backwards is compared all the same. *)
ComparableWrapped(t) == t.initialized /\ now > t.at

(* A sample says nothing when it is the first, when a counter went backwards,  *)
(* or when the clock stood still.                                              *)
Comparable(t) == t.initialized /\ segs >= t.segs /\ fast >= t.fast /\ now > t.at

(* Differences of the unsigned cumulative counters. *)
Delta(new, old) == (new - old) % Word

Elapsed(t) == now - t.at

Loss(t) == Comparable(t) /\ Delta(fast, t.fast) > 0

Busy(t) == Delta(segs, t.segs) >= MinRate * (now - t.at)

(* The hold is forgotten. *)
OnSampleWithoutHold(p, t) ==
    LET r == Rebased(t)
        sofar == t.cleanFor + Elapsed(t)
    IN  IF Loss(t) THEN [r EXCEPT !.cleanFor = 0, !.clean = FALSE]
        ELSE IF ~Comparable(t) \/ ~Busy(t) THEN r
        ELSE IF ~t.clean /\ sofar >= CleanTime[p] THEN [r EXCEPT !.cleanFor = 0, !.clean = TRUE]
        ELSE [r EXCEPT !.cleanFor = sofar]

(* CleanPathTracker::on_sample *)
OnSample(p, t) ==
    LET r == Rebased(t)
        sofar == t.cleanFor + Elapsed(t)
    IN  IF ~Comparable(t) THEN r
        ELSE IF Loss(t)
        THEN [r EXCEPT !.cleanFor = 0, !.holdUntil = now + HoldTime[p], !.clean = FALSE]
        ELSE IF now < t.holdUntil THEN [r EXCEPT !.cleanFor = 0]
        ELSE IF ~Busy(t) THEN r
        ELSE IF ~t.clean /\ sofar >= CleanTime[p] THEN [r EXCEPT !.cleanFor = 0, !.clean = TRUE]
        ELSE [r EXCEPT !.cleanFor = sofar]

(* The controller moves the gate on a transition and only then. *)
SetGate(p, old, new) == IF new.clean # old.clean THEN ~new.clean ELSE gate[p]

(* History: the time between two samples in which the counters really grew by  *)
(* enough segments, whatever the tracker makes of it.                          *)
ReallyBusy(t) ==
    /\ t.initialized /\ segs >= t.segs /\ fast >= t.fast
    /\ segs - t.segs >= MinRate * (now - t.at)

(* The sampling timer: every controller that is switched on. The controllers   *)
(* share nothing, so it does not matter that each takes its own snapshot.      *)
Sample ==
    LET new == [p \in Policy |-> OnSample(p, tracker[p])] IN
    /\ tracker' = new
    /\ gate' = [p \in Policy |-> SetGate(p, tracker[p], new[p])]
    /\ lossAt' = [p \in Policy |-> IF Loss(tracker[p]) THEN now ELSE lossAt[p]]
    /\ relaxedAt' = [p \in Policy |-> IF new[p].clean /\ ~tracker[p].clean
                                      THEN now ELSE relaxedAt[p]]
    /\ earned' = [p \in Policy |-> IF Loss(tracker[p]) THEN 0
                                   ELSE IF ReallyBusy(tracker[p])
                                   THEN earned[p] + (now - tracker[p].at) ELSE earned[p]]
    /\ UNCHANGED <<now, segs, fast>>

(* Between two samples time passes, segments are sent, some retransmitted. *)
Traffic(n, lost) ==
    /\ now < MaxTime /\ segs + n <= MaxCount
    /\ now' = now + 1
    /\ segs' = segs + n
    /\ fast' = IF lost THEN fast + 1 ELSE fast
    /\ UNCHANGED <<tracker, gate, lossAt, relaxedAt, earned>>

(* The counters restart from zero. *)
CountersReset ==
    /\ segs' = 0 /\ fast' = 0
    /\ UNCHANGED <<tracker, gate, now, lossAt, relaxedAt, earned>>

Next ==
    \/ Sample
    \/ \E n \in 0 .. MaxSegs, lost \in BOOLEAN : Traffic(n, lost)
    \/ CountersReset

Spec == Init /\ [][Next]_vars

-----------------------------------------------------------------------------
(* Properties *)

(* Trackers, gates, counters and histories have their types. *)
TypeOK ==
    /\ tracker \in [Policy -> [initialized : BOOLEAN, clean : BOOLEAN, segs : Nat, fast : Nat,
                               at : Nat, cleanFor : Nat, holdUntil : Nat]]
    /\ gate \in [Policy -> BOOLEAN]
    /\ now \in Nat /\ segs \in Nat /\ fast \in Nat
    /\ lossAt \in [Policy -> Nat \cup {-1}] /\ relaxedAt \in [Policy -> Nat \cup {-1}]
    /\ earned \in [Policy -> Nat]

(* Tunnels are unprotected only after CleanTime of traffic without evidence of *)
(* loss, and not before HoldTime after the last evidence: a single probe       *)
(* window, an idle path or counters that were reset never count as clean, and  *)
(* a gate, although it is moved only by transitions, never stays open on a     *)
(* path known to lose.                                                         *)
Earned ==
    \A p \in Policy :
        ~gate[p]
            => /\ earned[p] >= CleanTime[p]
               /\ lossAt[p] # -1 => relaxedAt[p] >= lossAt[p] + HoldTime[p]

(* Two probes of a policy are at least HoldTime apart.                         *)
ProbesApart ==
    [][\A p \in Policy :
          relaxedAt'[p] # relaxedAt[p] /\ relaxedAt[p] # -1
              => relaxedAt'[p] - relaxedAt[p] >= HoldTime[p]]_vars
=============================================================================
