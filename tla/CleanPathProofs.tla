--------------------------- MODULE CleanPathProofs ---------------------------
(***************************************************************************)
(* For any number of policies, any probe and hold times and any rate:      *)
(* gates agree with trackers, protection is only given up when earned, and *)
(* probes are a hold apart.                                                *)
(***************************************************************************)
EXTENDS CleanPath, TLAPS

(* What a tracker and its gate remember, against the histories. The count of   *)
(* clean time never exceeds what was earned, the hold starts at the last loss, *)
(* and between two probes there was a loss.                                    *)
PolicyInv(p) ==
    /\ tracker[p].at <= now /\ tracker[p].segs <= MaxCount
    /\ gate[p] <=> ~tracker[p].clean
    /\ lossAt[p] # -1 => tracker[p].holdUntil = lossAt[p] + HoldTime[p]
    /\ tracker[p].cleanFor <= earned[p]
    /\ tracker[p].clean
           => /\ earned[p] >= CleanTime[p] /\ relaxedAt[p] # -1
              /\ lossAt[p] # -1 => relaxedAt[p] >= lossAt[p] + HoldTime[p]
    /\ ~tracker[p].clean /\ relaxedAt[p] # -1 => lossAt[p] >= relaxedAt[p]
    /\ relaxedAt[p] <= now

PathInv == TypeOK /\ segs <= MaxCount /\ \A p \in Policy : PolicyInv(p)

(* A difference of counters that did not go backwards is taken without wrap.   *)
LEMMA DeltaExact ==
    ASSUME NEW a \in Nat, NEW b \in Nat, a >= b, a <= MaxCount
    PROVE  Delta(a, b) = a - b
  <1>1. a - b \in 0 .. (Word - 1) /\ Word \in Nat /\ Word > 0
    BY CleanPathAssumption
  <1> QED
    BY <1>1 DEF Delta

(* Every tracker starts unproven, with its gate closed.                        *)
LEMMA PathInvInit == Init => PathInv
  <1> SUFFICES ASSUME Init
               PROVE  PathInv
    OBVIOUS
  <1>1. TypeOK
    BY DEF Init, TypeOK, NewTracker
  <1>2. ASSUME NEW p \in Policy
        PROVE  PolicyInv(p)
    <2>1. tracker[p] = NewTracker /\ lossAt[p] = -1 /\ relaxedAt[p] = -1 /\ earned[p] = 0
      BY DEF Init
    <2>2. (gate[p] <=> ~tracker[p].clean) /\ ~tracker[p].clean
      BY <2>1, SMTT(20) DEF Init, NewTracker
    <2> QED
      BY <2>1, <2>2, CleanPathAssumption DEF Init, PolicyInv, NewTracker
  <1> QED
    BY <1>1, <1>2, CleanPathAssumption DEF Init, PathInv

Tracker == [initialized : BOOLEAN, clean : BOOLEAN, segs : Nat, fast : Nat,
            at : Nat, cleanFor : Nat, holdUntil : Nat]

(* What on_sample leaves of a tracker, branch by branch.                       *)
LEMMA OnSampleFacts ==
    ASSUME NEW p \in Policy, NEW t \in Tracker, now \in Nat, segs \in Nat, fast \in Nat,
           t.at <= now
    PROVE  LET n == OnSample(p, t) IN
           /\ n \in Tracker
           /\ n.at = now /\ n.segs = segs
           /\ \/ /\ ~Comparable(t)
                 /\ (n.clean <=> t.clean) /\ n.cleanFor = t.cleanFor /\ n.holdUntil = t.holdUntil
              \/ Loss(t) /\ ~n.clean /\ n.cleanFor = 0 /\ n.holdUntil = now + HoldTime[p]
              \/ /\ Comparable(t) /\ ~Loss(t)
                 /\ (n.clean <=> t.clean) /\ n.cleanFor \in {0, t.cleanFor}
                 /\ n.holdUntil = t.holdUntil
              \/ /\ Comparable(t) /\ ~Loss(t) /\ Busy(t) /\ now >= t.holdUntil
                 /\ ~t.clean /\ n.clean /\ n.cleanFor = 0 /\ n.holdUntil = t.holdUntil
                 /\ t.cleanFor + (now - t.at) >= CleanTime[p]
              \/ /\ Comparable(t) /\ ~Loss(t) /\ Busy(t) /\ now >= t.holdUntil
                 /\ (n.clean <=> t.clean) /\ n.cleanFor = t.cleanFor + (now - t.at)
                 /\ n.holdUntil = t.holdUntil
  <1> DEFINE r == Rebased(t)
             n == OnSample(p, t)
             sofar == t.cleanFor + Elapsed(t)
  <1>1. HoldTime[p] \in Nat /\ CleanTime[p] \in Nat
    BY CleanPathAssumption
  <1>2. /\ r = [initialized |-> TRUE, clean |-> t.clean, segs |-> segs, fast |-> fast,
                at |-> now, cleanFor |-> t.cleanFor, holdUntil |-> t.holdUntil]
        /\ r \in Tracker
    <2>1. r = [[[[t EXCEPT !.initialized = TRUE] EXCEPT !.segs = segs] EXCEPT !.fast = fast]
                  EXCEPT !.at = now]
      BY Zenon DEF Rebased
    <2>2. t = [initialized |-> t.initialized, clean |-> t.clean, segs |-> t.segs,
               fast |-> t.fast, at |-> t.at, cleanFor |-> t.cleanFor, holdUntil |-> t.holdUntil]
      BY DEF Tracker
    <2> HIDE DEF r
    <2>3. r = [initialized |-> TRUE, clean |-> t.clean, segs |-> segs, fast |-> fast,
               at |-> now, cleanFor |-> t.cleanFor, holdUntil |-> t.holdUntil]
      BY <2>1, <2>2, Zenon
    <2>4. r \in Tracker
      BY <2>3 DEF Tracker
    <2> QED
      BY <2>3, <2>4
  <1>3. sofar = t.cleanFor + (now - t.at) /\ sofar \in Nat
    BY DEF Elapsed, Tracker
  <1> HIDE DEF r, sofar
  <1>4. CASE ~Comparable(t)
    <2>1. n = r
      BY <1>4 DEF OnSample, r
    <2>2. n = [initialized |-> TRUE, clean |-> t.clean, segs |-> segs, fast |-> fast,
               at |-> now, cleanFor |-> t.cleanFor, holdUntil |-> t.holdUntil]
      BY <1>2, <2>1
    <2> HIDE DEF n
    <2>3. /\ n \in Tracker /\ n.at = now /\ n.segs = segs
          /\ n.cleanFor = t.cleanFor
          /\ n.holdUntil = t.holdUntil
      BY <1>1, <1>2, <1>3, <2>2 DEF Tracker
    <2>4. n.clean = t.clean
      BY <2>2, Zenon
    <2> QED
      BY <1>3, <1>4, <2>3, <2>4 DEF n, Tracker
  <1>5. CASE Comparable(t) /\ Loss(t)
    <2>1. n = [r EXCEPT !.cleanFor = 0, !.holdUntil = now + HoldTime[p], !.clean = FALSE]
      BY <1>5 DEF OnSample, r
    <2>2. n = [initialized |-> TRUE, clean |-> FALSE, segs |-> segs, fast |-> fast,
               at |-> now, cleanFor |-> 0, holdUntil |-> now + HoldTime[p]]
      BY <1>2, <2>1, Zenon
    <2> HIDE DEF n
    <2>3. /\ n \in Tracker /\ n.at = now /\ n.segs = segs
          /\ n.cleanFor = 0
          /\ n.holdUntil = now + HoldTime[p]
      BY <1>1, <1>2, <1>3, <2>2 DEF Tracker
    <2>4. n.clean = FALSE
      BY <2>2, Zenon
    <2> QED
      BY <1>3, <1>5, <2>3, <2>4 DEF n, Tracker
  <1>6. CASE Comparable(t) /\ ~Loss(t) /\ now < t.holdUntil
    <2>1. n = [r EXCEPT !.cleanFor = 0]
      BY <1>6 DEF OnSample, r
    <2>2. n = [initialized |-> TRUE, clean |-> t.clean, segs |-> segs, fast |-> fast,
               at |-> now, cleanFor |-> 0, holdUntil |-> t.holdUntil]
      BY <1>2, <2>1, Zenon
    <2> HIDE DEF n
    <2>3. /\ n \in Tracker /\ n.at = now /\ n.segs = segs
          /\ n.cleanFor = 0
          /\ n.holdUntil = t.holdUntil
      BY <1>1, <1>2, <1>3, <2>2 DEF Tracker
    <2>4. n.clean = t.clean
      BY <2>2, Zenon
    <2> QED
      BY <1>3, <1>6, <2>3, <2>4 DEF n, Tracker
  <1>7. CASE Comparable(t) /\ ~Loss(t) /\ ~(now < t.holdUntil) /\ ~Busy(t)
    <2>1. n = r
      BY <1>7 DEF OnSample, r
    <2>2. n = [initialized |-> TRUE, clean |-> t.clean, segs |-> segs, fast |-> fast,
               at |-> now, cleanFor |-> t.cleanFor, holdUntil |-> t.holdUntil]
      BY <1>2, <2>1
    <2> HIDE DEF n
    <2>3. /\ n \in Tracker /\ n.at = now /\ n.segs = segs
          /\ n.cleanFor = t.cleanFor
          /\ n.holdUntil = t.holdUntil
      BY <1>1, <1>2, <1>3, <2>2 DEF Tracker
    <2>4. n.clean = t.clean
      BY <2>2, Zenon
    <2> QED
      BY <1>3, <1>7, <2>3, <2>4 DEF n, Tracker
  <1>8. CASE /\ Comparable(t) /\ ~Loss(t) /\ ~(now < t.holdUntil) /\ Busy(t)
             /\ ~t.clean /\ sofar >= CleanTime[p]
    <2>1. n = [r EXCEPT !.cleanFor = 0, !.clean = TRUE]
      BY <1>8 DEF OnSample, r, sofar
    <2>2. n = [initialized |-> TRUE, clean |-> TRUE, segs |-> segs, fast |-> fast,
               at |-> now, cleanFor |-> 0, holdUntil |-> t.holdUntil]
      BY <1>2, <2>1, Zenon
    <2> HIDE DEF n
    <2>3. /\ n \in Tracker /\ n.at = now /\ n.segs = segs
          /\ n.cleanFor = 0
          /\ n.holdUntil = t.holdUntil
      BY <1>1, <1>2, <1>3, <2>2 DEF Tracker
    <2>4. n.clean = TRUE
      BY <2>2, Zenon
    <2> QED
      BY <1>3, <1>8, <2>3, <2>4 DEF n, Tracker
  <1>9. CASE /\ Comparable(t) /\ ~Loss(t) /\ ~(now < t.holdUntil) /\ Busy(t)
             /\ ~(~t.clean /\ sofar >= CleanTime[p])
    <2>1. n = [r EXCEPT !.cleanFor = sofar]
      BY <1>9 DEF OnSample, r, sofar
    <2>2. n = [initialized |-> TRUE, clean |-> t.clean, segs |-> segs, fast |-> fast,
               at |-> now, cleanFor |-> sofar, holdUntil |-> t.holdUntil]
      BY <1>2, <2>1, Zenon
    <2> HIDE DEF n
    <2>3. /\ n \in Tracker /\ n.at = now /\ n.segs = segs
          /\ n.cleanFor = sofar
          /\ n.holdUntil = t.holdUntil
      BY <1>1, <1>2, <1>3, <2>2 DEF Tracker
    <2>4. n.clean = t.clean
      BY <2>2, Zenon
    <2> QED
      BY <1>3, <1>9, <2>3, <2>4 DEF n, Tracker
  <1> QED
    BY <1>4, <1>5, <1>6, <1>7, <1>8, <1>9

(* A sample preserves the invariant of each policy.                            *)
LEMMA SampleStep ==
    ASSUME PathInv, Sample, NEW p \in Policy
    PROVE  PolicyInv(p)'
  <1> DEFINE t == tracker[p]
             n == OnSample(p, t)
  <1>1. /\ t \in Tracker /\ now \in Nat /\ segs \in Nat /\ fast \in Nat /\ t.at <= now
        /\ gate[p] \in BOOLEAN /\ lossAt[p] \in Nat \cup {-1}
        /\ relaxedAt[p] \in Nat \cup {-1} /\ earned[p] \in Nat
    BY DEF PathInv, TypeOK, PolicyInv, Tracker
  <1>2. HoldTime[p] \in Nat /\ CleanTime[p] \in Nat
    BY CleanPathAssumption
  <1>3. /\ tracker'[p] = n
        /\ gate'[p] = SetGate(p, t, n)
        /\ lossAt'[p] = IF Loss(t) THEN now ELSE lossAt[p]
        /\ relaxedAt'[p] = IF n.clean /\ ~t.clean THEN now ELSE relaxedAt[p]
        /\ earned'[p] = IF Loss(t) THEN 0
                        ELSE IF ReallyBusy(t) THEN earned[p] + (now - t.at) ELSE earned[p]
        /\ now' = now /\ segs' = segs
    BY DEF Sample
  <1>4. Comparable(t) /\ Busy(t) => ReallyBusy(t)
    <2> SUFFICES ASSUME Comparable(t), Busy(t)
                 PROVE  ReallyBusy(t)
      OBVIOUS
    <2>1. segs >= t.segs /\ fast >= t.fast /\ t.initialized
      BY DEF Comparable
    <2>2. Delta(segs, t.segs) = segs - t.segs
      BY <1>1, <2>1, DeltaExact DEF PathInv, Tracker
    <2> QED
      BY <2>1, <2>2 DEF Busy, ReallyBusy
  <1>5. PolicyInv(p)
    BY DEF PathInv
  <1>6. Loss(t) => Comparable(t)
    BY DEF Loss
  <1>7. gate'[p] <=> ~tracker'[p].clean
    BY <1>1, <1>3, <1>5, OnSampleFacts, ZenonT(30) DEF SetGate, PolicyInv, Tracker
  <1>8. tracker'[p].at <= now' /\ tracker'[p].segs <= MaxCount
    BY <1>1, <1>3, OnSampleFacts DEF PathInv
  <1> HIDE DEF n, t
  <1>9. /\ lossAt'[p] # -1 => n.holdUntil = lossAt'[p] + HoldTime[p]
        /\ n.cleanFor <= earned'[p]
        /\ n.clean
             => /\ earned'[p] >= CleanTime[p] /\ relaxedAt'[p] # -1
                /\ lossAt'[p] # -1 => relaxedAt'[p] >= lossAt'[p] + HoldTime[p]
        /\ ~n.clean /\ relaxedAt'[p] # -1 => lossAt'[p] >= relaxedAt'[p]
        /\ relaxedAt'[p] <= now
    <2>1. /\ t.at \in Nat /\ t.cleanFor \in Nat /\ t.holdUntil \in Nat
          /\ n.cleanFor \in Nat /\ n.holdUntil \in Nat
      BY <1>1, OnSampleFacts, ZenonT(30) DEF Tracker, n
    <2>2. /\ lossAt[p] # -1 => t.holdUntil = lossAt[p] + HoldTime[p]
          /\ t.cleanFor <= earned[p]
          /\ t.clean => /\ earned[p] >= CleanTime[p] /\ relaxedAt[p] # -1
                        /\ lossAt[p] # -1 => relaxedAt[p] >= lossAt[p] + HoldTime[p]
          /\ ~t.clean /\ relaxedAt[p] # -1 => lossAt[p] >= relaxedAt[p]
          /\ relaxedAt[p] <= now
      BY <1>5, ZenonT(30) DEF PolicyInv, t
    <2>3. \/ /\ ~Loss(t) /\ (n.clean <=> t.clean) /\ n.cleanFor \in {0, t.cleanFor}
             /\ n.holdUntil = t.holdUntil
          \/ Loss(t) /\ ~n.clean /\ n.cleanFor = 0 /\ n.holdUntil = now + HoldTime[p]
          \/ /\ ~Loss(t) /\ ReallyBusy(t) /\ now >= t.holdUntil /\ ~t.clean /\ n.clean
             /\ n.cleanFor = 0 /\ n.holdUntil = t.holdUntil
             /\ t.cleanFor + (now - t.at) >= CleanTime[p]
          \/ /\ ~Loss(t) /\ ReallyBusy(t) /\ (n.clean <=> t.clean)
             /\ n.cleanFor = t.cleanFor + (now - t.at) /\ n.holdUntil = t.holdUntil
      BY <1>1, <1>4, <1>6, OnSampleFacts, ZenonT(30) DEF n
    <2>4. CASE /\ ~Loss(t) /\ (n.clean <=> t.clean) /\ n.cleanFor \in {0, t.cleanFor}
               /\ n.holdUntil = t.holdUntil
      <3>1. /\ lossAt'[p] = lossAt[p] /\ relaxedAt'[p] = relaxedAt[p]
            /\ earned'[p] >= earned[p] /\ earned'[p] \in Nat
        BY <1>1, <1>3, <2>1, <2>4, SMTT(20)
      <3> QED
        BY <1>1, <1>2, <2>1, <2>2, <2>4, <3>1, SMTT(20)
    <2>5. CASE Loss(t) /\ ~n.clean /\ n.cleanFor = 0 /\ n.holdUntil = now + HoldTime[p]
      <3>1. lossAt'[p] = now /\ relaxedAt'[p] = relaxedAt[p] /\ earned'[p] = 0
        BY <1>3, <2>5
      <3> QED
        BY <1>1, <1>2, <2>1, <2>2, <2>5, <3>1
    <2>6. CASE /\ ~Loss(t) /\ ReallyBusy(t) /\ now >= t.holdUntil /\ ~t.clean /\ n.clean
               /\ n.cleanFor = 0 /\ n.holdUntil = t.holdUntil
               /\ t.cleanFor + (now - t.at) >= CleanTime[p]
      <3>1. /\ lossAt'[p] = lossAt[p] /\ relaxedAt'[p] = now
            /\ earned'[p] = earned[p] + (now - t.at)
        BY <1>3, <2>6
      <3> QED
        BY <1>1, <1>2, <2>1, <2>2, <2>6, <3>1
    <2>7. CASE /\ ~Loss(t) /\ ReallyBusy(t) /\ (n.clean <=> t.clean)
               /\ n.cleanFor = t.cleanFor + (now - t.at) /\ n.holdUntil = t.holdUntil
      <3>1. /\ lossAt'[p] = lossAt[p] /\ relaxedAt'[p] = relaxedAt[p]
            /\ earned'[p] = earned[p] + (now - t.at)
        BY <1>3, <2>7
      <3> QED
        BY <1>1, <1>2, <2>1, <2>2, <2>7, <3>1, SMTT(20)
    <2> QED
      BY <2>3, <2>4, <2>5, <2>6, <2>7, ZenonT(30)
  <1> QED
    BY <1>3, <1>7, <1>8, <1>9 DEF PolicyInv

(* Every step preserves the invariant.                                         *)
LEMMA PathInvStep == PathInv /\ [Next]_vars => PathInv'
  <1> SUFFICES ASSUME PathInv, [Next]_vars
               PROVE  PathInv'
    OBVIOUS
  <1> USE CleanPathAssumption
  <1>1. CASE Sample
    <2>1. \A p \in Policy : PolicyInv(p)'
      BY <1>1, SampleStep
    <2>2. segs' <= MaxCount /\ segs' \in Nat /\ fast' \in Nat /\ now' \in Nat
      BY <1>1 DEF Sample, PathInv, TypeOK
    <2>3. tracker' \in [Policy -> Tracker]
      <3>1. \A p \in Policy : OnSample(p, tracker[p]) \in Tracker
        BY OnSampleFacts DEF PathInv, PolicyInv, TypeOK, Tracker
      <3> QED
        BY <1>1, <3>1 DEF Sample
    <2>4. gate' \in [Policy -> BOOLEAN]
      BY <1>1, Zenon DEF Sample, SetGate, PathInv, TypeOK
    <2>5. /\ lossAt' \in [Policy -> Nat \cup {-1}] /\ relaxedAt' \in [Policy -> Nat \cup {-1}]
          /\ earned' \in [Policy -> Nat]
      <3>1. \A p \in Policy : tracker[p].at \in Nat /\ tracker[p].at <= now
        BY DEF PathInv, PolicyInv, TypeOK
      <3> QED
        BY <1>1, <3>1 DEF Sample, PathInv, TypeOK
    <2> QED
      BY <2>1, <2>2, <2>3, <2>4, <2>5 DEF PathInv, TypeOK, Tracker
  <1>2. ASSUME NEW k \in 0 .. MaxSegs, NEW lost \in BOOLEAN, Traffic(k, lost)
        PROVE  PathInv'
    BY <1>2 DEF Traffic, PathInv, PolicyInv, TypeOK
  <1>3. CASE CountersReset
    BY <1>3 DEF CountersReset, PathInv, PolicyInv, TypeOK
  <1>4. CASE UNCHANGED vars
    BY <1>4 DEF vars, PathInv, PolicyInv, TypeOK
  <1> QED
    BY <1>1, <1>2, <1>3, <1>4 DEF Next

(* The invariant holds of every behaviour of the sampling timer.               *)
THEOREM PathInvHolds == Spec => []PathInv
  BY PathInvInit, PathInvStep, PTL DEF Spec

(* Counts of clean time and deadlines stay natural numbers: no clock or counter *)
(* sequence makes a difference negative.                                       *)
THEOREM TypeOKHolds == Spec => []TypeOK
  BY PathInvHolds, PTL DEF PathInv

(* For all probe and hold times, protection is given up only when the clean    *)
(* time was earned and the hold has passed.                                    *)
THEOREM EarnedHolds == Spec => []Earned
  <1>1. PathInv => Earned
    BY DEF PathInv, PolicyInv, Earned
  <1> QED
    BY <1>1, PathInvHolds, PTL

(* For all probe and hold times, two probes of a policy are a hold apart.      *)
THEOREM ProbesApartHolds == Spec => ProbesApart
  <1> DEFINE A(p) == relaxedAt'[p] # relaxedAt[p] /\ relaxedAt[p] # -1
                         => relaxedAt'[p] - relaxedAt[p] >= HoldTime[p]
  <1>1. PathInv /\ [Next]_vars => [\A p \in Policy : A(p)]_vars
    <2> SUFFICES ASSUME PathInv, Next, NEW p \in Policy
                 PROVE  A(p)
      OBVIOUS
    <2>1. CASE relaxedAt' = relaxedAt
      BY <2>1
    <2>2. CASE Sample
      <3> DEFINE t == tracker[p]
                 n == OnSample(p, t)
      <3>1. /\ t \in Tracker /\ now \in Nat /\ segs \in Nat /\ fast \in Nat /\ t.at <= now
            /\ lossAt[p] \in Nat \cup {-1} /\ relaxedAt[p] \in Nat \cup {-1}
            /\ HoldTime[p] \in Nat
        BY CleanPathAssumption, ZenonT(30) DEF PathInv, PolicyInv, TypeOK, Tracker
      <3>2. relaxedAt'[p] = IF n.clean /\ ~t.clean THEN now ELSE relaxedAt[p]
        BY <2>2, ZenonT(30) DEF Sample
      <3>3. n.clean /\ ~t.clean => now >= t.holdUntil
        BY <3>1, OnSampleFacts, ZenonT(30)
      <3>4. /\ lossAt[p] # -1 => t.holdUntil = lossAt[p] + HoldTime[p]
            /\ ~t.clean /\ relaxedAt[p] # -1 => lossAt[p] >= relaxedAt[p]
        BY DEF PathInv, PolicyInv
      <3>5. t.holdUntil \in Nat
        BY <3>1 DEF Tracker
      <3> HIDE DEF n, t
      <3> QED
        BY <3>1, <3>2, <3>3, <3>4, <3>5
    <2> QED
      BY <2>1, <2>2 DEF Next, Traffic, CountersReset
  <1> QED
    BY <1>1, PathInvHolds, PTL DEF Spec, ProbesApart
=============================================================================
