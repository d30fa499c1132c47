------------------------ MODULE SaltTombstonesProofs ------------------------
(***************************************************************************)
(* Theorems about the salt tombstones, for every set of salts, every cap   *)
(* and every time to live.                                                 *)
(*                                                                         *)
(* The argument: the order queue is always the tail end of the history of  *)
(* accepted salts, each entry expiring one TTL after its acceptance; what  *)
(* the history has in front of that tail either outlived its TTL or made   *)
(* room at the cap.                                                        *)
(***************************************************************************)
EXTENDS SaltTombstones, WellFoundedInduction, TLAPS

Dropped == Len(accepted) - Len(tombOrder)

QueueInv ==
    /\ Len(tombOrder) <= Len(accepted)
    /\ Len(tombOrder) <= MaxTombstones
    /\ \A p \in 1 .. Len(tombOrder) :
          /\ tombOrder[p] = accepted[Dropped + p].salt
          /\ tombExpiry[tombOrder[p]] = accepted[Dropped + p].at + TTL
    /\ \A p, q \in 1 .. Len(tombOrder) : tombOrder[p] = tombOrder[q] => p = q
    /\ \A s \in Salt : tombExpiry[s] # 0 => \E p \in 1 .. Len(tombOrder) : tombOrder[p] = s

HistoryInv ==
    /\ \A i, j \in 1 .. Len(accepted) : i <= j => accepted[i].at <= accepted[j].at
    /\ \A i \in 1 .. Len(accepted) : accepted[i].at <= now
    /\ \A i \in 1 .. Dropped :
          accepted[i].at + TTL <= now \/ Len(accepted) - i >= MaxTombstones
    /\ SaltNotReaccepted

TombstoneInv == TombstoneTypeOK /\ QueueInv /\ HistoryInv

(* A nonempty set of numbers has a least element, which Least returns. *)
LEMMA LeastElement ==
    ASSUME NEW S \in SUBSET Nat, S # {}
    PROVE  Least(S) \in S /\ \A y \in S : Least(S) <= y
<1> DEFINE less == {ss \in Nat \X Nat : ss[1] < ss[2]}
<1>1. IsWellFoundedOn(less, Nat)
  BY NatLessThanWellFounded DEF OpToRel
<1> HIDE DEF less
<1>2. PICK x \in S : \A y \in S : ~(<<y, x>> \in less)
  BY <1>1, WFMin, Zenon
<1>3. ASSUME NEW y \in S, y < x PROVE FALSE
  <2>1. <<y, x>> \in Nat \X Nat /\ <<y, x>>[1] = y /\ <<y, x>>[2] = x
    OBVIOUS
  <2>2. <<y, x>> \in less
    BY <1>3, <2>1 DEF less
  <2> QED BY <1>2, <2>2
<1>4. \A y \in S : x <= y
  BY <1>3
<1> QED BY <1>4, Zenon DEF Least

(* What dropping the first k entries of a sequence leaves. *)
LEMMA SuffixFacts ==
    ASSUME NEW T, NEW q \in Seq(T), NEW k \in 0 .. Len(q)
    PROVE  /\ SubSeq(q, k + 1, Len(q)) \in Seq(T)
           /\ Len(SubSeq(q, k + 1, Len(q))) = Len(q) - k
           /\ \A p \in 1 .. Len(q) - k : SubSeq(q, k + 1, Len(q))[p] = q[k + p]
<1>1. Len(q) \in Nat /\ k \in Nat /\ \A i \in k + 1 .. Len(q) : q[i] \in T
  OBVIOUS
<1>2. /\ SubSeq(q, k + 1, Len(q)) \in Seq(T)
      /\ Len(SubSeq(q, k + 1, Len(q)))
             = IF k + 1 <= Len(q) THEN Len(q) - (k + 1) + 1 ELSE 0
      /\ \A i \in 1 .. Len(q) - (k + 1) + 1 :
             SubSeq(q, k + 1, Len(q))[i] = q[(k + 1) + i - 1]
  BY <1>1, SMTT(20)
<1> QED BY <1>1, <1>2

(* How many entries the loop at the cap pops. *)
LEMMA ExcessFacts ==
    ASSUME NEW len \in Nat, NEW cap \in Nat \ {0}, NEW excess,
           excess = IF len >= cap THEN len - cap + 1 ELSE 0
    PROVE  /\ excess \in 0 .. len
           /\ len - excess + 1 <= cap
           /\ excess # 0 => len - excess + 1 = cap
OBVIOUS

(* The entries of the history. *)
LEMMA AcceptedType ==
    ASSUME TombstoneTypeOK
    PROVE  /\ Len(accepted) \in Nat /\ DOMAIN accepted = 1 .. Len(accepted)
           /\ \A i \in 1 .. Len(accepted) : accepted[i].at \in Nat /\ accepted[i].salt \in Salt
<1> DEFINE Entry == [salt : Salt, at : Nat]
<1>1. accepted \in Seq(Entry)
  BY DEF TombstoneTypeOK
<1>2. /\ Len(accepted) \in Nat /\ DOMAIN accepted = 1 .. Len(accepted)
      /\ \A i \in 1 .. Len(accepted) : accepted[i] \in Entry
  <2> HIDE DEF Entry
  <2> QED BY <1>1, SMTT(20)
<1> QED BY <1>2, ZenonT(30)

(* Expiries never decrease along the order queue. *)
LEMMA QueueSorted ==
    ASSUME TombstoneInv
    PROVE  \A p, q \in 1 .. Len(tombOrder) :
              p <= q => tombExpiry[tombOrder[p]] <= tombExpiry[tombOrder[q]]
<1> SUFFICES ASSUME NEW p \in 1 .. Len(tombOrder), NEW q \in 1 .. Len(tombOrder), p <= q
             PROVE  tombExpiry[tombOrder[p]] <= tombExpiry[tombOrder[q]]
  OBVIOUS
<1>1. /\ Len(tombOrder) \in Nat /\ Len(accepted) \in Nat
      /\ \A i \in 1 .. Len(accepted) : accepted[i].at \in Nat
  BY AcceptedType, SMTT(20) DEF TombstoneInv, TombstoneTypeOK
<1>2. /\ Dropped + p \in 1 .. Len(accepted) /\ Dropped + q \in 1 .. Len(accepted)
      /\ Dropped + p <= Dropped + q
  BY <1>1 DEF TombstoneInv, QueueInv, Dropped
<1>3. accepted[Dropped + p].at <= accepted[Dropped + q].at
  BY <1>2 DEF TombstoneInv, HistoryInv
<1>4. /\ tombExpiry[tombOrder[p]] = accepted[Dropped + p].at + TTL
      /\ tombExpiry[tombOrder[q]] = accepted[Dropped + q].at + TTL
  BY DEF TombstoneInv, QueueInv
<1> QED BY <1>1, <1>2, <1>3, <1>4, TombstoneAssumption, SMTT(20)

(* Popping expired entries off the front leaves exactly the unexpired ones. *)
LEMMA PrunedIsSuffix ==
    ASSUME TombstoneInv
    PROVE  \E k \in 0 .. Len(tombOrder) :
              /\ PrunedOrder = SubSeq(tombOrder, k + 1, Len(tombOrder))
              /\ \A p \in 1 .. k : tombExpiry[tombOrder[p]] <= now
              /\ \A p \in k + 1 .. Len(tombOrder) : tombExpiry[tombOrder[p]] > now
<1> DEFINE n == Len(tombOrder)
           kept == {i \in DOMAIN tombOrder : Tombstoned(tombOrder[i])}
<1>1. /\ n \in Nat /\ DOMAIN tombOrder = 1 .. n /\ now \in Nat
      /\ \A p \in 1 .. n : tombExpiry[tombOrder[p]] \in Nat
  BY DEF TombstoneInv, TombstoneTypeOK
<1>2. CASE kept = {}
  <2>1. PrunedOrder = <<>>
    BY <1>2 DEF PrunedOrder
  <2>2. SubSeq(tombOrder, n + 1, n) = <<>>
    BY <1>1 DEF TombstoneInv, TombstoneTypeOK
  <2>3. \A p \in 1 .. n : tombExpiry[tombOrder[p]] <= now
    BY <1>1, <1>2 DEF Tombstoned
  <2> QED BY <1>1, <2>1, <2>2, <2>3
<1>3. CASE kept # {}
  <2>1. kept \in SUBSET Nat
    BY <1>1
  <2>2. Least(kept) \in kept /\ \A y \in kept : Least(kept) <= y
    BY <1>3, <2>1, LeastElement
  <2>3. PrunedOrder = SubSeq(tombOrder, Least(kept), n)
    BY <1>3, Zenon DEF PrunedOrder
  <2> DEFINE least == Least(kept)
  <2>4. least \in 1 .. n /\ Tombstoned(tombOrder[least])
    BY <1>1, <2>2
  <2>5. \A p \in 1 .. n : Tombstoned(tombOrder[p]) => least <= p
    BY <1>1, <2>2
  <2> HIDE DEF least, kept
  <2>6. \A p \in 1 .. least - 1 : tombExpiry[tombOrder[p]] <= now
    BY <1>1, <2>4, <2>5 DEF Tombstoned
  <2>7. \A p \in least .. n : tombExpiry[tombOrder[p]] > now
    BY <1>1, <2>4, QueueSorted DEF Tombstoned
  <2>8. least - 1 \in 0 .. n /\ (least - 1) + 1 = least
    BY <1>1, <2>4
  <2>9. PrunedOrder = SubSeq(tombOrder, least, n)
    BY <2>3 DEF least
  <2> QED BY <2>6, <2>7, <2>8, <2>9, Zenon
<1> QED BY <1>2, <1>3, ZenonT(30)

(***************************************************************************)
(* What remembering a salt does to the two containers: d entries leave the *)
(* front, expired or in the way of the cap, and the salt goes to the back. *)
(***************************************************************************)
Shifted(salt, d) ==
    /\ tombOrder' \in Seq(Salt)
    /\ tombExpiry' \in [Salt -> Nat]
    /\ Len(tombOrder') = Len(tombOrder) - d + 1
    /\ Len(tombOrder') <= MaxTombstones
    /\ \A p \in 1 .. Len(tombOrder) - d :
          /\ tombOrder'[p] = tombOrder[d + p]
          /\ tombOrder[d + p] # salt
          /\ tombExpiry'[tombOrder[d + p]] = tombExpiry[tombOrder[d + p]]
    /\ tombOrder'[Len(tombOrder) - d + 1] = salt
    /\ tombExpiry'[salt] = now + TTL
    /\ \A s \in Salt : tombExpiry'[s] # 0 =>
          s = salt \/ \E p \in 1 .. Len(tombOrder) - d : tombOrder'[p] = s
    /\ \A p \in 1 .. d :
          tombExpiry[tombOrder[p]] <= now \/ Len(tombOrder) - d + 1 = MaxTombstones

(* RememberSalt has that shape for a salt without a live tombstone. *)
LEMMA RememberShape ==
    ASSUME TombstoneInv, NEW salt \in Salt, ~Tombstoned(salt), RememberSalt(salt)
    PROVE  \E d \in 0 .. Len(tombOrder) : Shifted(salt, d)
<1> DEFINE n == Len(tombOrder)
<1>0. n \in Nat /\ tombOrder \in Seq(Salt) /\ now \in Nat /\ tombExpiry \in [Salt -> Nat]
  BY DEF TombstoneInv, TombstoneTypeOK
<1>1. PICK k \in 0 .. n :
         /\ PrunedOrder = SubSeq(tombOrder, k + 1, n)
         /\ \A p \in 1 .. k : tombExpiry[tombOrder[p]] <= now
         /\ \A p \in k + 1 .. n : tombExpiry[tombOrder[p]] > now
  BY PrunedIsSuffix
<1> DEFINE excess == IF Len(PrunedOrder) >= MaxTombstones
                     THEN Len(PrunedOrder) - MaxTombstones + 1 ELSE 0
           room == SubSeq(PrunedOrder, excess + 1, Len(PrunedOrder))
           d == k + excess
<1>2. /\ PrunedOrder \in Seq(Salt) /\ Len(PrunedOrder) = n - k
      /\ \A p \in 1 .. n - k : PrunedOrder[p] = tombOrder[k + p]
  BY <1>0, <1>1, SuffixFacts
<1>3. /\ k \in Nat /\ n - k \in Nat
      /\ excess \in 0 .. n - k
      /\ n - k - excess + 1 <= MaxTombstones
      /\ excess # 0 => n - k - excess + 1 = MaxTombstones
  <2>1. k \in Nat /\ n - k \in Nat
    BY <1>0
  <2> DEFINE len == Len(PrunedOrder)
  <2>2. excess = IF len >= MaxTombstones THEN len - MaxTombstones + 1 ELSE 0
    OBVIOUS
  <2>3. len \in Nat
    BY <1>2
  <2> HIDE DEF excess, n, len
  <2>4. /\ excess \in 0 .. len
        /\ len - excess + 1 <= MaxTombstones
        /\ excess # 0 => len - excess + 1 = MaxTombstones
    BY <2>2, <2>3, ExcessFacts, TombstoneAssumption
  <2> QED BY <1>2, <2>1, <2>4 DEF len
<1> HIDE DEF excess
<1>4. d \in 0 .. n /\ n - d = n - k - excess /\ n - d \in Nat
  BY <1>0, <1>3
<1>5. /\ room \in Seq(Salt) /\ Len(room) = n - d
      /\ \A p \in 1 .. n - d : room[p] = tombOrder[d + p]
  <2>1. /\ room \in Seq(Salt) /\ Len(room) = (n - k) - excess
        /\ \A p \in 1 .. (n - k) - excess : room[p] = PrunedOrder[excess + p]
    <3>1. excess \in 0 .. Len(PrunedOrder)
      BY <1>2, <1>3
    <3>2. /\ room \in Seq(Salt) /\ Len(room) = Len(PrunedOrder) - excess
          /\ \A p \in 1 .. Len(PrunedOrder) - excess : room[p] = PrunedOrder[excess + p]
      BY <1>2, <3>1, SuffixFacts
    <3> QED BY <1>2, <3>2, ZenonT(30)
  <2>2. \A p \in 1 .. (n - k) - excess :
            excess + p \in 1 .. n - k /\ k + (excess + p) = d + p
    BY <1>0, <1>3
  <2> QED BY <1>2, <1>4, <2>1, <2>2, ZenonT(30)
<1>6. /\ tombOrder' = Append(room, salt)
      /\ tombExpiry' = [s \in Salt |-> IF s = salt THEN now + TTL
                                       ELSE IF s \in Range(room) THEN PrunedExpiry[s]
                                       ELSE 0]
  BY DEF RememberSalt, excess
<1> HIDE DEF d, room
<1>7. /\ tombOrder' \in Seq(Salt) /\ Len(tombOrder') = n - d + 1
      /\ \A p \in 1 .. n - d : tombOrder'[p] = tombOrder[d + p]
      /\ tombOrder'[n - d + 1] = salt
  BY <1>4, <1>5, <1>6, SMTT(20)
<1>8. \A p \in 1 .. n - d : /\ d + p \in 1 .. n
                            /\ tombOrder[d + p] \in Salt
                            /\ tombExpiry[tombOrder[d + p]] > now
  BY <1>0, <1>1, <1>3, <1>4 DEF d
<1>9. \A p \in 1 .. n - d : tombOrder[d + p] # salt
  BY <1>0, <1>8 DEF Tombstoned
<1>10. \A p \in 1 .. n - d : tombOrder[d + p] \in Range(room)
  BY <1>4, <1>5, SMTT(20) DEF Range
<1>11. \A p \in 1 .. n - d : PrunedExpiry[tombOrder[d + p]] = tombExpiry[tombOrder[d + p]]
  <2> SUFFICES ASSUME NEW p \in 1 .. n - d
               PROVE  tombOrder[d + p] \in Range(PrunedOrder)
    BY <1>8 DEF PrunedExpiry
  <2>1. excess + p \in 1 .. n - k /\ k + (excess + p) = d + p
    BY <1>0, <1>3, <1>4 DEF d
  <2>2. PrunedOrder[excess + p] = tombOrder[d + p]
    BY <1>2, <2>1, Zenon
  <2> QED BY <1>2, <2>1, <2>2, SMTT(20) DEF Range
<1>12. tombExpiry' \in [Salt -> Nat]
  BY <1>0, <1>6, TombstoneAssumption DEF PrunedExpiry
<1>13. \A s \in Salt : tombExpiry'[s] # 0 =>
          s = salt \/ \E p \in 1 .. n - d : tombOrder'[p] = s
  BY <1>5, <1>6, <1>7 DEF Range
<1>14. \A p \in 1 .. d : tombExpiry[tombOrder[p]] <= now \/ n - d + 1 = MaxTombstones
  BY <1>1, <1>3, <1>4 DEF d
<1>15. /\ tombExpiry'[salt] = now + TTL
       /\ \A p \in 1 .. n - d : tombExpiry'[tombOrder[d + p]] = tombExpiry[tombOrder[d + p]]
  BY <1>6, <1>8, <1>9, <1>10, <1>11
<1>16. Len(tombOrder') <= MaxTombstones
  BY <1>3, <1>4, <1>7
<1>17. d \in 0 .. Len(tombOrder)
  BY <1>4
<1>18. Shifted(salt, d)
  BY <1>7, <1>9, <1>12, <1>13, <1>14, <1>15, <1>16 DEF Shifted
<1> QED BY <1>17, <1>18

(* The initial containers and the empty history. *)
LEMMA TombstoneInvInit == TombstoneInit => TombstoneInv
<1> SUFFICES ASSUME TombstoneInit PROVE TombstoneInv
  OBVIOUS
<1>1. tombOrder = <<>> /\ accepted = <<>> /\ Len(tombOrder) = 0 /\ Len(accepted) = 0
  BY DEF TombstoneInit
<1>2. TombstoneTypeOK
  BY <1>1 DEF TombstoneInit, TombstoneTypeOK
<1>3. QueueInv
  BY <1>1, TombstoneAssumption DEF TombstoneInit, QueueInv
<1>4. HistoryInv
  BY <1>1 DEF HistoryInv, Dropped, SaltNotReaccepted
<1> QED BY <1>2, <1>3, <1>4 DEF TombstoneInv

(* A session is accepted and its salt remembered. *)
LEMMA AcceptPreserves ==
    ASSUME TombstoneInv, NEW salt \in Salt, AcceptSalt(salt)
    PROVE  TombstoneInv'
<1> DEFINE n == Len(tombOrder)
           m == Len(accepted)
<1>1. PICK d \in 0 .. n : Shifted(salt, d)
  BY RememberShape DEF AcceptSalt
<1>2. /\ n \in Nat /\ m \in Nat /\ n <= m /\ d \in Nat /\ n - d \in Nat /\ now \in Nat
      /\ \A i \in 1 .. m : accepted[i].at \in Nat /\ accepted[i].salt \in Salt
  <2>1. n \in Nat /\ now \in Nat /\ n <= m
    BY DEF TombstoneInv, TombstoneTypeOK, QueueInv
  <2>2. m \in Nat /\ \A i \in 1 .. m : accepted[i].at \in Nat /\ accepted[i].salt \in Salt
    BY AcceptedType DEF TombstoneInv
  <2>3. d \in Nat /\ n - d \in Nat
    BY <2>1
  <2> QED BY <2>1, <2>2, <2>3
<1>3. /\ accepted' \in Seq([salt : Salt, at : Nat]) /\ Len(accepted') = m + 1
      /\ \A i \in 1 .. m : accepted'[i] = accepted[i]
      /\ accepted'[m + 1].salt = salt /\ accepted'[m + 1].at = now
      /\ now' = now
  BY <1>2 DEF AcceptSalt, TombstoneInv, TombstoneTypeOK
<1>4. Len(tombOrder') = n - d + 1 /\ Dropped' = m - n + d /\ Dropped = m - n
  BY <1>1, <1>2, <1>3 DEF Shifted, Dropped
<1>5. TombstoneTypeOK'
  BY <1>1, <1>2, <1>3 DEF Shifted, TombstoneTypeOK
<1> HIDE DEF n, m
<1>6. QueueInv'
  <2>1. Len(tombOrder') <= Len(accepted') /\ Len(tombOrder') <= MaxTombstones
    BY <1>1, <1>2, <1>3, <1>4 DEF Shifted
  <2>2. ASSUME NEW p \in 1 .. Len(tombOrder')
        PROVE  /\ tombOrder'[p] = accepted'[Dropped' + p].salt
               /\ tombExpiry'[tombOrder'[p]] = accepted'[Dropped' + p].at + TTL
    <3>0. p \in 1 .. (n - d) + 1
      BY <1>4
    <3>1. CASE p = n - d + 1
      <4>1. Dropped' + p = m + 1
        BY <1>2, <1>4, <3>1, SMTT(20)
      <4>2. tombOrder'[p] = salt /\ tombExpiry'[salt] = now + TTL
        BY <1>1, <3>1 DEF Shifted, n
      <4> QED BY <1>3, <4>1, <4>2
    <3>2. CASE p # n - d + 1
      <4>0. p \in Nat /\ p >= 1 /\ p <= n - d
        BY <1>2, <3>0, <3>2, SMTT(20)
      <4>1. p \in 1 .. n - d /\ d + p \in 1 .. n /\ Dropped' + p = Dropped + (d + p)
            /\ Dropped' + p \in 1 .. m
        <5>1. p \in 1 .. n - d /\ d + p \in 1 .. n
          BY <1>2, <4>0
        <5>2. Dropped' + p = Dropped + (d + p)
          BY <1>2, <1>4, <4>0
        <5>3. (m - n) + (d + p) \in 1 .. m
          BY <1>2, <4>0
        <5> QED BY <1>4, <5>1, <5>2, <5>3
      <4>2. /\ tombOrder[d + p] = accepted[Dropped + (d + p)].salt
            /\ tombExpiry[tombOrder[d + p]] = accepted[Dropped + (d + p)].at + TTL
        BY <4>1, ZenonT(30) DEF TombstoneInv, QueueInv, n
      <4>3. tombOrder'[p] = tombOrder[d + p]
            /\ tombExpiry'[tombOrder[d + p]] = tombExpiry[tombOrder[d + p]]
        BY <1>1, <4>1 DEF Shifted, n
      <4> QED BY <1>3, <4>1, <4>2, <4>3
    <3> QED BY <3>1, <3>2
  <2>3. ASSUME NEW p \in 1 .. Len(tombOrder'), NEW q \in 1 .. Len(tombOrder'),
               tombOrder'[p] = tombOrder'[q]
        PROVE  p = q
    <3>1. \A r \in 1 .. n - d : /\ tombOrder'[r] = tombOrder[d + r]
                                /\ tombOrder[d + r] # salt
                                /\ d + r \in 1 .. n
      <4>1. \A r \in 1 .. n - d : d + r \in 1 .. n
        BY <1>2
      <4>2. \A r \in 1 .. n - d : tombOrder'[r] = tombOrder[d + r] /\ tombOrder[d + r] # salt
        BY <1>1 DEF Shifted, n
      <4> QED BY <4>1, <4>2
    <3>2. tombOrder'[n - d + 1] = salt
      BY <1>1 DEF Shifted, n
    <3>3. \A r, t \in 1 .. n : tombOrder[r] = tombOrder[t] => r = t
      BY DEF TombstoneInv, QueueInv, n
    <3>4. \A r \in 1 .. Len(tombOrder') : r \in 1 .. n - d \/ r = n - d + 1
      BY <1>2, <1>4
    <3>5. CASE p \in 1 .. n - d /\ q \in 1 .. n - d
      <4>1. d + p = d + q
        BY <2>3, <3>1, <3>3, <3>5
      <4> QED BY <1>2, <4>1
    <3> QED BY <2>3, <3>1, <3>2, <3>4, <3>5, Zenon
  <2>4. ASSUME NEW s \in Salt, tombExpiry'[s] # 0
        PROVE  \E p \in 1 .. Len(tombOrder') : tombOrder'[p] = s
    <3>1. s = salt \/ \E p \in 1 .. n - d : tombOrder'[p] = s
      BY <1>1, <2>4 DEF Shifted, n
    <3>2. tombOrder'[n - d + 1] = salt
      BY <1>1 DEF Shifted, n
    <3>3. n - d + 1 \in 1 .. Len(tombOrder') /\ \A p \in 1 .. n - d : p \in 1 .. Len(tombOrder')
      BY <1>2, <1>4, SMTT(20)
    <3> QED BY <3>1, <3>2, <3>3
  <2> QED BY <2>1, <2>2, <2>3, <2>4 DEF QueueInv
<1>7. ASSUME NEW i \in 1 .. m
      PROVE  \/ /\ i \in 1 .. m - n
                /\ accepted[i].at + TTL <= now \/ m - i >= MaxTombstones
             \/ \E p \in 1 .. n : /\ i = (m - n) + p
                                  /\ accepted[i].salt = tombOrder[p]
                                  /\ accepted[i].at + TTL = tombExpiry[tombOrder[p]]
  <2>1. CASE i \in 1 .. m - n
    BY <1>4, <2>1 DEF TombstoneInv, HistoryInv, m
  <2>2. CASE i \notin 1 .. m - n
    <3>1. i - (m - n) \in 1 .. n /\ i = (m - n) + (i - (m - n))
      BY <1>2, <2>2
    <3>2. \A p \in 1 .. n : /\ tombOrder[p] = accepted[(m - n) + p].salt
                            /\ tombExpiry[tombOrder[p]] = accepted[(m - n) + p].at + TTL
      BY <1>4 DEF TombstoneInv, QueueInv, n
    <3> QED BY <3>1, <3>2
  <2> QED BY <2>1, <2>2
<1>8. HistoryInv'
  <2>1. \A i, j \in 1 .. Len(accepted') : i <= j => accepted'[i].at <= accepted'[j].at
    <3>1. /\ \A i, j \in 1 .. m : i <= j => accepted[i].at <= accepted[j].at
          /\ \A i \in 1 .. m : accepted[i].at <= now
      BY DEF TombstoneInv, HistoryInv, m
    <3>2. \A i \in 1 .. Len(accepted') : i \in 1 .. m \/ i = m + 1
      BY <1>2, <1>3
    <3> QED BY <1>2, <1>3, <3>1, <3>2, SMTT(20)
  <2>2. \A i \in 1 .. Len(accepted') : accepted'[i].at <= now'
    <3>1. \A i \in 1 .. m : accepted[i].at <= now
      BY DEF TombstoneInv, HistoryInv, m
    <3>2. \A i \in 1 .. Len(accepted') : i \in 1 .. m \/ i = m + 1
      BY <1>2, <1>3
    <3> QED BY <1>2, <1>3, <3>1, <3>2
  <2>3. ASSUME NEW i \in 1 .. Dropped'
        PROVE  accepted'[i].at + TTL <= now' \/ Len(accepted') - i >= MaxTombstones
    <3>0. i \in 1 .. (m - n) + d
      BY <1>4
    <3>1. i \in 1 .. m /\ i <= m - n + d
      BY <1>2, <3>0
    <3>2. CASE accepted[i].at + TTL <= now \/ m - i >= MaxTombstones
      <4>1. accepted[i].at + TTL <= now => accepted'[i].at + TTL <= now'
        BY <1>3, <3>1
      <4>2. m - i >= MaxTombstones => (m + 1) - i >= MaxTombstones
        BY <1>2, <3>1, TombstoneAssumption
      <4> QED BY <1>3, <3>2, <4>1, <4>2
    <3>3. ASSUME NEW p \in 1 .. n, i = (m - n) + p,
                 accepted[i].at + TTL = tombExpiry[tombOrder[p]]
          PROVE  accepted'[i].at + TTL <= now' \/ Len(accepted') - i >= MaxTombstones
      <4>1. p \in 1 .. d
        BY <1>2, <3>1, <3>3
      <4>2. tombExpiry[tombOrder[p]] <= now \/ n - d + 1 = MaxTombstones
        BY <1>1, <4>1 DEF Shifted, n
      <4>3. CASE tombExpiry[tombOrder[p]] <= now
        BY <1>3, <3>1, <3>3, <4>3, ZenonT(30)
      <4>4. CASE n - d + 1 = MaxTombstones
        BY <1>2, <1>3, <3>1, <3>3, <4>1, <4>4
      <4> QED BY <4>2, <4>3, <4>4
    <3> QED BY <1>7, <3>1, <3>2, <3>3
  <2>4. SaltNotReaccepted'
    <3> SUFFICES ASSUME NEW i \in 1 .. m + 1, NEW j \in 1 .. m + 1, i < j,
                        accepted'[i].salt = accepted'[j].salt
                 PROVE  \/ accepted'[j].at >= accepted'[i].at + TTL
                        \/ j - i > MaxTombstones
      BY <1>3, SMTT(20) DEF SaltNotReaccepted
    <3>1. CASE j \in 1 .. m
      <4>1. i \in 1 .. m
        BY <1>2, <3>1
      <4> QED BY <1>2, <1>3, <3>1, <4>1, AcceptedType, Zenon
              DEF TombstoneInv, HistoryInv, SaltNotReaccepted, m
    <3>2. CASE j = m + 1
      <4>1. i \in 1 .. m /\ accepted[i].salt = salt
        BY <1>2, <1>3, <3>2
      <4>2. CASE accepted[i].at + TTL <= now \/ m - i >= MaxTombstones
        BY <1>2, <1>3, <3>2, <4>1, <4>2, TombstoneAssumption, SMTT(20)
      <4>3. ASSUME NEW p \in 1 .. n, accepted[i].salt = tombOrder[p],
                   accepted[i].at + TTL = tombExpiry[tombOrder[p]]
            PROVE  accepted'[j].at >= accepted'[i].at + TTL
        <5>1. ~(tombExpiry[salt] > now)
          BY DEF AcceptSalt, Tombstoned
        <5>2. ~(accepted[i].at + TTL > now)
          BY <4>1, <4>3, <5>1
        <5>3. accepted[i].at \in Nat /\ now \in Nat /\ TTL \in Nat
          BY <1>2, <4>1, TombstoneAssumption, ZenonT(30)
        <5>4. now >= accepted[i].at + TTL
          BY <5>2, <5>3
        <5>5. accepted'[j].at = now /\ accepted'[i] = accepted[i]
          BY <1>3, <3>2, <4>1
        <5> QED BY <5>4, <5>5
      <4> QED BY <1>7, <4>1, <4>2, <4>3
    <3> QED BY <1>2, <3>1, <3>2
  <2> QED BY <2>1, <2>2, <2>3, <2>4 DEF HistoryInv
<1> QED BY <1>5, <1>6, <1>8 DEF TombstoneInv

(* The sweep pops expired tombstones. *)
LEMMA SweepPreserves ==
    ASSUME TombstoneInv, SweepTombstones
    PROVE  TombstoneInv'
<1> DEFINE n == Len(tombOrder)
           m == Len(accepted)
<1>0. n \in Nat /\ tombOrder \in Seq(Salt) /\ now \in Nat /\ tombExpiry \in [Salt -> Nat]
      /\ m \in Nat /\ n <= m
  BY AcceptedType DEF TombstoneInv, TombstoneTypeOK, QueueInv
<1>1. PICK k \in 0 .. n :
         /\ PrunedOrder = SubSeq(tombOrder, k + 1, n)
         /\ \A p \in 1 .. k : tombExpiry[tombOrder[p]] <= now
         /\ \A p \in k + 1 .. n : tombExpiry[tombOrder[p]] > now
  BY PrunedIsSuffix
<1>2. /\ tombOrder' \in Seq(Salt) /\ Len(tombOrder') = n - k
      /\ \A p \in 1 .. n - k : tombOrder'[p] = tombOrder[k + p]
  BY <1>0, <1>1, SuffixFacts DEF SweepTombstones, PruneSaltTombstones
<1>3. tombExpiry' = [s \in Salt |-> IF s \in Range(tombOrder) \ Range(tombOrder')
                                    THEN 0 ELSE tombExpiry[s]]
  BY DEF SweepTombstones, PruneSaltTombstones, PrunedExpiry
<1>4. UNCHANGED <<now, accepted>>
  BY DEF SweepTombstones
<1>5. Dropped = m - n /\ Dropped' = (m - n) + k /\ k \in Nat /\ n - k \in Nat
  BY <1>0, <1>2, <1>4 DEF Dropped
<1>6. TombstoneTypeOK'
  BY <1>0, <1>2, <1>3, <1>4 DEF TombstoneTypeOK, TombstoneInv
<1> HIDE DEF n, m
<1>7. \A p \in 1 .. n - k : k + p \in 1 .. n
  BY <1>0, <1>5
<1>8. \A p \in 1 .. n - k : tombExpiry'[tombOrder'[p]] = tombExpiry[tombOrder[k + p]]
  <2> SUFFICES ASSUME NEW p \in 1 .. n - k
               PROVE  tombExpiry'[tombOrder'[p]] = tombExpiry[tombOrder[k + p]]
    OBVIOUS
  <2>1. tombOrder'[p] \in Salt /\ tombOrder'[p] \in Range(tombOrder')
    BY <1>2 DEF Range
  <2> QED BY <1>2, <1>3, <2>1
<1>9. QueueInv'
  <2>1. Len(tombOrder') <= Len(accepted') /\ Len(tombOrder') <= MaxTombstones
    <3>1. n <= MaxTombstones
      BY DEF TombstoneInv, QueueInv, n
    <3>2. n - k <= m /\ n - k <= MaxTombstones
      BY <1>0, <1>5, <3>1, TombstoneAssumption, SMTT(20)
    <3> QED BY <1>2, <1>4, <3>2 DEF m
  <2>2. ASSUME NEW p \in 1 .. Len(tombOrder')
        PROVE  /\ tombOrder'[p] = accepted'[Dropped' + p].salt
               /\ tombExpiry'[tombOrder'[p]] = accepted'[Dropped' + p].at + TTL
    <3>1. p \in 1 .. n - k
      BY <1>2
    <3>2. /\ tombOrder[k + p] = accepted[Dropped + (k + p)].salt
          /\ tombExpiry[tombOrder[k + p]] = accepted[Dropped + (k + p)].at + TTL
      BY <1>7, <3>1, ZenonT(30) DEF TombstoneInv, QueueInv, n
    <3>3. Dropped' + p = Dropped + (k + p)
      BY <1>0, <1>5, <3>1
    <3> QED BY <1>2, <1>4, <1>8, <3>1, <3>2, <3>3, ZenonT(30)
  <2>3. ASSUME NEW p \in 1 .. Len(tombOrder'), NEW q \in 1 .. Len(tombOrder'),
               tombOrder'[p] = tombOrder'[q]
        PROVE  p = q
    <3>1. p \in 1 .. n - k /\ q \in 1 .. n - k
      BY <1>2
    <3>2. k + p = k + q
      BY <1>2, <1>7, <2>3, <3>1, SMTT(20) DEF TombstoneInv, QueueInv, n
    <3> QED BY <1>5, <3>1, <3>2
  <2>4. ASSUME NEW s \in Salt, tombExpiry'[s] # 0
        PROVE  \E p \in 1 .. Len(tombOrder') : tombOrder'[p] = s
    <3>1. tombExpiry[s] # 0 /\ ~(s \in Range(tombOrder) \ Range(tombOrder'))
      BY <1>3, <2>4
    <3>2. s \in Range(tombOrder)
      BY <1>0, <3>1, SMTT(20) DEF TombstoneInv, QueueInv, Range, n
    <3> QED BY <1>2, <3>1, <3>2 DEF Range
  <2> QED BY <2>1, <2>2, <2>3, <2>4 DEF QueueInv
<1>10. HistoryInv'
  <2>1. ASSUME NEW i \in 1 .. (m - n) + k
        PROVE  accepted[i].at + TTL <= now \/ m - i >= MaxTombstones
    <3>1. CASE i \in 1 .. m - n
      BY <1>5, <3>1, ZenonT(30) DEF TombstoneInv, HistoryInv, m
    <3>2. CASE i \notin 1 .. m - n
      <4>1. i - (m - n) \in 1 .. k /\ i = (m - n) + (i - (m - n)) /\ i - (m - n) \in 1 .. n
        BY <1>0, <1>5, <3>2, SMTT(20)
      <4>2. tombExpiry[tombOrder[i - (m - n)]] = accepted[i].at + TTL
        BY <1>5, <4>1, ZenonT(30) DEF TombstoneInv, QueueInv, n
      <4> QED BY <1>1, <4>1, <4>2, ZenonT(30)
    <3> QED BY <3>1, <3>2, ZenonT(30)
  <2>2. \A i \in 1 .. Dropped' :
           accepted'[i].at + TTL <= now' \/ Len(accepted') - i >= MaxTombstones
    BY <1>4, <1>5, <2>1, Zenon DEF m
  <2>3. SaltNotReaccepted'
    BY <1>4 DEF TombstoneInv, HistoryInv, SaltNotReaccepted
  <2> QED BY <1>4, <2>2, <2>3 DEF TombstoneInv, HistoryInv
<1> QED BY <1>6, <1>9, <1>10 DEF TombstoneInv

(* Time passes. *)
LEMMA ClockPreserves ==
    ASSUME TombstoneInv, AdvanceClock
    PROVE  TombstoneInv'
<1>1. /\ now \in Nat /\ now' = now + 1
      /\ UNCHANGED <<tombExpiry, tombOrder, accepted>>
      /\ \A i \in 1 .. Len(accepted) : accepted[i].at \in Nat
  BY AcceptedType, ZenonT(30) DEF AdvanceClock, TombstoneInv, TombstoneTypeOK
<1>2. TombstoneTypeOK'
  BY <1>1 DEF TombstoneInv, TombstoneTypeOK
<1>3. QueueInv'
  BY <1>1 DEF TombstoneInv, QueueInv, Dropped
<1>4. HistoryInv'
  <2>1. \A i \in 1 .. Len(accepted) : accepted[i].at <= now'
    BY <1>1 DEF TombstoneInv, HistoryInv
  <2>2. \A i \in 1 .. Len(accepted) : accepted[i].at + TTL <= now => accepted[i].at + TTL <= now'
    BY <1>1, TombstoneAssumption, SMTT(20)
  <2>3. \A i \in 1 .. Dropped : i \in 1 .. Len(accepted)
    BY AcceptedType DEF TombstoneInv, TombstoneTypeOK, Dropped
  <2>4. \A i \in 1 .. Dropped :
           accepted[i].at + TTL <= now' \/ Len(accepted) - i >= MaxTombstones
    BY <2>2, <2>3, ZenonT(30) DEF TombstoneInv, HistoryInv
  <2>5. Dropped' = Dropped /\ SaltNotReaccepted'
    BY <1>1 DEF Dropped, TombstoneInv, HistoryInv, SaltNotReaccepted
  <2> QED BY <1>1, <2>1, <2>4, <2>5, ZenonT(30) DEF TombstoneInv, HistoryInv
<1> QED BY <1>2, <1>3, <1>4 DEF TombstoneInv

(* The invariant is inductive. *)
THEOREM TombstoneInvHolds == TombstoneSpec => []TombstoneInv
<1>1. TombstoneInit => TombstoneInv
  BY TombstoneInvInit
<1>2. TombstoneInv /\ [TombstoneNext]_tombstoneVars => TombstoneInv'
  <2> SUFFICES ASSUME TombstoneInv, [TombstoneNext]_tombstoneVars PROVE TombstoneInv'
    OBVIOUS
  <2>1. ASSUME NEW salt \in Salt, AcceptSalt(salt) PROVE TombstoneInv'
    BY <2>1, AcceptPreserves
  <2>2. CASE SweepTombstones
    BY <2>2, SweepPreserves
  <2>3. CASE AdvanceClock
    BY <2>3, ClockPreserves, ZenonT(30)
  <2>4. CASE UNCHANGED tombstoneVars
    BY <2>4 DEF tombstoneVars, TombstoneInv, TombstoneTypeOK, QueueInv, HistoryInv, Dropped,
                SaltNotReaccepted
  <2> QED BY <2>1, <2>2, <2>3, <2>4 DEF TombstoneNext
<1> QED BY <1>1, <1>2, PTL DEF TombstoneSpec

(* prune_salt_tombstones_locked and remember_salt_locked keep the map and its *)
(* order queue in step, whatever their size and however the clock moves.      *)
THEOREM TombstonesStayInStep == TombstoneSpec => []TombstonesInStep
<1>1. TombstoneInv => TombstonesInStep
  <2> SUFFICES ASSUME TombstoneInv PROVE TombstonesInStep
    OBVIOUS
  <2>1. DOMAIN tombOrder = 1 .. Len(tombOrder) /\ \A p \in 1 .. Len(tombOrder) : tombOrder[p] \in Salt
    BY DEF TombstoneInv, TombstoneTypeOK
  <2>2. IsInjective(tombOrder)
    BY <2>1 DEF IsInjective, TombstoneInv, QueueInv
  <2>3. \A p \in 1 .. Len(tombOrder) : tombExpiry[tombOrder[p]] # 0
    <3> SUFFICES ASSUME NEW p \in 1 .. Len(tombOrder) PROVE tombExpiry[tombOrder[p]] # 0
      OBVIOUS
    <3>1. Dropped + p \in 1 .. Len(accepted)
      BY AcceptedType DEF TombstoneInv, TombstoneTypeOK, QueueInv, Dropped
    <3>2. accepted[Dropped + p].at \in Nat
      BY <3>1, AcceptedType DEF TombstoneInv
    <3>3. tombExpiry[tombOrder[p]] = accepted[Dropped + p].at + TTL
      BY DEF TombstoneInv, QueueInv
    <3> QED BY <3>2, <3>3, TombstoneAssumption
  <2>4. Range(tombOrder) = {s \in Salt : tombExpiry[s] # 0}
    BY <2>1, <2>3 DEF Range, TombstoneInv, QueueInv
  <2> QED BY <2>1, <2>2, <2>4, QueueSorted DEF TombstonesInStep, TombstoneInv, QueueInv
<1> QED BY <1>1, TombstoneInvHolds, PTL

(* get_or_create_session accepts a salt a second time only one TTL later or   *)
(* after more acceptances than there is room for tombstones.                  *)
THEOREM SaltsNotReaccepted == TombstoneSpec => []SaltNotReaccepted
<1>1. TombstoneInv => SaltNotReaccepted
  BY DEF TombstoneInv, HistoryInv
<1> QED BY <1>1, TombstoneInvHolds, PTL
=============================================================================
