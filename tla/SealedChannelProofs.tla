------------------------ MODULE SealedChannelProofs ------------------------
(***************************************************************************)
(* Theorems about the sealed datagram layer, for every window width, nonce *)
(* space, set of salts and starting counter.                               *)
(***************************************************************************)
EXTENDS SealedChannel, TLAPS

(***************************************************************************)
(* The window fields of a receiver are a faithful summary of its delivery  *)
(* history: highest is the largest delivered counter, and inside the       *)
(* window a bit is set exactly when its counter was delivered.             *)
(***************************************************************************)
Summary(any, high, win, del) ==
    /\ ~any => \A c \in Counter : del[c] = 0
    /\ any => del[high] = 1
    /\ \A c \in Counter : del[c] > 0 => c <= high
    /\ any => \A c \in Counter :
          c < high /\ high - c <= W => (del[c] > 0 <=> high - c - 1 \in win)
    /\ \A c \in Counter : del[c] <= 1

ReceiveInv ==
    /\ TypeOK
    /\ \A e \in End :
          /\ Summary(anyReceived[e], highest[e], window[e], delivered[e])
          /\ sessionSalt[e] = NoSalt => ~anyReceived[e]

(* Facts about the numbers involved that every step below needs. *)
LEMMA CounterFacts ==
    /\ Counter \subseteq Nat
    /\ 0 \in Counter
    /\ \A c \in 0 .. MaxCounter : c < MaxCounter => c \in Counter
BY ConstantsAssumption DEF Counter

(* The initial objects satisfy the receive invariant. *)
LEMMA ReceiveInvInit == Init => ReceiveInv
BY CounterFacts, ConstantsAssumption
   DEF Init, ReceiveInv, TypeOK, Summary, End, Client, Server, Counter

(* check_replay_window admits a counter only if it was never delivered. *)
LEMMA CheckedIsFresh ==
    ASSUME NEW any \in BOOLEAN, NEW high \in Counter, NEW win \in SUBSET (0 .. W - 1),
           NEW del \in [Counter -> Nat], NEW c \in Counter,
           Summary(any, high, win, del),
           CheckReplayWindow(any, high, win, c)
    PROVE  del[c] = 0
BY CounterFacts, ConstantsAssumption DEF Summary, CheckReplayWindow

(* commit_replay_window keeps the bitmap inside its width. *)
LEMMA CommitType ==
    ASSUME NEW any \in BOOLEAN, NEW high \in Counter, NEW win \in SUBSET (0 .. W - 1),
           NEW c \in Counter
    PROVE  /\ CommitWindow(any, high, win, c) \in SUBSET (0 .. W - 1)
           /\ CommitHighest(any, high, c) \in Counter
BY CounterFacts, ConstantsAssumption DEF CommitWindow, CommitHighest, ShiftWindow

(* What one more tally of a counter changes. *)
LEMMA TallyFacts ==
    ASSUME NEW hist \in [Counter -> Nat], NEW c \in Counter
    PROVE  /\ Tally(hist, c) \in [Counter -> Nat]
           /\ Tally(hist, c)[c] = hist[c] + 1
           /\ \A k \in Counter : k # c => Tally(hist, c)[k] = hist[k]
BY DEF Tally

(* Committing a checked counter keeps the summary faithful: after a slide, a  *)
(* jump past the window, or a late datagram.                                  *)
LEMMA CommitSummarises ==
    ASSUME NEW any \in BOOLEAN, NEW high \in Counter, NEW win \in SUBSET (0 .. W - 1),
           NEW del \in [Counter -> Nat], NEW c \in Counter,
           Summary(any, high, win, del),
           CheckReplayWindow(any, high, win, c)
    PROVE  Summary(TRUE, CommitHighest(any, high, c), CommitWindow(any, high, win, c),
                   Tally(del, c))
<1> DEFINE del2 == Tally(del, c)
<1>0. del[c] = 0 BY CheckedIsFresh
<1>1. /\ del2 \in [Counter -> Nat]
      /\ del2[c] = 1
      /\ \A k \in Counter : k # c => del2[k] = del[k]
  BY <1>0, TallyFacts
<1> SUFFICES Summary(TRUE, CommitHighest(any, high, c), CommitWindow(any, high, win, c), del2)
  BY Zenon
<1> HIDE DEF del2
<1>2. CASE ~any
  BY <1>1, <1>2, CounterFacts, ConstantsAssumption
     DEF Summary, CommitHighest, CommitWindow
<1>3. CASE any /\ c > high /\ c - high > W
  BY <1>1, <1>3, CounterFacts, ConstantsAssumption
     DEF Summary, CommitHighest, CommitWindow
<1>4. CASE any /\ c > high /\ ~(c - high > W)
  <2>1. /\ CommitHighest(any, high, c) = c
        /\ CommitWindow(any, high, win, c) = ShiftWindow(win, c - high) \cup {c - high - 1}
    BY <1>4 DEF CommitHighest, CommitWindow
  <2>2. ASSUME NEW k \in Counter, k < c, c - k <= W
        PROVE  del2[k] > 0 <=> c - k - 1 \in ShiftWindow(win, c - high) \cup {c - high - 1}
    <3>1. CASE k = high
      BY <1>1, <1>4, <3>1, CounterFacts DEF Summary
    <3>2. CASE k > high
      BY <1>1, <1>4, <2>2, <3>2, CounterFacts, ConstantsAssumption DEF Summary, ShiftWindow
    <3>3. CASE k < high
      <4>1. /\ high - k <= W
            /\ del2[k] = del[k]
        BY <1>1, <1>4, <2>2, <3>3, CounterFacts, ConstantsAssumption
      <4>2. del[k] > 0 <=> high - k - 1 \in win
        BY <1>4, <3>3, <4>1 DEF Summary
      <4>3. c - k - 1 \in ShiftWindow(win, c - high) <=> high - k - 1 \in win
        BY <1>4, <2>2, <3>3, CounterFacts, ConstantsAssumption DEF ShiftWindow
      <4>4. c - k - 1 # c - high - 1
        BY <3>3, CounterFacts
      <4> QED BY <4>1, <4>2, <4>3, <4>4
    <3> QED BY <3>1, <3>2, <3>3, CounterFacts
  <2>3. \A k \in Counter : del2[k] > 0 => k <= c
    BY <1>1, <1>4, CounterFacts DEF Summary
  <2>4. \A k \in Counter : del2[k] <= 1
    BY <1>1 DEF Summary
  <2> QED BY <1>1, <2>1, <2>2, <2>3, <2>4 DEF Summary
<1>5. CASE any /\ c < high
  <2>1. /\ CommitHighest(any, high, c) = high
        /\ CommitWindow(any, high, win, c) = win \cup {high - c - 1}
    BY <1>5, CounterFacts DEF CommitHighest, CommitWindow, CheckReplayWindow
  <2>2. ASSUME NEW k \in Counter, k < high, high - k <= W
        PROVE  del2[k] > 0 <=> high - k - 1 \in win \cup {high - c - 1}
    <3>1. CASE k = c
      BY <1>1, <3>1
    <3>2. CASE k # c
      <4>1. high - k - 1 # high - c - 1
        BY <3>2, CounterFacts
      <4>2. del[k] > 0 <=> high - k - 1 \in win
        BY <1>5, <2>2 DEF Summary
      <4> QED BY <1>1, <3>2, <4>1, <4>2
    <3> QED BY <3>1, <3>2
  <2>3. \A k \in Counter : del2[k] > 0 => k <= high
    BY <1>1, <1>5, CounterFacts DEF Summary
  <2>4. \A k \in Counter : del2[k] <= 1
    BY <1>1 DEF Summary
  <2>5. del2[high] = 1
    BY <1>1, <1>5, CounterFacts DEF Summary
  <2> QED BY <2>1, <2>2, <2>3, <2>4, <2>5 DEF Summary
<1> QED
  BY <1>2, <1>3, <1>4, <1>5, CounterFacts, Zenon DEF CheckReplayWindow

-----------------------------------------------------------------------------
(* Each branch of encrypt_impl and decrypt_impl keeps the receive invariant. *)
LEMMA ReceiveInvStep == ReceiveInv /\ [Next]_vars => ReceiveInv'
<1> SUFFICES ASSUME ReceiveInv, [Next]_vars PROVE ReceiveInv'
  OBVIOUS
<1> USE CounterFacts, ConstantsAssumption
<1>1. ASSUME NEW e \in End, NEW cipherOk \in BOOLEAN, Encrypt(e, cipherOk)
      PROVE  ReceiveInv'
  <2>1. encryptCounter' \in [End -> Nat]
    BY <1>1 DEF ReceiveInv, TypeOK, Encrypt
  <2>2. wire' \subseteq Datagram /\ sealed' \in [End -> [Counter -> Nat]]
    <3>1. CASE encryptCounter[e] < MaxCounter /\ cipherOk
      <4>1. encryptCounter[e] \in Counter
        BY <3>1 DEF ReceiveInv, TypeOK, Counter
      <4>2. [salt |-> sessionSalt[e], dir |-> e, ctr |-> encryptCounter[e], auth |-> TRUE]
              \in Datagram
        BY <1>1, <4>1 DEF ReceiveInv, TypeOK, Encrypt, Datagram, Counter
      <4>3. Tally(sealed[e], encryptCounter[e]) \in [Counter -> Nat]
        BY <4>1, TallyFacts, Zenon DEF ReceiveInv, TypeOK
      <4> QED BY <1>1, <3>1, <4>2, <4>3, ZenonT(30) DEF ReceiveInv, TypeOK, Encrypt, Seal
    <3>2. CASE ~(encryptCounter[e] < MaxCounter /\ cipherOk)
      BY <1>1, <3>2 DEF ReceiveInv, TypeOK, Encrypt
    <3> QED BY <3>1, <3>2
  <2> QED BY <1>1, <2>1, <2>2 DEF ReceiveInv, TypeOK, Encrypt
<1>2. ASSUME NEW e \in End, NEW d \in Arriving, DecryptAccepts(e, d)
      PROVE  ReceiveInv'
  <2>1. d \in Datagram /\ d.salt \in Salt /\ d.ctr \in Counter
    BY <1>2 DEF Arriving, ReceiveInv, TypeOK, Datagram, DecryptAccepts, HeaderAcceptable
  <2>2. CheckReplayWindow(anyReceived[e], highest[e], window[e], d.ctr)
    BY <1>2 DEF DecryptAccepts, HeaderAcceptable
  <2>3. /\ sessionSalt' \in [End -> Salt \cup {NoSalt}]
        /\ encryptCounter' \in [End -> Nat]
        /\ pskHeld' \in [End -> BOOLEAN]
        /\ sessionSalt'[e] # NoSalt
        /\ \A f \in End : f # e => sessionSalt'[f] = sessionSalt[f]
    <3>1. CASE Learning(e)
      <4>1. StartCounter[d.salt] \in Nat
        BY <2>1
      <4> QED BY <1>2, <2>1, <3>1, <4>1, ZenonT(30)
                 DEF DecryptAccepts, KeepOrDerive, DeriveSessionKeys, ReceiveInv, TypeOK
    <3>2. CASE ~Learning(e)
      BY <1>2, <3>2 DEF DecryptAccepts, KeepOrDerive, Learning, ReceiveInv, TypeOK
    <3> QED BY <3>1, <3>2
  <2>4. /\ anyReceived' = [anyReceived EXCEPT ![e] = TRUE]
        /\ highest' = [highest EXCEPT ![e] =
                          CommitHighest(anyReceived[e], highest[e], d.ctr)]
        /\ window' = [window EXCEPT ![e] =
                         CommitWindow(anyReceived[e], highest[e], window[e], d.ctr)]
        /\ delivered' = [delivered EXCEPT ![e] = Tally(@, d.ctr)]
        /\ UNCHANGED <<wire, sealed>>
    BY <1>2 DEF DecryptAccepts, CommitReplayWindow
  <2>0. /\ anyReceived \in [End -> BOOLEAN] /\ highest \in [End -> Counter]
        /\ window \in [End -> SUBSET (0 .. W - 1)]
        /\ delivered \in [End -> [Counter -> Nat]]
    BY DEF ReceiveInv, TypeOK
  <2>5. TypeOK'
    <3>1. /\ CommitWindow(anyReceived[e], highest[e], window[e], d.ctr) \in SUBSET (0 .. W - 1)
          /\ CommitHighest(anyReceived[e], highest[e], d.ctr) \in Counter
      BY <2>0, <2>1, CommitType, Zenon
    <3>2. Tally(delivered[e], d.ctr) \in [Counter -> Nat]
      BY <2>0, <2>1, TallyFacts, ZenonT(30)
    <3>3. anyReceived' \in [End -> BOOLEAN]
      BY <2>0, <2>4
    <3>4. highest' \in [End -> Counter]
      BY <2>0, <2>4, <3>1
    <3>5. window' \in [End -> SUBSET (0 .. W - 1)]
      BY <2>0, <2>4, <3>1
    <3>6. delivered' \in [End -> [Counter -> Nat]]
      BY <2>0, <2>4, <3>2
    <3> QED BY <2>3, <2>4, <3>3, <3>4, <3>5, <3>6 DEF ReceiveInv, TypeOK
  <2>6. Summary(anyReceived'[e], highest'[e], window'[e], delivered'[e])
    <3>1. Summary(anyReceived[e], highest[e], window[e], delivered[e])
      BY DEF ReceiveInv
    <3>2. /\ anyReceived'[e] = TRUE
          /\ highest'[e] = CommitHighest(anyReceived[e], highest[e], d.ctr)
          /\ window'[e] = CommitWindow(anyReceived[e], highest[e], window[e], d.ctr)
          /\ delivered'[e] = Tally(delivered[e], d.ctr)
      BY <2>0, <2>4
    <3>3. /\ anyReceived[e] \in BOOLEAN /\ highest[e] \in Counter
          /\ window[e] \in SUBSET (0 .. W - 1) /\ delivered[e] \in [Counter -> Nat]
      BY <2>0
    <3>4. Summary(TRUE, CommitHighest(anyReceived[e], highest[e], d.ctr),
                  CommitWindow(anyReceived[e], highest[e], window[e], d.ctr),
                  Tally(delivered[e], d.ctr))
      BY <2>1, <2>2, <3>1, <3>3, CommitSummarises, Zenon
    <3> QED BY <3>2, <3>4, Zenon
  <2>7. ASSUME NEW f \in End, f # e
        PROVE  /\ Summary(anyReceived'[f], highest'[f], window'[f], delivered'[f])
               /\ sessionSalt'[f] = NoSalt => ~anyReceived'[f]
    <3>1. /\ anyReceived'[f] = anyReceived[f] /\ highest'[f] = highest[f]
          /\ window'[f] = window[f] /\ delivered'[f] = delivered[f]
      BY <2>0, <2>4, <2>7
    <3> QED BY <2>3, <2>7, <3>1 DEF ReceiveInv
  <2> QED BY <2>3, <2>5, <2>6, <2>7 DEF ReceiveInv
<1>3. ASSUME NEW e \in End, NEW d \in Arriving, DecryptForgets(e, d)
      PROVE  ReceiveInv'
  <2>1. TypeOK'
    BY <1>3 DEF DecryptForgets, ForgetLearnedSalt, ReceiveInv, TypeOK
  <2>2. /\ ~anyReceived[e]
        /\ \A c \in Counter : delivered'[e][c] = 0
        /\ ~anyReceived'[e]
    BY <1>3 DEF DecryptForgets, ForgetLearnedSalt, Learning, ReceiveInv, TypeOK, Summary
  <2>3. Summary(anyReceived'[e], highest'[e], window'[e], delivered'[e])
    <3>0. ~(0 > 0) /\ 0 <= 1
      OBVIOUS
    <3>1. \A c \in Counter : ~(delivered'[e][c] > 0) /\ delivered'[e][c] <= 1
      BY <2>2, <3>0, ZenonT(30)
    <3> QED BY <2>2, <3>1, Zenon DEF Summary
  <2>4. ASSUME NEW f \in End, f # e
        PROVE  /\ Summary(anyReceived'[f], highest'[f], window'[f], delivered'[f])
               /\ sessionSalt'[f] = NoSalt => ~anyReceived'[f]
    <3>1. /\ anyReceived'[f] = anyReceived[f] /\ highest'[f] = highest[f]
          /\ window'[f] = window[f] /\ delivered'[f] = delivered[f]
          /\ sessionSalt'[f] = sessionSalt[f]
      BY <1>3, <2>4, ZenonT(30) DEF DecryptForgets, ForgetLearnedSalt, ReceiveInv, TypeOK
    <3> QED BY <3>1 DEF ReceiveInv
  <2> QED BY <2>1, <2>2, <2>3, <2>4 DEF ReceiveInv
<1>4. ASSUME NEW e \in End, NEW d \in Arriving, DecryptCipherFails(e, d)
      PROVE  ReceiveInv'
  <2>1. d.salt \in Salt
    BY <1>4, ZenonT(30) DEF Arriving, ReceiveInv, TypeOK, Datagram
  <2>2. TypeOK'
    BY <1>4, <2>1, Zenon DEF DecryptCipherFails, DeriveSessionKeys, ReceiveInv, TypeOK, Counter
  <2> QED BY <1>4, <2>1, <2>2 DEF DecryptCipherFails, DeriveSessionKeys, ReceiveInv, TypeOK
<1>5. ASSUME UNCHANGED vars
      PROVE  ReceiveInv'
  BY <1>5 DEF vars, cryptoVars, ReceiveInv, TypeOK
<1> QED BY <1>1, <1>2, <1>3, <1>4, <1>5 DEF Next, DecryptRefuses

(* The receive invariant holds throughout every session. *)
THEOREM ReceiveInvHolds == Spec => []ReceiveInv
BY ReceiveInvInit, ReceiveInvStep, PTL DEF Spec

(* For every window width and nonce space, a counter is delivered at most     *)
(* once: what decrypt_impl promises the KCP layer above it.                   *)
THEOREM AtMostOnceHolds == Spec => []AtMostOnce
<1>1. ReceiveInv => AtMostOnce BY DEF ReceiveInv, Summary, AtMostOnce
<1> QED BY <1>1, ReceiveInvHolds, PTL

(* The bitmap never leaves its W positions and every field keeps its type.    *)
THEOREM TypeOKHolds == Spec => []TypeOK
<1>1. ReceiveInv => TypeOK BY DEF ReceiveInv
<1> QED BY <1>1, ReceiveInvHolds, PTL

(* check_replay_window is exact for the last W counters: fresh datagrams are  *)
(* never refused inside the window, repeated ones never accepted.             *)
THEOREM WindowExactHolds == Spec => []WindowExact
<1>1. ReceiveInv => WindowExact
  <2> SUFFICES ASSUME ReceiveInv, NEW e \in End, NEW c \in Counter, anyReceived[e]
               PROVE  CheckReplayWindow(anyReceived[e], highest[e], window[e], c)
                        <=> delivered[e][c] = 0 /\ highest[e] - c <= W
    BY Zenon DEF WindowExact
  <2>1. /\ highest[e] \in Counter /\ delivered[e] \in [Counter -> Nat]
        /\ delivered[e][highest[e]] = 1
        /\ delivered[e][c] > 0 => c <= highest[e]
        /\ c < highest[e] /\ highest[e] - c <= W
             => (delivered[e][c] > 0 <=> highest[e] - c - 1 \in window[e])
    BY DEF ReceiveInv, TypeOK, Summary
  <2>2. /\ delivered[e][c] \in Nat /\ c \in Nat /\ highest[e] \in Nat /\ W \in Nat
        /\ c = highest[e] => delivered[e][c] = 1
    BY <2>1, CounterFacts, ConstantsAssumption, ZenonT(30)
  <2>3. /\ c > highest[e] => delivered[e][c] = 0 /\ highest[e] - c <= W
        /\ c = highest[e] => delivered[e][c] # 0 /\ ~(c > highest[e]) /\ ~(c < highest[e])
        /\ c < highest[e] => ~(c > highest[e])
        /\ delivered[e][c] = 0 <=> ~(delivered[e][c] > 0)
        /\ c > highest[e] \/ c = highest[e] \/ c < highest[e]
    BY <2>1, <2>2
  <2> QED BY <2>1, <2>3, Zenon DEF CheckReplayWindow
<1> QED BY <1>1, ReceiveInvHolds, PTL

(* highest_received_ is always a counter that really was delivered, and the   *)
(* largest one: nothing that fails authentication moves the window.           *)
THEOREM HighestGenuineHolds == Spec => []HighestGenuine
<1>1. ReceiveInv => HighestGenuine
  <2> SUFFICES ASSUME ReceiveInv, NEW e \in End
               PROVE  /\ anyReceived[e] => delivered[e][highest[e]] > 0
                      /\ \A c \in Counter :
                            delivered[e][c] > 0 => anyReceived[e] /\ c <= highest[e]
    BY ZenonT(30) DEF HighestGenuine
  <2>1. anyReceived[e] => delivered[e][highest[e]] > 0
    BY SMTT(20) DEF ReceiveInv, Summary
  <2>2. ASSUME NEW c \in Counter, delivered[e][c] > 0
        PROVE  anyReceived[e] /\ c <= highest[e]
    BY <2>2, SMTT(20) DEF ReceiveInv, Summary
  <2> QED BY <2>1, <2>2
<1> QED BY <1>1, ReceiveInvHolds, PTL

-----------------------------------------------------------------------------
(***************************************************************************)
(* Sealing: counters at or above encrypt_counter_ are unused, and an end   *)
(* without keys has sealed nothing, so that deriving keys may set the      *)
(* counter back to the salt's start.                                       *)
(***************************************************************************)
SealInv ==
    \A e \in End :
        /\ \A c \in Counter : sealed[e][c] <= 1
        /\ \A c \in Counter : c >= encryptCounter[e] => sealed[e][c] = 0
        /\ Learning(e) => \A c \in Counter : sealed[e][c] = 0

(* encrypt_impl and the derivations in decrypt_impl keep the sealing invariant. *)
LEMMA SealInvStep == ReceiveInv /\ SealInv /\ [Next]_vars => SealInv'
<1> SUFFICES ASSUME ReceiveInv, SealInv, [Next]_vars, NEW f \in End
             PROVE  (/\ \A c \in Counter : sealed[f][c] <= 1
                     /\ \A c \in Counter : c >= encryptCounter[f] => sealed[f][c] = 0
                     /\ Learning(f) => \A c \in Counter : sealed[f][c] = 0)'
  BY Zenon DEF SealInv
<1>0. /\ sealed \in [End -> [Counter -> Nat]] /\ encryptCounter \in [End -> Nat]
      /\ sessionSalt \in [End -> Salt \cup {NoSalt}] /\ pskHeld \in [End -> BOOLEAN]
  BY DEF ReceiveInv, TypeOK
<1>1. ASSUME NEW e \in End, NEW cipherOk \in BOOLEAN, Encrypt(e, cipherOk), f = e
      PROVE  /\ \A c \in Counter : sealed'[f][c] <= 1
             /\ \A c \in Counter : c >= encryptCounter'[f] => sealed'[f][c] = 0
             /\ sessionSalt'[f] # NoSalt
  <2>1. encryptCounter'[e] = encryptCounter[e] + 1 /\ sessionSalt'[e] # NoSalt
    BY <1>0, <1>1, ZenonT(30) DEF Encrypt
  <2>2. CASE encryptCounter[e] < MaxCounter /\ cipherOk
    <3>1. encryptCounter[e] \in Counter
      BY <1>0, <2>2, ConstantsAssumption DEF Counter
    <3>2. sealed'[e] = Tally(sealed[e], encryptCounter[e])
      BY <1>0, <1>1, <2>2 DEF Encrypt, Seal
    <3>3. /\ sealed'[e][encryptCounter[e]] = sealed[e][encryptCounter[e]] + 1
          /\ \A c \in Counter : c # encryptCounter[e] => sealed'[e][c] = sealed[e][c]
      BY <1>0, <3>1, <3>2, TallyFacts
    <3>4. sealed[e][encryptCounter[e]] = 0
      BY <1>0, <3>1, SMTT(20) DEF SealInv
    <3> QED BY <1>0, <1>1, <2>1, <3>1, <3>3, <3>4, CounterFacts, SMTT(20) DEF SealInv
  <2>3. CASE ~(encryptCounter[e] < MaxCounter /\ cipherOk)
    <3>1. sealed' = sealed
      BY <1>1, <2>3, ZenonT(30) DEF Encrypt
    <3> QED BY <1>0, <1>1, <2>1, <3>1, CounterFacts, SMTT(20) DEF SealInv
  <2> QED BY <2>2, <2>3
<1>2. ASSUME Learning(f), sealed' = sealed
      PROVE  \A c \in Counter : sealed'[f][c] = 0
  BY <1>2, ZenonT(30) DEF SealInv
<1>3. ASSUME sealed'[f] = sealed[f], encryptCounter'[f] = encryptCounter[f],
             sessionSalt'[f] = sessionSalt[f]
      PROVE  (/\ \A c \in Counter : sealed[f][c] <= 1
              /\ \A c \in Counter : c >= encryptCounter[f] => sealed[f][c] = 0
              /\ Learning(f) => \A c \in Counter : sealed[f][c] = 0)'
  BY <1>3, ZenonT(30) DEF SealInv, Learning
<1>4. ASSUME NEW e \in End, NEW cipherOk \in BOOLEAN, Encrypt(e, cipherOk), f # e
      PROVE  sealed'[f] = sealed[f] /\ encryptCounter'[f] = encryptCounter[f]
             /\ sessionSalt'[f] = sessionSalt[f]
  BY <1>0, <1>4, ZenonT(30) DEF Encrypt, Seal
<1>5. ASSUME NEW e \in End, NEW d \in Arriving,
             DecryptAccepts(e, d) \/ DecryptForgets(e, d) \/ DecryptCipherFails(e, d)
      PROVE  /\ sealed' = sealed
             /\ \/ Learning(f)
                \/ encryptCounter'[f] = encryptCounter[f] /\ sessionSalt'[f] = sessionSalt[f]
  BY <1>0, <1>5, ZenonT(30) DEF DecryptAccepts, DecryptForgets, DecryptCipherFails, KeepOrDerive,
                    DeriveSessionKeys, ForgetLearnedSalt, Learning
<1>6. ASSUME UNCHANGED vars
      PROVE  sealed' = sealed /\ encryptCounter' = encryptCounter /\ sessionSalt' = sessionSalt
  BY <1>6 DEF vars, cryptoVars
<1>7. ASSUME \A c \in Counter : sealed'[f][c] = 0
      PROVE  \A c \in Counter : sealed'[f][c] <= 1
  BY <1>7, SMTT(20)
<1> QED
  BY <1>1, <1>2, <1>3, <1>4, <1>5, <1>6, <1>7, ZenonT(30) DEF Next, DecryptRefuses, Learning

(* No two datagrams of one end are sealed under one counter, for every nonce  *)
(* space and however often the cipher fails in between.                       *)
THEOREM NonceUniqueHolds == Spec => []NonceUnique
<1>1. Init => SealInv
  BY SMTT(20) DEF Init, SealInv
<1>2. SealInv => NonceUnique
  BY ZenonT(30) DEF SealInv, NonceUnique
<1> QED BY <1>1, <1>2, SealInvStep, ReceiveInvHolds, PTL DEF Spec

-----------------------------------------------------------------------------
(***************************************************************************)
(* The two directions as channels.  What is on the wire was sealed by the  *)
(* end it names, under the salt that end still has: a salt once learned is *)
(* never exchanged for another.                                            *)
(***************************************************************************)
WireInv ==
    /\ sessionSalt[Client] = ClientSalt
    /\ \A d \in wire :
          /\ d.auth /\ d.salt = sessionSalt[d.dir] /\ d.salt # NoSalt
          /\ d.ctr \in Counter /\ sealed[d.dir][d.ctr] > 0

ChannelInv == ReceiveInv /\ SealInv /\ WireInv

(* A step keeps a salt once it is there, and only adds to what was sealed.     *)
LEMMA StepFacts ==
    ASSUME ReceiveInv, SealInv, [Next]_vars, NEW f \in End
    PROVE  /\ sessionSalt[f] # NoSalt => sessionSalt'[f] = sessionSalt[f]
           /\ \A c \in Counter : sealed[f][c] > 0 => sealed'[f][c] > 0
<1>0. /\ sealed \in [End -> [Counter -> Nat]] /\ encryptCounter \in [End -> Nat]
      /\ sessionSalt \in [End -> Salt \cup {NoSalt}]
  BY ZenonT(30) DEF ReceiveInv, TypeOK
<1>1. ASSUME NEW e \in End, NEW cipherOk \in BOOLEAN, Encrypt(e, cipherOk)
      PROVE  /\ sessionSalt' = sessionSalt
             /\ \A c \in Counter : sealed[f][c] > 0 => sealed'[f][c] > 0
  <2>1. sessionSalt' = sessionSalt
    BY <1>1 DEF Encrypt
  <2>2. CASE encryptCounter[e] < MaxCounter /\ cipherOk
    <3>1. encryptCounter[e] \in Counter
      BY <1>0, <2>2, ConstantsAssumption, SMTT(20) DEF Counter
    <3>2. sealed' = [sealed EXCEPT ![e] = Tally(@, encryptCounter[e])]
      BY <1>1, <2>2 DEF Encrypt, Seal
    <3>3. \A c \in Counter : sealed[e][c] > 0 => Tally(sealed[e], encryptCounter[e])[c] > 0
      <4>1. sealed[e] \in [Counter -> Nat]
        BY <1>0, ZenonT(30)
      <4>2. /\ Tally(sealed[e], encryptCounter[e])[encryptCounter[e]]
                  = sealed[e][encryptCounter[e]] + 1
            /\ \A c \in Counter : c # encryptCounter[e]
                  => Tally(sealed[e], encryptCounter[e])[c] = sealed[e][c]
        BY <3>1, <4>1, TallyFacts
      <4>3. sealed[e][encryptCounter[e]] + 1 > 0
        BY <3>1, <4>1
      <4> QED BY <4>2, <4>3, Zenon
    <3> QED BY <1>0, <2>1, <3>2, <3>3
  <2>3. CASE ~(encryptCounter[e] < MaxCounter /\ cipherOk)
    BY <1>1, <2>1, <2>3, ZenonT(30) DEF Encrypt
  <2> QED BY <2>2, <2>3, ZenonT(30)
<1>2. ASSUME NEW e \in End, NEW d \in Arriving,
             DecryptAccepts(e, d) \/ DecryptForgets(e, d) \/ DecryptCipherFails(e, d)
      PROVE  /\ sealed' = sealed
             /\ sessionSalt[f] # NoSalt => sessionSalt'[f] = sessionSalt[f]
  BY <1>0, <1>2, ZenonT(30) DEF DecryptAccepts, DecryptForgets, DecryptCipherFails, KeepOrDerive,
                    DeriveSessionKeys, ForgetLearnedSalt, Learning
<1>3. ASSUME UNCHANGED vars
      PROVE  sealed' = sealed /\ sessionSalt' = sessionSalt
  BY <1>3 DEF vars, cryptoVars
<1> QED BY <1>1, <1>2, <1>3, ZenonT(30) DEF Next, DecryptRefuses

(* Every step keeps the wire invariant: only Seal adds to the wire.            *)
LEMMA WireInvStep == ChannelInv /\ [Next]_vars => WireInv'
<1> SUFFICES ASSUME ChannelInv, [Next]_vars PROVE WireInv'
  OBVIOUS
<1>0. /\ sealed \in [End -> [Counter -> Nat]] /\ encryptCounter \in [End -> Nat]
      /\ sessionSalt \in [End -> Salt \cup {NoSalt}] /\ wire \subseteq Datagram
      /\ ReceiveInv /\ SealInv /\ WireInv
  BY ZenonT(30) DEF ChannelInv, ReceiveInv, TypeOK
<1>1. sessionSalt'[Client] = ClientSalt
  BY <1>0, StepFacts, ConstantsAssumption, ZenonT(30) DEF WireInv, End
<1>2. ASSUME NEW d \in wire
      PROVE  /\ d.auth /\ d.salt = sessionSalt'[d.dir] /\ d.salt # NoSalt
             /\ d.ctr \in Counter /\ sealed'[d.dir][d.ctr] > 0
  <2>1. d.dir \in End
    BY <1>0, ZenonT(30) DEF Datagram
  <2> QED BY <1>0, <2>1, StepFacts DEF WireInv
<1>3. ASSUME NEW d \in wire', d \notin wire
      PROVE  /\ d.auth /\ d.salt = sessionSalt'[d.dir] /\ d.salt # NoSalt
             /\ d.ctr \in Counter /\ sealed'[d.dir][d.ctr] > 0
  <2>1. PICK e \in End, cipherOk \in BOOLEAN : Encrypt(e, cipherOk)
    BY <1>3 DEF Next, DecryptAccepts, DecryptForgets, DecryptCipherFails, DecryptRefuses, vars
  <2>2. encryptCounter[e] < MaxCounter /\ Seal(e) /\ sessionSalt' = sessionSalt
        /\ sessionSalt[e] # NoSalt
    BY <1>3, <2>1, ZenonT(30) DEF Encrypt
  <2>3. d = [salt |-> sessionSalt[e], dir |-> e, ctr |-> encryptCounter[e], auth |-> TRUE]
    BY <1>3, <2>2 DEF Seal
  <2>4. encryptCounter[e] \in Counter
    BY <1>0, <2>2, ConstantsAssumption, SMTT(20) DEF Counter
  <2>5. sealed'[e][encryptCounter[e]] = sealed[e][encryptCounter[e]] + 1
    BY <1>0, <2>2, <2>4, TallyFacts, ZenonT(30) DEF Seal
  <2>6. sealed'[e][encryptCounter[e]] > 0
    BY <1>0, <2>4, <2>5, SMTT(20)
  <2> QED BY <2>2, <2>3, <2>4, <2>6, ZenonT(30)
<1> QED BY <1>1, <1>2, <1>3 DEF WireInv

(* What an end accepts under the salt of the session was sealed by its peer.   *)
LEMMA AcceptedWasSealed ==
    ASSUME ChannelInv, NEW e \in End, NEW d \in Arriving, DecryptAccepts(e, d),
           d.salt = ClientSalt
    PROVE  /\ d.ctr \in Counter /\ delivered[e][d.ctr] = 0
           /\ sealed[Peer(e)][d.ctr] > 0
           /\ sessionSalt[Peer(e)] = ClientSalt
           /\ delivered' = [delivered EXCEPT ![e][d.ctr] = 1]
<1>1. d \in wire /\ d.dir = Peer(e) /\ d.ctr \in Counter
  BY ConstantsAssumption, ZenonT(30)
     DEF Arriving, DecryptAccepts, HeaderAcceptable, ChannelInv, WireInv
<1>2. /\ anyReceived[e] \in BOOLEAN /\ highest[e] \in Counter
      /\ window[e] \in SUBSET (0 .. W - 1) /\ delivered[e] \in [Counter -> Nat]
      /\ Summary(anyReceived[e], highest[e], window[e], delivered[e])
      /\ delivered \in [End -> [Counter -> Nat]]
  BY ZenonT(30) DEF ChannelInv, ReceiveInv, TypeOK
<1>3. delivered[e][d.ctr] = 0
  BY <1>1, <1>2, CheckedIsFresh DEF DecryptAccepts, HeaderAcceptable
<1>4. delivered' = [delivered EXCEPT ![e] = Tally(@, d.ctr)]
  BY DEF DecryptAccepts
<1>5. Tally(delivered[e], d.ctr) = [delivered[e] EXCEPT ![d.ctr] = 1]
  BY <1>1, <1>2, <1>3, SMTT(20) DEF Tally
<1> QED BY <1>1, <1>2, <1>3, <1>4, <1>5, ZenonT(30) DEF ChannelInv, WireInv

(* The invariants the refinement rests on hold throughout every session.       *)
LEMMA ChannelInvHolds == Spec => []ChannelInv
<1>1. Init => ChannelInv
  BY ReceiveInvInit, ConstantsAssumption DEF Init, ChannelInv, SealInv, WireInv, End
<1>2. ChannelInv /\ [Next]_vars => ChannelInv'
  BY ReceiveInvStep, SealInvStep, WireInvStep DEF ChannelInv
<1> QED BY <1>1, <1>2, PTL DEF Spec

(* Sealing by e adds at most one counter to what e has sealed, and touches     *)
(* nothing the channels look at besides.                                       *)
LEMMA EncryptSends ==
    ASSUME ChannelInv, NEW e \in End, NEW cipherOk \in BOOLEAN, Encrypt(e, cipherOk)
    PROVE  /\ UNCHANGED <<sessionSalt, delivered>>
           /\ \A f \in End : f # e => sealed'[f] = sealed[f]
           /\ \/ sealed'[e] = sealed[e]
              \/ \E m \in Counter : {c \in Counter : sealed'[e][c] > 0}
                                      = {c \in Counter : sealed[e][c] > 0} \cup {m}
<1>0. sealed \in [End -> [Counter -> Nat]] /\ encryptCounter \in [End -> Nat]
  BY DEF ChannelInv, ReceiveInv, TypeOK
<1>1. UNCHANGED <<sessionSalt, delivered>>
  BY ZenonT(30) DEF Encrypt
<1>2. CASE encryptCounter[e] < MaxCounter /\ cipherOk
  <2>1. encryptCounter[e] \in Counter
    BY <1>0, <1>2, ConstantsAssumption, SMTT(20) DEF Counter
  <2>2. sealed' = [sealed EXCEPT ![e] = Tally(@, encryptCounter[e])]
    BY <1>2 DEF Encrypt, Seal
  <2>3. sealed[e] \in [Counter -> Nat] /\ sealed'[e] = Tally(sealed[e], encryptCounter[e])
    BY <1>0, <2>2, ZenonT(30)
  <2>4. /\ sealed'[e][encryptCounter[e]] = sealed[e][encryptCounter[e]] + 1
        /\ \A c \in Counter : c # encryptCounter[e] => sealed'[e][c] = sealed[e][c]
    BY <2>1, <2>3, TallyFacts, SMTT(20)
  <2>5. sealed'[e][encryptCounter[e]] > 0
    BY <2>1, <2>3, <2>4
  <2>6. {c \in Counter : sealed'[e][c] > 0}
           = {c \in Counter : sealed[e][c] > 0} \cup {encryptCounter[e]}
    BY <2>1, <2>4, <2>5, Zenon
  <2>7. \A f \in End : f # e => sealed'[f] = sealed[f]
    BY <1>0, <2>2, ZenonT(30)
  <2> QED BY <1>1, <2>1, <2>6, <2>7, ZenonT(30)
<1>3. CASE ~(encryptCounter[e] < MaxCounter /\ cipherOk)
  BY <1>1, <1>3 DEF Encrypt
<1> QED BY <1>2, <1>3, Zenon

(* Neither end exists without keys for long: an end without a salt has sealed  *)
(* and accepted nothing.                                                       *)
LEMMA NothingBeforeSalt ==
    ASSUME ChannelInv, NEW e \in End, sessionSalt[e] = NoSalt
    PROVE  /\ delivered[e] = [c \in Counter |-> 0]
           /\ \A c \in Counter : sealed[e][c] = 0
<1>1. delivered[e] \in [Counter -> Nat] /\ \A c \in Counter : delivered[e][c] = 0
  BY ZenonT(30) DEF ChannelInv, ReceiveInv, TypeOK, Summary
<1> QED BY <1>1, ZenonT(30) DEF ChannelInv, SealInv, Learning

(* Client to server: every step of the session is a step of the channel. *)
LEMMA ClientToServerStep ==
    ASSUME ChannelInv, [Next]_vars
    PROVE  [C2S!Next]_(C2S!vars)
<1>0. /\ sealed \in [End -> [Counter -> Nat]] /\ delivered \in [End -> [Counter -> Nat]]
      /\ sessionSalt \in [End -> Salt \cup {NoSalt}]
      /\ sessionSalt[Client] = ClientSalt /\ ClientSalt # NoSalt
      /\ Client \in End /\ Server \in End /\ Client # Server
      /\ Peer(Server) = Client
  BY ConstantsAssumption
     DEF ChannelInv, ReceiveInv, TypeOK, WireInv, End, Client, Server, Peer
<1> SUFFICES \/ \E m \in Counter : SentByClient' = SentByClient \cup {m}
                                   /\ GotByServer' = GotByServer
             \/ \E m \in Counter : m \in SentByClient /\ GotByServer[m] = 0
                                   /\ SentByClient' = SentByClient
                                   /\ GotByServer' = [GotByServer EXCEPT ![m] = 1]
             \/ SentByClient' = SentByClient /\ GotByServer' = GotByServer
  BY DEF C2S!Next, C2S!Send, C2S!Deliver, C2S!vars
<1>1. ASSUME NEW e \in End, NEW cipherOk \in BOOLEAN, Encrypt(e, cipherOk)
      PROVE  /\ GotByServer' = GotByServer
             /\ \/ SentByClient' = SentByClient
                \/ \E m \in Counter : SentByClient' = SentByClient \cup {m}
  <2>1. /\ UNCHANGED <<sessionSalt, delivered>>
        /\ \A f \in End : f # e => sealed'[f] = sealed[f]
        /\ \/ sealed'[e] = sealed[e]
           \/ \E m \in Counter : {c \in Counter : sealed'[e][c] > 0}
                                   = {c \in Counter : sealed[e][c] > 0} \cup {m}
    BY <1>1, EncryptSends, ZenonT(30)
  <2>2. CASE e = Client
    BY <2>1, <2>2, ZenonT(30) DEF SentByClient, GotByServer
  <2>3. CASE e # Client
    <3>1. sealed'[Client] = sealed[Client]
      BY <1>0, <2>1, <2>3, ZenonT(30)
    <3> QED BY <2>1, <3>1, ZenonT(30) DEF SentByClient, GotByServer
  <2> QED BY <2>2, <2>3, ZenonT(30)
<1>2. ASSUME NEW d \in Arriving, DecryptAccepts(Server, d)
      PROVE  /\ SentByClient' = SentByClient
             /\ \/ GotByServer' = GotByServer
                \/ \E m \in Counter : m \in SentByClient /\ GotByServer[m] = 0
                                      /\ GotByServer' = [GotByServer EXCEPT ![m] = 1]
  <2>1. SentByClient' = SentByClient
    BY <1>2, ZenonT(30) DEF DecryptAccepts, SentByClient
  <2>2. sessionSalt'[Server] = d.salt /\ (sessionSalt[Server] \in {NoSalt, d.salt})
    BY <1>0, <1>2, Zenon DEF DecryptAccepts, KeysReady, KeepOrDerive, DeriveSessionKeys, Learning
  <2>3. CASE d.salt = ClientSalt
    <3>1. /\ d.ctr \in Counter /\ delivered[Server][d.ctr] = 0
          /\ sealed[Client][d.ctr] > 0
          /\ delivered' = [delivered EXCEPT ![Server][d.ctr] = 1]
      BY <1>0, <1>2, <2>3, AcceptedWasSealed, ZenonT(30)
    <3>2. GotByServer = delivered[Server]
      <4>1. CASE sessionSalt[Server] = ClientSalt
        BY <4>1, ZenonT(30) DEF GotByServer
      <4>2. CASE sessionSalt[Server] = NoSalt
        BY <1>0, <4>2, NothingBeforeSalt, ZenonT(30) DEF GotByServer
      <4> QED BY <2>2, <2>3, <4>1, <4>2, ZenonT(30)
    <3>3. GotByServer' = delivered'[Server]
      BY <2>2, <2>3, ZenonT(30) DEF GotByServer
    <3>4. delivered'[Server] = [delivered[Server] EXCEPT ![d.ctr] = 1]
      BY <1>0, <3>1
    <3>5. d.ctr \in SentByClient
      BY <3>1 DEF SentByClient
    <3>6. /\ d.ctr \in Counter /\ GotByServer[d.ctr] = 0
          /\ GotByServer' = [GotByServer EXCEPT ![d.ctr] = 1]
      BY <3>1, <3>2, <3>3, <3>4, ZenonT(30)
    <3> QED BY <2>1, <3>5, <3>6, ZenonT(30)
  <2>4. CASE d.salt # ClientSalt
    BY <1>0, <2>1, <2>2, <2>4, ZenonT(30) DEF GotByServer
  <2> QED BY <2>3, <2>4, ZenonT(30)
<1>3. ASSUME NEW d \in Arriving,
             DecryptAccepts(Client, d)
      PROVE  SentByClient' = SentByClient /\ GotByServer' = GotByServer
  <2>1. sessionSalt' = sessionSalt /\ sealed' = sealed /\ delivered'[Server] = delivered[Server]
    BY <1>0, <1>3, ZenonT(30) DEF DecryptAccepts, KeepOrDerive, Learning
  <2> QED BY <2>1, ZenonT(30) DEF SentByClient, GotByServer
<1>4. ASSUME NEW e \in End, NEW d \in Arriving,
             DecryptForgets(e, d) \/ DecryptCipherFails(e, d)
      PROVE  SentByClient' = SentByClient /\ GotByServer' = GotByServer
  <2>1. e = Server /\ sessionSalt[Server] = NoSalt /\ sealed' = sealed /\ delivered' = delivered
    BY <1>0, <1>4, ZenonT(30) DEF DecryptForgets, DecryptCipherFails, Learning, End
  <2>2. delivered[Server] = [c \in Counter |-> 0]
    BY <1>0, <2>1, NothingBeforeSalt, ZenonT(30)
  <2> QED BY <1>0, <2>1, <2>2, ZenonT(30) DEF SentByClient, GotByServer
<1>5. ASSUME UNCHANGED vars
      PROVE  SentByClient' = SentByClient /\ GotByServer' = GotByServer
  BY <1>5, ZenonT(30) DEF vars, cryptoVars, SentByClient, GotByServer
<1> QED
  BY <1>1, <1>2, <1>3, <1>4, <1>5, ZenonT(30) DEF Next, DecryptRefuses, End

(* Server to client: every step of the session is a step of the channel. What  *)
(* the server seals counts from the moment it has learned the client's salt;   *)
(* before that it has sealed nothing.                                          *)
LEMMA ServerToClientStep ==
    ASSUME ChannelInv, [Next]_vars
    PROVE  [S2C!Next]_(S2C!vars)
<1>0. /\ sealed \in [End -> [Counter -> Nat]] /\ delivered \in [End -> [Counter -> Nat]]
      /\ sessionSalt \in [End -> Salt \cup {NoSalt}]
      /\ sessionSalt[Client] = ClientSalt /\ ClientSalt # NoSalt
      /\ Client \in End /\ Server \in End /\ Client # Server
      /\ Peer(Client) = Server
  BY ConstantsAssumption
     DEF ChannelInv, ReceiveInv, TypeOK, WireInv, End, Client, Server, Peer
<1> SUFFICES \/ \E m \in Counter : SentByServer' = SentByServer \cup {m}
                                   /\ GotByClient' = GotByClient
             \/ \E m \in Counter : m \in SentByServer /\ GotByClient[m] = 0
                                   /\ SentByServer' = SentByServer
                                   /\ GotByClient' = [GotByClient EXCEPT ![m] = 1]
             \/ SentByServer' = SentByServer /\ GotByClient' = GotByClient
  BY DEF S2C!Next, S2C!Send, S2C!Deliver, S2C!vars
<1>1. ASSUME NEW e \in End, NEW cipherOk \in BOOLEAN, Encrypt(e, cipherOk)
      PROVE  /\ GotByClient' = GotByClient
             /\ \/ SentByServer' = SentByServer
                \/ \E m \in Counter : SentByServer' = SentByServer \cup {m}
  <2>1. /\ UNCHANGED <<sessionSalt, delivered>>
        /\ \A f \in End : f # e => sealed'[f] = sealed[f]
        /\ \/ sealed'[e] = sealed[e]
           \/ \E m \in Counter : {c \in Counter : sealed'[e][c] > 0}
                                   = {c \in Counter : sealed[e][c] > 0} \cup {m}
    BY <1>1, EncryptSends
  <2>2. CASE e = Server /\ sessionSalt[Server] = ClientSalt
    BY <2>1, <2>2, ZenonT(30) DEF SentByServer, GotByClient
  <2>3. CASE sessionSalt[Server] # ClientSalt
    BY <2>1, <2>3, ZenonT(30) DEF SentByServer, GotByClient
  <2>4. CASE e # Server
    <3>1. sealed'[Server] = sealed[Server]
      BY <1>0, <2>1, <2>4
    <3> QED BY <2>1, <3>1, ZenonT(30) DEF SentByServer, GotByClient
  <2> QED BY <2>2, <2>3, <2>4, ZenonT(30)
<1>2. ASSUME NEW d \in Arriving, DecryptAccepts(Client, d)
      PROVE  /\ SentByServer' = SentByServer
             /\ \E m \in Counter : m \in SentByServer /\ GotByClient[m] = 0
                                   /\ GotByClient' = [GotByClient EXCEPT ![m] = 1]
  <2>1. sessionSalt' = sessionSalt /\ sealed' = sealed /\ d.salt = ClientSalt
    BY <1>0, <1>2 DEF DecryptAccepts, KeysReady, KeepOrDerive, Learning
  <2>2. SentByServer' = SentByServer
    BY <2>1, ZenonT(30) DEF SentByServer
  <2>3. /\ d.ctr \in Counter /\ delivered[Client][d.ctr] = 0
        /\ sealed[Server][d.ctr] > 0 /\ sessionSalt[Server] = ClientSalt
        /\ delivered' = [delivered EXCEPT ![Client][d.ctr] = 1]
    BY <1>0, <1>2, <2>1, AcceptedWasSealed
  <2>4. d.ctr \in SentByServer
    BY <2>3 DEF SentByServer
  <2>5. /\ d.ctr \in Counter /\ GotByClient[d.ctr] = 0
        /\ GotByClient' = [GotByClient EXCEPT ![d.ctr] = 1]
    BY <1>0, <2>3 DEF GotByClient
  <2> QED BY <2>2, <2>4, <2>5, ZenonT(30)
<1>3. ASSUME NEW d \in Arriving,
             \/ DecryptAccepts(Server, d)
             \/ DecryptForgets(Server, d)
             \/ DecryptCipherFails(Server, d)
      PROVE  SentByServer' = SentByServer /\ GotByClient' = GotByClient
  <2>1. /\ sealed' = sealed /\ delivered'[Client] = delivered[Client]
        /\ sessionSalt[Server] # NoSalt => sessionSalt'[Server] = sessionSalt[Server]
    BY <1>0, <1>3 DEF DecryptAccepts, DecryptForgets, DecryptCipherFails, KeepOrDerive,
                      Learning
  <2>2. CASE sessionSalt[Server] = NoSalt
    <3>1. \A c \in Counter : sealed[Server][c] = 0
      BY <1>0, <2>2, NothingBeforeSalt
    <3> QED BY <2>1, <3>1 DEF SentByServer, GotByClient
  <2>3. CASE sessionSalt[Server] # NoSalt
    BY <2>1, <2>3 DEF SentByServer, GotByClient
  <2> QED BY <2>2, <2>3, ZenonT(30)
<1>4. ASSUME NEW d \in Arriving
      PROVE  ~DecryptForgets(Client, d) /\ ~DecryptCipherFails(Client, d)
  BY <1>0 DEF DecryptForgets, DecryptCipherFails, Learning
<1>5. ASSUME UNCHANGED vars
      PROVE  SentByServer' = SentByServer /\ GotByClient' = GotByClient
  BY <1>5 DEF vars, cryptoVars, SentByServer, GotByClient
<1> QED
  BY <1>1, <1>2, <1>3, <1>4, <1>5, ZenonT(30) DEF Next, DecryptRefuses, End

(* The sealed datagram layer implements the two at-most-once channels, one per *)
(* direction, for any salts, start counters, window size and counter range.    *)
THEOREM ChannelRefined == Spec => ImplementsChannel
<1>1. Init => C2S!Init /\ S2C!Init
  BY ConstantsAssumption
     DEF Init, C2S!Init, S2C!Init, SentByClient, GotByServer, SentByServer, GotByClient, End
<1>2. ChannelInv /\ [Next]_vars => [C2S!Next]_(C2S!vars) /\ [S2C!Next]_(S2C!vars)
  BY ClientToServerStep, ServerToClientStep
<1> QED BY <1>1, <1>2, ChannelInvHolds, PTL DEF Spec, ImplementsChannel, C2S!Spec, S2C!Spec
=============================================================================
