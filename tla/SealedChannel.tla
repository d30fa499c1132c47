--------------------------- MODULE SealedChannel ---------------------------
(***************************************************************************)
(* Class Crypto (crypto.cpp): the two ends of one session sealing and      *)
(* opening datagrams over a network that loses, repeats, reorders and      *)
(* damages them.  A sealed datagram is its clear header (salt, direction,  *)
(* counter) and whether its tag verifies under the key that header selects;*)
(* AES-GCM and HKDF are abstracted to that bit.  A datagram shorter than   *)
(* the header is refused before anything is read and is not enumerated.    *)
(***************************************************************************)
EXTENDS Integers, FiniteSets

CONSTANTS
    Salt,           \* session salts
    ClientSalt,     \* the salt the client end generated at construction
    NoSalt,         \* no salt learned yet (salt_set_ = false)
    StartCounter,   \* StartCounter[s]: first six bytes of salt s
    W,              \* REPLAY_WINDOW_BITS
    MaxCounter,     \* MAX_COUNTER: counters at or above it are never used
    EncryptCap      \* bound: how far encrypt_counter_ may run

ASSUME ConstantsAssumption ==
    /\ ClientSalt \in Salt
    /\ NoSalt \notin Salt
    /\ W \in Nat \ {0}
    /\ MaxCounter \in Nat \ {0}
    /\ EncryptCap \in Nat
    /\ StartCounter \in [Salt -> 0 .. MaxCounter - 1]

Client == "client"
Server == "server"
End == {Client, Server}
Peer(e) == IF e = Client THEN Server ELSE Client

Counter == 0 .. MaxCounter - 1

(***************************************************************************)
(* A datagram names its sender's direction by the sending end.  Its wire   *)
(* counter is 64 bits wide: MaxCounter stands for every value outside the  *)
(* nonce space.                                                            *)
(***************************************************************************)
Datagram == [salt : Salt, dir : End, ctr : 0 .. MaxCounter, auth : BOOLEAN]

VARIABLES
    pskHeld,        \* pskHeld[e]: key_ is not yet wiped
    sessionSalt,    \* session_salt_, NoSalt while salt_set_ is false
    encryptCounter, \* encrypt_counter_
    anyReceived,    \* any_received_
    highest,        \* highest_received_
    window,         \* replay_window_, as the set of its set bit positions
    wire,           \* every datagram of this session put on the network
    sealed,         \* history: datagrams sealed by e under each counter
    delivered       \* history: decrypts by e that succeeded, per counter

cryptoVars == <<pskHeld, sessionSalt, encryptCounter, anyReceived, highest, window>>
vars == <<cryptoVars, wire, sealed, delivered>>

-----------------------------------------------------------------------------
(* The replay window, as functions of the receiver's three fields. *)

CheckReplayWindow(any, high, win, c) ==
    \/ ~any
    \/ c > high
    \/ /\ c < high
       /\ high - c <= W
       /\ high - c - 1 \notin win

(* std::bitset <<= n: positions move up by n, those past the width are lost. *)
ShiftWindow(win, n) == {b \in n .. W - 1 : b - n \in win}

(* The window before its boundary was corrected: a jump of exactly W forgets. *)
CommitWindowResetAtW(any, high, win, c) ==
    IF ~any THEN {}
    ELSE IF c > high
         THEN IF c - high >= W THEN {}
              ELSE ShiftWindow(win, c - high) \cup {c - high - 1}
         ELSE IF c < high /\ high - c <= W
              THEN win \cup {high - c - 1}
              ELSE win

(* A slide that keeps the old bits but does not mark the old highest. *)
CommitWindowUnmarked(any, high, win, c) ==
    IF ~any THEN {}
    ELSE IF c > high
         THEN IF c - high > W THEN {} ELSE ShiftWindow(win, c - high)
         ELSE IF c < high /\ high - c <= W
              THEN win \cup {high - c - 1}
              ELSE win

CommitWindow(any, high, win, c) ==
    IF ~any THEN {}
    ELSE IF c > high
         THEN IF c - high > W THEN {}
              ELSE ShiftWindow(win, c - high) \cup {c - high - 1}
         ELSE IF c < high /\ high - c <= W
              THEN win \cup {high - c - 1}
              ELSE win

CommitHighest(any, high, c) == IF ~any \/ c > high THEN c ELSE high

-----------------------------------------------------------------------------
(* Construction: the client derives its keys at once from the salt it        *)
(* generated; the server waits for the salt of the first datagram.           *)

Init ==
    /\ pskHeld = [e \in End |-> e = Server]
    /\ sessionSalt = [e \in End |-> IF e = Client THEN ClientSalt ELSE NoSalt]
    /\ encryptCounter = [e \in End |-> IF e = Client THEN StartCounter[ClientSalt] ELSE 0]
    /\ anyReceived = [e \in End |-> FALSE]
    /\ highest = [e \in End |-> 0]
    /\ window = [e \in End |-> {}]
    /\ wire = {}
    /\ sealed = [e \in End |-> [c \in Counter |-> 0]]
    /\ delivered = [e \in End |-> [c \in Counter |-> 0]]

DeriveSessionKeys(e, s) ==
    /\ sessionSalt' = [sessionSalt EXCEPT ![e] = s]
    /\ encryptCounter' = [encryptCounter EXCEPT ![e] = StartCounter[s]]
    /\ pskHeld' = [pskHeld EXCEPT ![e] = FALSE]

(* Rolls back a derivation made in the same call: the PSK is gone for good. *)
ForgetLearnedSalt(e) ==
    /\ pskHeld' = [pskHeld EXCEPT ![e] = FALSE]
    /\ sessionSalt' = [sessionSalt EXCEPT ![e] = NoSalt]
    /\ encryptCounter' = [encryptCounter EXCEPT ![e] = 0]
    /\ anyReceived' = [anyReceived EXCEPT ![e] = FALSE]
    /\ highest' = [highest EXCEPT ![e] = 0]
    /\ window' = [window EXCEPT ![e] = {}]

CommitReplayWindow(e, c) ==
    /\ anyReceived' = [anyReceived EXCEPT ![e] = TRUE]
    /\ highest' = [highest EXCEPT ![e] = CommitHighest(anyReceived[e], highest[e], c)]
    /\ window' = [window EXCEPT ![e] = CommitWindow(anyReceived[e], highest[e], window[e], c)]

(* One more use of counter c in a history. *)
Tally(hist, c) == [hist EXCEPT ![c] = @ + 1]

(***************************************************************************)
(* encrypt_impl: the counter is consumed first, and stays consumed when    *)
(* the nonce space is exhausted or the cipher fails afterwards.            *)
(***************************************************************************)
Seal(e) ==
    /\ wire' = wire \cup {[salt |-> sessionSalt[e], dir |-> e,
                           ctr |-> encryptCounter[e], auth |-> TRUE]}
    /\ sealed' = [sealed EXCEPT ![e] = Tally(@, encryptCounter[e])]

(* The counter wraps at the end of the nonce space instead of refusing. *)
EncryptWraps(e, cipherOk) ==
    /\ sessionSalt[e] # NoSalt
    /\ encryptCounter[e] < EncryptCap
    /\ encryptCounter' = [encryptCounter EXCEPT ![e] = (@ + 1) % MaxCounter]
    /\ IF cipherOk THEN Seal(e) ELSE UNCHANGED <<wire, sealed>>
    /\ UNCHANGED <<pskHeld, sessionSalt, anyReceived, highest, window, delivered>>

Encrypt(e, cipherOk) ==
    /\ sessionSalt[e] # NoSalt
    /\ encryptCounter[e] < EncryptCap
    /\ encryptCounter' = [encryptCounter EXCEPT ![e] = @ + 1]
    /\ IF encryptCounter[e] < MaxCounter /\ cipherOk THEN Seal(e)
       ELSE UNCHANGED <<wire, sealed>>
    /\ UNCHANGED <<pskHeld, sessionSalt, anyReceived, highest, window, delivered>>

-----------------------------------------------------------------------------
(* decrypt_impl, by the branch the call leaves through.                      *)

(* The call has no keys yet and derives them from the datagram's salt. *)
Learning(e) == sessionSalt[e] = NoSalt

(* Step 1: keys for the datagram's salt are at hand or can be derived. *)
KeysReady(e, d) == IF Learning(e) THEN pskHeld[e] ELSE d.salt = sessionSalt[e]

(* Steps 2 to 4: direction byte, nonce space, replay window. *)
HeaderAcceptable(e, d) ==
    /\ d.dir = Peer(e)
    /\ d.ctr < MaxCounter
    /\ CheckReplayWindow(anyReceived[e], highest[e], window[e], d.ctr)

KeepOrDerive(e, d) ==
    IF Learning(e) THEN DeriveSessionKeys(e, d.salt)
    ELSE UNCHANGED <<sessionSalt, encryptCounter, pskHeld>>

(* The window is never consulted. *)
DecryptAcceptsUnchecked(e, d) ==
    /\ KeysReady(e, d)
    /\ d.dir = Peer(e) /\ d.ctr < MaxCounter
    /\ d.auth
    /\ KeepOrDerive(e, d)
    /\ CommitReplayWindow(e, d.ctr)
    /\ delivered' = [delivered EXCEPT ![e] = Tally(@, d.ctr)]
    /\ UNCHANGED <<wire, sealed>>

(* The counter enters the window before the tag is looked at. *)
DecryptCommitsEarly(e, d) ==
    /\ KeysReady(e, d)
    /\ HeaderAcceptable(e, d)
    /\ KeepOrDerive(e, d)
    /\ CommitReplayWindow(e, d.ctr)
    /\ IF d.auth THEN delivered' = [delivered EXCEPT ![e] = Tally(@, d.ctr)]
       ELSE UNCHANGED delivered
    /\ UNCHANGED <<wire, sealed>>

DecryptAccepts(e, d) ==
    /\ KeysReady(e, d)
    /\ HeaderAcceptable(e, d)
    /\ d.auth
    /\ KeepOrDerive(e, d)
    /\ CommitReplayWindow(e, d.ctr)
    /\ delivered' = [delivered EXCEPT ![e] = Tally(@, d.ctr)]
    /\ UNCHANGED <<wire, sealed>>

(* The datagram that carried the salt is refused: the derivation is undone. *)
DecryptForgets(e, d) ==
    /\ Learning(e) /\ KeysReady(e, d)
    /\ ~HeaderAcceptable(e, d) \/ ~d.auth
    /\ ForgetLearnedSalt(e)
    /\ UNCHANGED <<wire, sealed, delivered>>

(* The cipher calls fail before the tag is verified: those returns leave the *)
(* salt derived in this call in place.                                       *)
DecryptCipherFails(e, d) ==
    /\ Learning(e) /\ KeysReady(e, d)
    /\ HeaderAcceptable(e, d)
    /\ DeriveSessionKeys(e, d.salt)
    /\ UNCHANGED <<anyReceived, highest, window, wire, sealed, delivered>>

(***************************************************************************)
(* The network: what this session sealed, any number of times and in any   *)
(* order; anything damaged on the way (its tag does not verify); and       *)
(* datagrams of other sessions of the same PSK, genuine under their salts. *)
(***************************************************************************)
Arriving == wire \cup {d \in Datagram : ~d.auth \/ d.salt # ClientSalt}

(* Every other refusal, a failing derivation included, returns with the      *)
(* object as it was.                                                         *)
DecryptRefuses(e) ==
    /\ \/ Learning(e)
       \/ {d \in Arriving : ~KeysReady(e, d) \/ ~HeaderAcceptable(e, d) \/ ~d.auth} # {}
    /\ UNCHANGED vars

Next ==
    \E e \in End :
        \/ \E cipherOk \in BOOLEAN : Encrypt(e, cipherOk)
        \/ \E d \in Arriving :
              \/ DecryptAccepts(e, d)
              \/ DecryptForgets(e, d)
              \/ DecryptCipherFails(e, d)
        \/ DecryptRefuses(e)

Spec == Init /\ [][Next]_vars

-----------------------------------------------------------------------------
(* Properties *)

(* The fields of the two Crypto objects, the network and the histories have   *)
(* their declared types; the bitmap has W positions.                          *)
TypeOK ==
    /\ pskHeld \in [End -> BOOLEAN]
    /\ sessionSalt \in [End -> Salt \cup {NoSalt}]
    /\ encryptCounter \in [End -> Nat]
    /\ anyReceived \in [End -> BOOLEAN]
    /\ highest \in [End -> Counter]
    /\ window \in [End -> SUBSET (0 .. W - 1)]
    /\ wire \subseteq Datagram
    /\ sealed \in [End -> [Counter -> Nat]]
    /\ delivered \in [End -> [Counter -> Nat]]

(* decrypt_impl hands the datagram of one counter to KCP at most once, however *)
(* often and in whatever order the network presents copies of it.              *)
AtMostOnce == \A e \in End, c \in Counter : delivered[e][c] <= 1

(* check_replay_window answers exactly what a receiver that remembered every   *)
(* counter would answer for the last W ones: a fresh datagram inside the       *)
(* window is never refused and a repeated one never accepted, across slides,   *)
(* jumps and the boundary shift = REPLAY_WINDOW_BITS.                          *)
WindowExact ==
    \A e \in End, c \in Counter :
        anyReceived[e] =>
            (CheckReplayWindow(anyReceived[e], highest[e], window[e], c)
                <=> delivered[e][c] = 0 /\ highest[e] - c <= W)

(* Only datagrams whose tag verified move the window: highest_received_ is     *)
(* always the largest counter that was really delivered, so no damaged         *)
(* datagram can desynchronise the session.                                     *)
HighestGenuine ==
    \A e \in End :
        /\ anyReceived[e] => delivered[e][highest[e]] > 0
        /\ \A c \in Counter : delivered[e][c] > 0 => anyReceived[e] /\ c <= highest[e]

(* encrypt_impl never seals two datagrams under one nonce of one key, also     *)
(* after a failed cipher call or at the end of the nonce space.                *)
NonceUnique == \A e \in End, c \in Counter : sealed[e][c] <= 1

(* The two directions as channels: what was sealed for the session, and what   *)
(* its ends accepted.                                                          *)
SentByClient == {c \in Counter : sealed[Client][c] > 0}
GotByServer == IF sessionSalt[Server] = ClientSalt THEN delivered[Server]
               ELSE [c \in Counter |-> 0]
SentByServer == {c \in Counter : sessionSalt[Server] = ClientSalt /\ sealed[Server][c] > 0}
GotByClient == delivered[Client]

C2S == INSTANCE AtMostOnceChannel WITH
           Msg <- Counter, sent <- SentByClient, got <- GotByServer

S2C == INSTANCE AtMostOnceChannel WITH
           Msg <- Counter, sent <- SentByServer, got <- GotByClient

(* Each direction of a session is a channel that delivers only what the other  *)
(* end sealed, and each of it once: the server learns whose session it is from *)
(* the first datagram, the client accepts nothing another server end sealed.   *)
ImplementsChannel == C2S!Spec /\ S2C!Spec
=============================================================================
