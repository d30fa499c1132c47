------------------------- MODULE DatagramPathProofs -------------------------
(***************************************************************************)
(* What happens to a datagram between KCP and the socket, for any shard    *)
(* parameters at the two ends, any number of datagrams and any sizes of a  *)
(* flush: every sealed frame is in one place, no end is sent a frame it    *)
(* refuses, and repair yields the peer's datagrams.                        *)
(*                                                                         *)
(* Framing is a recursive walk over the datagrams of a flush, but where it *)
(* has got to depends only on how many datagrams KCP has emitted: set q of *)
(* a stream with d data shards covers the datagrams q * d + 1 .. q * d + d *)
(* (EncoderAt, IsFrame).  A frame is therefore new when its last datagram  *)
(* is (Last), and shards of one set agree with its parity.                 *)
(***************************************************************************)
EXTENDS DatagramPath, FiniteSetTheorems, WellFoundedInduction, TLAPS

AnyFrame == [type : {"bare", "data", "parity"}, seqid : Nat, body : Seq(Nat)]

-----------------------------------------------------------------------------
(* The frames of a stream. *)

Size(config) == config.data + config.parity

DataShard(config, q, r) == Frame("data", q * Size(config) + r, <<q * config.data + r + 1>>)

(* The datagrams of set q. *)
Covered(config, q) == [i \in 1 .. config.data |-> q * config.data + i]

ParityShard(config, q, j) ==
    Frame("parity", q * Size(config) + config.data + j, Covered(config, q))

(* The last datagram a frame is about. *)
Last(f) == f.body[Len(f.body)]

(* A frame of the first n datagrams. *)
IsFrame(config, n, f) ==
    IF config = Off
    THEN \E d \in 1 .. n : f = Frame("bare", 0, <<d>>)
    ELSE \E q \in 0 .. n :
            \/ \E r \in 0 .. config.data - 1 :
                  q * config.data + r + 1 <= n /\ f = DataShard(config, q, r)
            \/ \E j \in 0 .. config.parity - 1 :
                  q * config.data + config.data <= n /\ f = ParityShard(config, q, j)

(* The encoder after n datagrams. *)
EncoderAt(config, n, c) ==
    IF config = Off
    THEN c = [next |-> 0, set |-> <<>>]
    ELSE \E q \in 0 .. n : \E r \in 0 .. config.data - 1 :
            /\ n = q * config.data + r
            /\ c = [next |-> q * Size(config) + r,
                    set |-> [i \in 1 .. r |-> q * config.data + i]]

-----------------------------------------------------------------------------
(* The places of the frames an end has handed over. *)

Injective(q) == \A i, j \in 1 .. Len(q) : q[i] = q[j] => i = j

(* The frames of the bursts on the strand. *)
Queued(bursts) == UNION {Range(bursts[i]) : i \in 1 .. Len(bursts)}

(* No frame is in two of them, or twice in one. *)
Apart(bursts) ==
    /\ \A i \in 1 .. Len(bursts) : Injective(bursts[i])
    /\ \A i, j \in 1 .. Len(bursts) :
          i # j => Range(bursts[i]) \cap Range(bursts[j]) = {}

Placed(all, accepted, dropped, waiting, bursts) ==
    /\ waiting \in Seq(AnyFrame) /\ bursts \in Seq(Seq(AnyFrame))
    /\ accepted = [x \in DOMAIN accepted |-> 1]
    /\ Injective(waiting) /\ Apart(bursts)
    /\ all = DOMAIN accepted \cup dropped \cup Range(waiting) \cup Queued(bursts)
    /\ DOMAIN accepted \cap dropped = {}
    /\ DOMAIN accepted \cap Range(waiting) = {}
    /\ DOMAIN accepted \cap Queued(bursts) = {}
    /\ dropped \cap Range(waiting) = {}
    /\ dropped \cap Queued(bursts) = {}
    /\ Range(waiting) \cap Queued(bursts) = {}

Posted(e) == IF e = Server THEN posted ELSE <<>>

-----------------------------------------------------------------------------
(* The inductive invariant. *)

Types ==
    /\ setting \in Settings
    /\ running \in [End -> BOOLEAN] /\ open \in [End -> BOOLEAN]
    /\ fec \in [End -> Shards] /\ fec[Client] = setting.client
    /\ emitted \in [End -> Nat]
    /\ encoder = [e \in End |-> encoder[e]]
    /\ pending \in [End -> Seq(AnyFrame)]
    /\ sent = [e \in End |-> sent[e]]
    /\ lost \in [End -> SUBSET AnyFrame] /\ sealed \in [End -> SUBSET AnyFrame]
    /\ got \in [End -> SUBSET AnyFrame] /\ fed \in [End -> SUBSET AnyFrame]
    /\ input = [e \in End |-> input[e]]
    /\ refused = [e \in End |-> refused[e]]

(* Each end frames all it emits alike; the server's session begins with the    *)
(* first frame of the client, and then frames if the client does.              *)
Framing ==
    /\ \A e \in End : EncoderAt(fec[e], emitted[e], encoder[e])
    /\ \A e \in End : \A f \in sealed[e] : IsFrame(fec[e], emitted[e], f)
    /\ got[Server] = {} => /\ ~running[Server] /\ fec[Server] = Off
                           /\ emitted[Server] = 0 /\ sealed[Server] = {}
    /\ got[Server] # {} => (fec[Server] = Off <=> fec[Client] = Off)

Places ==
    \A e \in End : Placed(sealed[e], sent[e], lost[e], pending[e], Posted(e))

(* What arrived was sent; all of it reached KCP or the decoder, and what the   *)
(* decoder made of it is right.                                                *)
Received ==
    \A e \in End :
        /\ IsFiniteSet(got[e]) /\ got[e] \subseteq DOMAIN sent[Peer(e)]
        /\ refused[e] = {}
        /\ fed[e] = IF fec[e] = Off THEN {} ELSE got[e]
        /\ got[e] = {} => input[e] = {}

DatagramInv == Types /\ Framing /\ Places /\ Received /\ RepairExact

-----------------------------------------------------------------------------
(* Induction, as the absence of a least counterexample. *)

(* A nonempty set of numbers has a least element. *)
LEMMA LeastElement ==
    ASSUME NEW S \in SUBSET Nat, S # {}
    PROVE  \E x \in S : \A y \in S : x <= y
<1> DEFINE less == {ss \in Nat \X Nat : ss[1] < ss[2]}
<1>1. IsWellFoundedOn(less, Nat)
  BY NatLessThanWellFounded DEF OpToRel
<1> HIDE DEF less
<1>2. PICK x \in S : \A y \in S : ~(<<y, x>> \in less)
  BY <1>1, WFMin, Zenon
<1>3. ASSUME NEW y \in S, y < x PROVE FALSE
  <2>1. <<y, x>> \in Nat \X Nat /\ <<y, x>>[1] = y /\ <<y, x>>[2] = x
    OBVIOUS
  <2>2. <<y, x>> \in less
    BY <1>3, <2>1 DEF less
  <2> QED BY <1>2, <2>2
<1> QED BY <1>3

(* A set of numbers that has 0, and with a number the next, has them all. *)
LEMMA Induction ==
    ASSUME NEW S, 0 \in S, \A n \in Nat : n \in S => n + 1 \in S
    PROVE  \A n \in Nat : n \in S
<1> SUFFICES ASSUME Nat \ S # {} PROVE FALSE
  OBVIOUS
<1>1. PICK x \in Nat \ S : \A y \in Nat \ S : x <= y
  BY LeastElement, Zenon
<1>2. x # 0 /\ x - 1 \in Nat
  BY <1>1
<1>3. x - 1 \in S
  BY <1>1, <1>2
<1> QED BY <1>1, <1>2, <1>3

-----------------------------------------------------------------------------
(* A flush. *)

(* A batch after each of its datagrams. *)
Batches(config, c, n, k, burst, g) ==
    /\ g[0] = [encoder |-> c, frames |-> <<>>]
    /\ \A i \in 1 .. k : g[i] = Collect(config, g[i - 1], n + i, burst)

(* The recursive definition of a batch defines one. *)
LEMMA BatchDefined ==
    ASSUME NEW config, NEW c, NEW n \in Nat, NEW k \in Nat, NEW burst
    PROVE  \E g : Batch(config, c, n, k, burst) = g[k] /\ Batches(config, c, n, k, burst, g)
<1> DEFINE first == [encoder |-> c, frames |-> <<>>]
           Body(x, i) == IF i = 0 THEN first ELSE Collect(config, x, n + i, burst)
           Walk(g, m) == g = [i \in 0 .. m |-> Body(g[i - 1], i)]
           S == {m \in Nat : \E g : Walk(g, m)}
<1>1. 0 \in S
  <2> DEFINE g == [i \in 0 .. 0 |-> first]
  <2>1. Walk(g, 0)
    OBVIOUS
  <2> QED BY <2>1, Zenon
<1>2. ASSUME NEW m \in Nat, m \in S PROVE m + 1 \in S
  <2>1. PICK g : Walk(g, m)
    BY <1>2
  <2> DEFINE h == [i \in 0 .. m + 1 |-> Body(g[i - 1], i)]
  <2> HIDE DEF Body
  <2>2. \A i \in 0 .. m : h[i] = g[i]
    BY <2>1
  <2>4. ASSUME NEW i \in 0 .. m + 1 PROVE Body(h[i - 1], i) = Body(g[i - 1], i)
    <3> HIDE DEF h
    <3>1. CASE i = 0
      BY <3>1 DEF Body
    <3>2. CASE i # 0
      <4>1. i - 1 \in 0 .. m
        BY <3>2
      <4> QED BY <2>2, <4>1
    <3> QED BY <3>1, <3>2
  <2>5. Walk(h, m + 1)
    BY <2>4, Zenon
  <2>6. m + 1 \in Nat
    OBVIOUS
  <2> HIDE DEF Walk, h
  <2> QED BY <2>5, <2>6
<1>3. k \in S
  <2> HIDE DEF S
  <2> QED BY <1>1, <1>2, Induction
<1>4. PICK g : Walk(g, k)
  BY <1>3
<1> DEFINE a == CHOOSE g_1 : Walk(g_1, k)
<1>5. Walk(a, k)
  BY <1>4, Zenon
<1>6. Batch(config, c, n, k, burst) = a[k]
  BY Zenon DEF Batch
<1> HIDE DEF a
<1>7. \A i \in 0 .. k : a[i] = Body(a[i - 1], i)
  BY <1>5, Zenon
<1>8. a[0] = first
  BY <1>7
<1>9. \A i \in 1 .. k : a[i] = Collect(config, a[i - 1], n + i, burst)
  BY <1>7
<1> QED BY <1>6, <1>8, <1>9, Zenon DEF Batches

-----------------------------------------------------------------------------
(* Sequences. *)

(* A function on 1 .. m is a sequence. *)
LEMMA AsSequence ==
    ASSUME NEW S, NEW m \in Nat, NEW s, s = [i \in 1 .. m |-> s[i]],
           \A i \in 1 .. m : s[i] \in S
    PROVE  s \in Seq(S) /\ Len(s) = m
OBVIOUS

(* The two parts of a concatenation. *)
LEMMA Joined ==
    ASSUME NEW S, NEW s \in Seq(S), NEW t \in Seq(S)
    PROVE  /\ s \o t \in Seq(S) /\ Len(s \o t) = Len(s) + Len(t)
           /\ \A i \in 1 .. Len(s) : (s \o t)[i] = s[i]
           /\ \A i \in 1 .. Len(t) : (s \o t)[Len(s) + i] = t[i]
           /\ \A i \in Len(s) + 1 .. Len(s) + Len(t) :
                 i - Len(s) \in 1 .. Len(t) /\ (s \o t)[i] = t[i - Len(s)]
OBVIOUS

(* What is in a sequence. *)
LEMMA RangeOf ==
    ASSUME NEW S, NEW s \in Seq(S)
    PROVE  /\ Range(s) = {s[i] : i \in 1 .. Len(s)}
           /\ Range(s) \subseteq S
BY DEF Range

(* An element is in the range. *)
LEMMA InRange ==
    ASSUME NEW S, NEW s \in Seq(S), NEW i \in 1 .. Len(s)
    PROVE  s[i] \in Range(s)
BY DEF Range

(* The range of two sequences, one behind the other. *)
LEMMA RangeJoined ==
    ASSUME NEW S, NEW s \in Seq(S), NEW t \in Seq(S)
    PROVE  Range(s \o t) = Range(s) \cup Range(t)
<1> DEFINE u == s \o t
<1>1. /\ u \in Seq(S) /\ Len(u) = Len(s) + Len(t) /\ Len(s) \in Nat /\ Len(t) \in Nat
      /\ \A i \in 1 .. Len(s) : u[i] = s[i]
      /\ \A i \in 1 .. Len(t) : u[Len(s) + i] = t[i]
  BY Joined
<1> HIDE DEF u
<1>2. /\ Range(u) = {u[i] : i \in 1 .. Len(u)}
      /\ Range(s) = {s[i] : i \in 1 .. Len(s)} /\ Range(t) = {t[i] : i \in 1 .. Len(t)}
  BY <1>1, RangeOf, Zenon
<1>3. ASSUME NEW i \in 1 .. Len(u)
      PROVE  u[i] \in Range(s) \cup Range(t)
  <2>1. CASE i \in 1 .. Len(s)
    BY <1>1, <1>2, <2>1, Zenon
  <2>2. CASE i \notin 1 .. Len(s)
    <3>1. i - Len(s) \in 1 .. Len(t) /\ i = Len(s) + (i - Len(s))
      BY <1>1, <2>2
    <3> QED BY <1>1, <1>2, <3>1, Zenon
  <2> QED BY <2>1, <2>2
<1>4. ASSUME NEW i \in 1 .. Len(s) PROVE s[i] \in Range(u)
  <2>1. i \in 1 .. Len(u)
    BY <1>1
  <2> QED BY <1>1, <1>2, <2>1, Zenon
<1>5. ASSUME NEW i \in 1 .. Len(t) PROVE t[i] \in Range(u)
  <2>1. Len(s) + i \in 1 .. Len(u)
    BY <1>1
  <2> QED BY <1>1, <1>2, <2>1, Zenon
<1>6. Range(u) \subseteq Range(s) \cup Range(t)
  BY <1>2, <1>3, Zenon
<1>7. Range(s) \subseteq Range(u) /\ Range(t) \subseteq Range(u)
  BY <1>2, <1>4, <1>5, Zenon
<1> QED BY <1>6, <1>7, Zenon DEF u

(* Two sequences without repetition and with nothing in common, one after the  *)
(* other.                                                                      *)
LEMMA InjectiveJoined ==
    ASSUME NEW S, NEW s \in Seq(S), NEW t \in Seq(S), Injective(s), Injective(t),
           Range(s) \cap Range(t) = {}
    PROVE  Injective(s \o t)
<1> DEFINE u == s \o t
<1>1. /\ u \in Seq(S) /\ Len(u) = Len(s) + Len(t) /\ Len(s) \in Nat /\ Len(t) \in Nat
      /\ \A i \in 1 .. Len(s) : u[i] = s[i]
      /\ \A i \in Len(s) + 1 .. Len(s) + Len(t) :
            i - Len(s) \in 1 .. Len(t) /\ u[i] = t[i - Len(s)]
  BY Joined
<1> HIDE DEF u
<1>2. /\ \A i \in 1 .. Len(s) : s[i] \in Range(s)
      /\ \A i \in 1 .. Len(t) : t[i] \in Range(t)
  BY DEF Range
<1> SUFFICES ASSUME NEW i \in 1 .. Len(u), NEW j \in 1 .. Len(u), u[i] = u[j]
             PROVE  i = j
  BY Zenon DEF Injective, u
<1>3. /\ i \in 1 .. Len(s) \/ i \in Len(s) + 1 .. Len(s) + Len(t)
      /\ j \in 1 .. Len(s) \/ j \in Len(s) + 1 .. Len(s) + Len(t)
  BY <1>1
<1>4. CASE i \in 1 .. Len(s) /\ j \in 1 .. Len(s)
  BY <1>1, <1>4, Zenon DEF Injective
<1>5. CASE i \in 1 .. Len(s) /\ j \in Len(s) + 1 .. Len(s) + Len(t)
  BY <1>1, <1>2, <1>5, Zenon
<1>6. CASE j \in 1 .. Len(s) /\ i \in Len(s) + 1 .. Len(s) + Len(t)
  BY <1>1, <1>2, <1>6, Zenon
<1>7. CASE i \in Len(s) + 1 .. Len(s) + Len(t) /\ j \in Len(s) + 1 .. Len(s) + Len(t)
  <2>1. /\ i - Len(s) \in 1 .. Len(t) /\ u[i] = t[i - Len(s)]
        /\ j - Len(s) \in 1 .. Len(t) /\ u[j] = t[j - Len(s)]
    BY <1>1, <1>7, Zenon
  <2>2. t[i - Len(s)] = t[j - Len(s)]
    BY <2>1, Zenon
  <2>3. i - Len(s) = j - Len(s)
    BY <2>1, <2>2, Zenon DEF Injective
  <2> QED BY <1>1, <2>3
<1> QED BY <1>3, <1>4, <1>5, <1>6, <1>7, Zenon

-----------------------------------------------------------------------------
(* Framing. *)

(* Products of a set's number. *)
LEMMA SetNumbers ==
    ASSUME NEW q \in Nat, NEW m \in Nat
    PROVE  q * m \in Nat /\ (q + 1) * m = q * m + m
OBVIOUS

(* Which set a sequence number is of, and where in it. *)
LEMMA SetOf ==
    ASSUME NEW q \in Nat, NEW m \in Nat, NEW r \in 0 .. m - 1
    PROVE  (q * m + r) \div m = q /\ (q * m + r) % m = r
OBVIOUS

(* Shards are of both kinds. *)
LEMMA ShardCounts ==
    ASSUME NEW config \in Shards
    PROVE  /\ config.data \in Nat /\ config.parity \in Nat
           /\ config # Off => config.data > 0 /\ config.parity > 0
BY DEF Shards, Off

(* One datagram is framed. *)
LEMMA EncodeFrames ==
    ASSUME NEW config \in Shards, config # Off, NEW n \in Nat, NEW c,
           EncoderAt(config, n, c), NEW burst \in BOOLEAN
    PROVE  LET s == Encode(config, c, n + 1, burst)
           IN  /\ EncoderAt(config, n + 1, s.encoder)
               /\ s.frames \in Seq(AnyFrame) /\ Injective(s.frames)
               /\ \A i \in 1 .. Len(s.frames) :
                     IsFrame(config, n + 1, s.frames[i]) /\ Last(s.frames[i]) = n + 1
<1> DEFINE s == Encode(config, c, n + 1, burst)
           d == config.data
           p == config.parity
<1>1. d \in Nat /\ d > 0 /\ p \in Nat /\ p > 0 /\ Size(config) = d + p
  BY ShardCounts DEF Size
<1>2. PICK q \in 0 .. n, r \in 0 .. d - 1 :
        /\ n = q * d + r
        /\ c = [next |-> q * Size(config) + r, set |-> [i \in 1 .. r |-> q * d + i]]
  BY Zenon DEF EncoderAt
<1> DEFINE a == q * d
           b == q * Size(config)
           set == Append(c.set, n + 1)
           par == IF Len(set) = d /\ burst THEN p ELSE 0
           first == Frame("data", c.next, <<n + 1>>)
           rest == [i \in 1 .. par |-> Frame("parity", c.next + i, set)]
<1>n. (q + 1) * d = a + d /\ (q + 1) * Size(config) = b + (d + p)
  BY <1>1, SetNumbers
<1>3. a \in Nat /\ b \in Nat /\ d \in Nat /\ d > 0 /\ p \in Nat /\ q \in Nat /\ r \in 0 .. d - 1
  BY <1>1, SetNumbers
<1>4. c.next = b + r /\ n = a + r
  BY <1>2
<1>s. c.set = [i \in 1 .. r |-> a + i]
  BY <1>2
<1>5. /\ s.encoder = [next |-> c.next + 1 + (IF Len(set) = d THEN p ELSE 0),
                      set |-> IF Len(set) = d THEN <<>> ELSE set]
      /\ s.frames = <<first>> \o rest
  BY Zenon DEF Encode
<1> HIDE DEF s, a, b, d, p
<1>6. set = [i \in 1 .. r + 1 |-> a + i] /\ Len(set) = r + 1 /\ set \in Seq(Nat)
  <2>1. c.set \in Seq(Nat) /\ Len(c.set) = r
    BY <1>3, <1>s
  <2>2. set \in Seq(Nat) /\ Len(set) = r + 1
    BY <1>3, <1>4, <2>1
  <2>3. \A i \in 1 .. r + 1 : set[i] = a + i
    <3> SUFFICES ASSUME NEW i \in 1 .. r + 1 PROVE set[i] = a + i
      BY Zenon
    <3>1. CASE i = r + 1
      BY <1>3, <1>4, <2>1, <3>1
    <3>2. CASE i \in 1 .. r
      <4>1. set[i] = c.set[i]
        BY <1>3, <2>1, <3>2
      <4> QED BY <1>s, <3>2, <4>1
    <3>3. i = r + 1 \/ i \in 1 .. r
      BY <1>3
    <3> QED BY <3>1, <3>2, <3>3, Zenon
  <2> HIDE DEF set
  <2>4. set = [i \in 1 .. r + 1 |-> set[i]]
    BY <1>3, <2>2
  <2> QED BY <2>2, <2>3, <2>4, Zenon
<1>l. Len(set) = r + 1
  BY <1>6
<1> HIDE DEF first, rest
<1>7. EncoderAt(config, n + 1, s.encoder)
  <2>1. CASE r + 1 = d
    <3>1. s.encoder = [next |-> b + (d + p), set |-> <<>>]
      <4> HIDE DEF set
      <4>1. Len(set) = d /\ c.next + 1 + p = b + (d + p)
        BY <1>3, <1>4, <1>l, <2>1
      <4> QED BY <1>5, <4>1
    <3>2. <<>> = [i \in 1 .. 0 |-> (q + 1) * d + i]
      OBVIOUS
    <3>3. n + 1 = (a + d) + 0 /\ b + (d + p) = (b + (d + p)) + 0 /\ 0 \in 0 .. d - 1
      BY <1>3, <1>4, <2>1
    <3>4. q + 1 \in 0 .. n + 1
      BY <1>1, <1>2, SMTT(20) DEF d
    <3>5. \E r1 \in 0 .. d - 1 :
             /\ n + 1 = (q + 1) * d + r1
             /\ s.encoder = [next |-> (q + 1) * Size(config) + r1,
                             set |-> [i \in 1 .. r1 |-> (q + 1) * d + i]]
      <4> 0 \in 0 .. d - 1
        BY <3>3
      <4> WITNESS 0 \in 0 .. d - 1
      <4> QED BY <1>n, <3>1, <3>2, <3>3, Zenon
    <3> QED BY <3>4, <3>5, Zenon DEF EncoderAt, d
  <2>2. CASE r + 1 # d
    <3>1. s.encoder = [next |-> b + (r + 1), set |-> [i \in 1 .. r + 1 |-> a + i]]
      <4> HIDE DEF set
      <4>1. Len(set) # d /\ c.next + 1 + 0 = b + (r + 1)
        BY <1>3, <1>4, <1>l, <2>2
      <4>2. /\ (IF Len(set) = d THEN p ELSE 0) = 0
            /\ (IF Len(set) = d THEN <<>> ELSE set) = set
        BY <4>1, Zenon
      <4> QED BY <1>5, <1>6, <4>1, <4>2, Zenon
    <3>2. n + 1 = a + (r + 1) /\ q \in 0 .. n + 1 /\ r + 1 \in 0 .. d - 1
      BY <1>2, <1>3, <1>4, <2>2
    <3> QED BY <3>1, <3>2, Zenon DEF EncoderAt, a, b, d
  <2> QED BY <2>1, <2>2
<1>8. par \in Nat /\ (par = 0 \/ (par = p /\ r + 1 = d))
  BY <1>3, <1>6
<1> HIDE DEF set, par
<1>9. /\ Len(s.frames) = 1 + par /\ s.frames[1] = first
      /\ \A i \in 2 .. 1 + par : s.frames[i] = Frame("parity", c.next + (i - 1), set)
  <2>1. rest \in Seq({rest[i] : i \in 1 .. par}) /\ Len(rest) = par
    BY <1>8 DEF rest
  <2>2. \A i \in 1 .. par : rest[i] = Frame("parity", c.next + i, set)
    BY DEF rest
  <2>3. Len(s.frames) = 1 + par /\ s.frames[1] = first
    BY <1>5, <1>8, <2>1
  <2>4. \A i \in 2 .. 1 + par : s.frames[i] = rest[i - 1]
    BY <1>5, <1>8, <2>1
  <2>5. \A i \in 2 .. 1 + par : i - 1 \in 1 .. par
    BY <1>8
  <2> QED BY <2>2, <2>3, <2>4, <2>5, Zenon
<1>10. /\ first \in AnyFrame /\ IsFrame(config, n + 1, first)
       /\ first.seqid = b + r /\ Last(first) = n + 1
  <2>1. first = DataShard(config, q, r)
    BY <1>3, <1>4 DEF DataShard, a, b, d, first
  <2>2. a + r + 1 <= n + 1 /\ q \in 0 .. n + 1
    BY <1>2, <1>3, <1>4
  <2>3. IsFrame(config, n + 1, first)
    BY <1>3, <2>1, <2>2, ZenonT(30) DEF IsFrame, a, d
  <2> QED BY <1>3, <1>4, <2>3 DEF Frame, AnyFrame, Last, first
<1>11. ASSUME NEW i \in 2 .. 1 + par
       PROVE  /\ s.frames[i] \in AnyFrame /\ IsFrame(config, n + 1, s.frames[i])
              /\ s.frames[i].seqid = b + r + (i - 1) /\ Last(s.frames[i]) = n + 1
  <2> DEFINE f == s.frames[i]
  <2>1. f = Frame("parity", b + r + (i - 1), set) /\ r + 1 = d /\ par = p
    <3>1. f = Frame("parity", c.next + (i - 1), set)
      BY <1>9, Zenon
    <3>2. r + 1 = d /\ par = p
      BY <1>8
    <3> QED BY <1>4, <3>1, <3>2, Zenon
  <2>2. set = Covered(config, q)
    BY <1>6, <2>1 DEF Covered, a, d
  <2>3. b + r + (i - 1) = b + d + (i - 2) /\ i - 2 \in 0 .. p - 1
    BY <1>3, <2>1
  <2>4. f = ParityShard(config, q, i - 2)
    BY <2>1, <2>2, <2>3, ZenonT(30) DEF ParityShard, b, d
  <2>5. a + d <= n + 1 /\ q \in 0 .. n + 1
    BY <1>2, <1>3, <1>4, <2>1
  <2>6. IsFrame(config, n + 1, f)
    BY <2>3, <2>4, <2>5, ZenonT(30) DEF IsFrame, a, d, p
  <2>7. set[Len(set)] = n + 1
    BY <1>3, <1>4, <1>6
  <2>8. b + r + (i - 1) \in Nat
    BY <1>3
  <2> QED BY <1>6, <2>1, <2>6, <2>7, <2>8, SMTT(20) DEF Frame, AnyFrame, Last
<1>12. \A i \in 1 .. Len(s.frames) :
          /\ s.frames[i] \in AnyFrame /\ IsFrame(config, n + 1, s.frames[i])
          /\ s.frames[i].seqid = b + r + (i - 1) /\ Last(s.frames[i]) = n + 1
  <2> SUFFICES ASSUME NEW i \in 1 .. Len(s.frames)
               PROVE  /\ s.frames[i] \in AnyFrame /\ IsFrame(config, n + 1, s.frames[i])
                      /\ s.frames[i].seqid = b + r + (i - 1) /\ Last(s.frames[i]) = n + 1
    BY Zenon
  <2>1. (i = 1 \/ i \in 2 .. 1 + par) /\ b + r = b + r + (1 - 1)
    BY <1>3, <1>8, <1>9
  <2> QED BY <1>9, <1>10, <1>11, <2>1, ZenonT(30)
<1>13. s.frames \in Seq(AnyFrame)
  <2>1. s.frames = [i \in 1 .. 1 + par |-> s.frames[i]]
    BY <1>5, <1>8, <1>9 DEF rest
  <2>2. 1 + par \in Nat
    BY <1>8
  <2> QED BY <1>9, <1>12, <2>1, <2>2, AsSequence, ZenonT(30)
<1>14. Injective(s.frames)
  <2> SUFFICES ASSUME NEW i \in 1 .. Len(s.frames), NEW j \in 1 .. Len(s.frames),
                      s.frames[i] = s.frames[j]
               PROVE  i = j
    BY Zenon DEF Injective
  <2>1. b + r + (i - 1) = b + r + (j - 1)
    BY <1>12, Zenon
  <2> QED BY <1>3, <1>8, <1>9, <2>1, SMTT(20)
<1> QED BY <1>7, <1>12, <1>13, <1>14, Zenon DEF s

(* One datagram is framed, or not. *)
LEMMA DatagramFrames ==
    ASSUME NEW config \in Shards, NEW n \in Nat, NEW c,
           EncoderAt(config, n, c), NEW burst \in BOOLEAN
    PROVE  LET s == OnKcpDatagram(config, c, n + 1, burst)
           IN  /\ EncoderAt(config, n + 1, s.encoder)
               /\ s.frames \in Seq(AnyFrame) /\ Injective(s.frames)
               /\ \A x \in Range(s.frames) :
                     IsFrame(config, n + 1, x) /\ Last(x) = n + 1
<1> DEFINE s == OnKcpDatagram(config, c, n + 1, burst)
<1>1. CASE config = Off
  <2> DEFINE f == Frame("bare", 0, <<n + 1>>)
  <2>1. s = [encoder |-> c, frames |-> <<f>>]
    BY <1>1 DEF OnKcpDatagram
  <2>2. f \in AnyFrame /\ Last(f) = n + 1
    BY DEF Frame, AnyFrame, Last
  <2>3. n + 1 \in 1 .. n + 1
    OBVIOUS
  <2>4. IsFrame(config, n + 1, f)
    BY <1>1, <2>3, Zenon DEF IsFrame
  <2> HIDE DEF f, s
  <2>5. s.encoder = c /\ s.frames = <<f>>
    BY <2>1
  <2>6. EncoderAt(config, n + 1, s.encoder)
    BY <1>1, <2>5, Zenon DEF EncoderAt
  <2>7. <<f>> \in Seq(AnyFrame) /\ Injective(<<f>>) /\ Range(<<f>>) = {f}
    BY <2>2 DEF Injective, Range
  <2> QED BY <2>2, <2>4, <2>5, <2>6, <2>7, ZenonT(30) DEF s
<1>2. CASE config # Off
  <2>1. s = Encode(config, c, n + 1, burst)
    BY <1>2 DEF OnKcpDatagram
  <2> HIDE DEF s
  <2>2. /\ EncoderAt(config, n + 1, s.encoder)
        /\ s.frames \in Seq(AnyFrame) /\ Injective(s.frames)
        /\ \A i \in 1 .. Len(s.frames) :
              IsFrame(config, n + 1, s.frames[i]) /\ Last(s.frames[i]) = n + 1
    BY <1>2, <2>1, EncodeFrames, ZenonT(30)
  <2>3. Range(s.frames) = {s.frames[i] : i \in 1 .. Len(s.frames)}
    BY <2>2, RangeOf
  <2> QED BY <2>2, <2>3, Zenon DEF s
<1> QED BY <1>1, <1>2

(* A frame of n datagrams is one of more. *)
LEMMA FrameLater ==
    ASSUME NEW config \in Shards, NEW n \in Nat, NEW m \in Nat, n <= m, NEW f,
           IsFrame(config, n, f)
    PROVE  IsFrame(config, m, f)
<1>0. 1 .. n \subseteq 1 .. m /\ 0 .. n \subseteq 0 .. m
  OBVIOUS
<1>1. CASE config = Off
  BY <1>0, <1>1, Zenon DEF IsFrame
<1>2. CASE config # Off
  <2> DEFINE A(x, q) == \E r \in 0 .. config.data - 1 :
                            q * config.data + r + 1 <= x /\ f = DataShard(config, q, r)
             B(x, q) == \E j \in 0 .. config.parity - 1 :
                            q * config.data + config.data <= x /\ f = ParityShard(config, q, j)
  <2>1. PICK q \in 0 .. n : A(n, q) \/ B(n, q)
    BY <1>2, Zenon DEF IsFrame
  <2>2. q * config.data \in Nat /\ config.data \in Nat
    BY ShardCounts, SetNumbers
  <2>3. ASSUME NEW x \in Nat, x <= n PROVE x <= m
    BY <2>3
  <2>4. ASSUME A(n, q) PROVE A(m, q)
    <3>1. PICK r \in 0 .. config.data - 1 :
            q * config.data + r + 1 <= n /\ f = DataShard(config, q, r)
      BY <2>4, Zenon
    <3>2. q * config.data + r + 1 \in Nat
      BY <2>2
    <3> QED BY <2>3, <3>1, <3>2, Zenon
  <2>5. ASSUME B(n, q) PROVE B(m, q)
    <3>1. PICK j \in 0 .. config.parity - 1 :
            q * config.data + config.data <= n /\ f = ParityShard(config, q, j)
      BY <2>5, Zenon
    <3>2. q * config.data + config.data \in Nat
      BY <2>2
    <3> QED BY <2>3, <3>1, <3>2, Zenon
  <2>6. A(m, q) \/ B(m, q)
    BY <2>1, <2>4, <2>5, ZenonT(30)
  <2>7. q \in 0 .. m
    BY <1>0
  <2> QED BY <1>2, <2>6, <2>7, Zenon DEF IsFrame
<1> QED BY <1>1, <1>2

(* It is about one of them. *)
LEMMA FrameLast ==
    ASSUME NEW config \in Shards, NEW n \in Nat, NEW f, IsFrame(config, n, f)
    PROVE  f \in AnyFrame /\ Last(f) \in 1 .. n
<1>0. config.data \in Nat /\ config.parity \in Nat /\ Size(config) \in Nat
  BY ShardCounts DEF Size
<1>1. CASE config = Off
  <2>1. PICK d \in 1 .. n : f = Frame("bare", 0, <<d>>)
    BY <1>1, Zenon DEF IsFrame
  <2> QED BY <2>1 DEF Frame, AnyFrame, Last
<1>2. CASE config # Off
  <2>1. PICK q \in 0 .. n :
            \/ \E r \in 0 .. config.data - 1 :
                  q * config.data + r + 1 <= n /\ f = DataShard(config, q, r)
            \/ \E j \in 0 .. config.parity - 1 :
                  q * config.data + config.data <= n /\ f = ParityShard(config, q, j)
    BY <1>2, Zenon DEF IsFrame
  <2>2. q * config.data \in Nat /\ q * Size(config) \in Nat
    BY <1>0, SetNumbers, SMTT(20)
  <2> DEFINE a == q * config.data
             b == q * Size(config)
  <2> HIDE DEF a, b
  <2>3. CASE \E r \in 0 .. config.data - 1 :
                  q * config.data + r + 1 <= n /\ f = DataShard(config, q, r)
    <3>1. PICK r \in 0 .. config.data - 1 : a + r + 1 <= n /\ f = Frame("data", b + r, <<a + r + 1>>)
      BY <2>3, Zenon DEF DataShard, a, b
    <3>2. a \in Nat /\ b \in Nat
      BY <2>2 DEF a, b
    <3> QED BY <1>0, <3>1, <3>2 DEF Frame, AnyFrame, Last
  <2>4. CASE \E j \in 0 .. config.parity - 1 :
                  q * config.data + config.data <= n /\ f = ParityShard(config, q, j)
    <3> DEFINE s == [i \in 1 .. config.data |-> a + i]
    <3>1. PICK j \in 0 .. config.parity - 1 :
            a + config.data <= n /\ f = Frame("parity", b + config.data + j, s)
      BY <2>4, Zenon DEF ParityShard, Covered, a, b
    <3>2. a \in Nat /\ b \in Nat
      BY <2>2 DEF a, b
    <3>3. s \in Seq(Nat) /\ Len(s) = config.data
      BY <1>0, <3>2, SMTT(20)
    <3>4. config.data > 0
      BY <1>2, ShardCounts
    <3>5. s[config.data] = a + config.data
      BY <1>0, <3>4
    <3> HIDE DEF s
    <3>6. b + config.data + j \in Nat /\ a + config.data \in 1 .. n
      BY <1>0, <3>1, <3>2, <3>4, SMTT(20)
    <3>7. f \in AnyFrame /\ f.body = s
      BY <3>1, <3>3, <3>6 DEF Frame, AnyFrame
    <3> QED BY <3>3, <3>5, <3>6, <3>7, ZenonT(30) DEF Last
  <2> QED BY <2>1, <2>3, <2>4
<1> QED BY <1>1, <1>2

(* A flush of k datagrams frames them on from where the last one stopped; its  *)
(* frames are all different and none is older than the flush.                  *)
LEMMA BatchFrames ==
    ASSUME NEW config \in Shards, NEW n \in Nat, NEW k \in Nat, NEW c,
           EncoderAt(config, n, c), NEW burst \in BOOLEAN
    PROVE  LET b == Batch(config, c, n, k, burst)
           IN  /\ EncoderAt(config, n + k, b.encoder)
               /\ b.frames \in Seq(AnyFrame) /\ Injective(b.frames)
               /\ \A x \in Range(b.frames) :
                     IsFrame(config, n + k, x) /\ Last(x) \in n + 1 .. n + k
<1> DEFINE Good(b, i) == /\ EncoderAt(config, n + i, b.encoder)
                         /\ b.frames \in Seq(AnyFrame) /\ Injective(b.frames)
                         /\ \A x \in Range(b.frames) :
                               IsFrame(config, n + i, x) /\ Last(x) \in n + 1 .. n + i
<1>0. PICK g : Batch(config, c, n, k, burst) = g[k] /\ Batches(config, c, n, k, burst, g)
  BY BatchDefined
<1>1. /\ Batch(config, c, n, k, burst) = g[k]
      /\ g[0] = [encoder |-> c, frames |-> <<>>]
      /\ \A i \in 1 .. k : g[i] = Collect(config, g[i - 1], n + i, burst)
  BY <1>0, Zenon DEF Batches
<1> DEFINE S == {i \in Nat : i <= k => Good(g[i], i)}
<1>2. 0 \in S
  <2>1. g[0].encoder = c /\ g[0].frames = <<>> /\ n + 0 = n
    BY <1>1
  <2>2. <<>> \in Seq(AnyFrame) /\ Injective(<<>>) /\ Range(<<>>) = {}
    BY DEF Injective, Range
  <2>3. Good(g[0], 0)
    BY <2>1, <2>2, Zenon
  <2> HIDE DEF Good
  <2> QED BY <2>3
<1>3. ASSUME NEW i \in Nat, i \in S PROVE i + 1 \in S
  <2> SUFFICES ASSUME i + 1 <= k PROVE Good(g[i + 1], i + 1)
    <3> HIDE DEF Good
    <3> QED OBVIOUS
  <2> DEFINE b == g[i]
             m == n + i
             t == OnKcpDatagram(config, b.encoder, m + 1, burst)
             u == b.frames \o t.frames
  <2>1. /\ i \in Nat /\ i <= k /\ i + 1 \in 1 .. k /\ (i + 1) - 1 = i
        /\ m \in Nat /\ m + 1 \in Nat /\ m <= m + 1 /\ n + (i + 1) = m + 1
    OBVIOUS
  <2>2. Good(b, i)
    <3> HIDE DEF Good, b
    <3> QED BY <1>3, <2>1 DEF b
  <2>3. g[i + 1] = [encoder |-> t.encoder, frames |-> u]
    <3>1. g[i + 1] = Collect(config, b, m + 1, burst)
      BY <1>1, <2>1, ZenonT(30)
    <3> QED BY <3>1, Zenon DEF Collect
  <2> HIDE DEF b, m, t, u
  <2>8. g[i + 1].encoder = t.encoder /\ g[i + 1].frames = u
    BY <2>3
  <2>4. /\ EncoderAt(config, m + 1, t.encoder)
        /\ t.frames \in Seq(AnyFrame) /\ Injective(t.frames)
        /\ \A x \in Range(t.frames) : IsFrame(config, m + 1, x) /\ Last(x) = m + 1
    <3>1. EncoderAt(config, m, b.encoder)
      BY <2>2, Zenon DEF m
    <3> QED BY <2>1, <3>1, DatagramFrames, ZenonT(30) DEF t
  <2>5. /\ b.frames \in Seq(AnyFrame) /\ Injective(b.frames)
        /\ \A x \in Range(b.frames) : IsFrame(config, m, x) /\ Last(x) \in n + 1 .. m
    BY <2>2, Zenon DEF m
  <2>6. Range(b.frames) \cap Range(t.frames) = {}
    <3>1. m + 1 \notin n + 1 .. m
      BY <2>1
    <3> QED BY <2>4, <2>5, <3>1, Zenon
  <2>7. /\ u \in Seq(AnyFrame) /\ Injective(u)
        /\ Range(u) = Range(b.frames) \cup Range(t.frames)
    <3>1. u \in Seq(AnyFrame)
      BY <2>4, <2>5, Joined, Zenon DEF u
    <3>2. Injective(u)
      BY <2>4, <2>5, <2>6, InjectiveJoined, Zenon DEF u
    <3>3. Range(u) = Range(b.frames) \cup Range(t.frames)
      BY <2>4, <2>5, RangeJoined, ZenonT(30) DEF u
    <3> QED BY <3>1, <3>2, <3>3, Zenon
  <2>9. ASSUME NEW x \in Range(u)
        PROVE  IsFrame(config, m + 1, x) /\ Last(x) \in n + 1 .. m + 1
    <3>1. CASE x \in Range(b.frames)
      <4>1. IsFrame(config, m, x) /\ Last(x) \in n + 1 .. m
        BY <2>5, <3>1, Zenon
      <4>2. IsFrame(config, m + 1, x)
        BY <2>1, <4>1, FrameLater, Zenon
      <4>3. n + 1 .. m \subseteq n + 1 .. m + 1
        BY <2>1
      <4> QED BY <4>1, <4>2, <4>3, Zenon
    <3>2. CASE x \in Range(t.frames)
      <4>1. m + 1 \in n + 1 .. m + 1
        BY <2>1 DEF m
      <4> QED BY <2>4, <3>2, <4>1, Zenon
    <3> QED BY <2>7, <3>1, <3>2, Zenon
  <2>10. n + (i + 1) = m + 1
    BY <2>1
  <2> QED BY <2>4, <2>7, <2>8, <2>9, <2>10, ZenonT(30)
<1>4. k \in S
  <2> HIDE DEF S
  <2> QED BY <1>2, <1>3, Induction, Zenon
<1>5. k <= k
  OBVIOUS
<1>6. Good(g[k], k)
  <2> HIDE DEF Good
  <2> QED BY <1>4, <1>5
<1> HIDE DEF S
<1> QED BY <1>1, <1>6, Zenon

-----------------------------------------------------------------------------
(* Parts of a sequence. *)

(* A sequence without repetition, cut in two. *)
LEMMA Cut ==
    ASSUME NEW S, NEW s \in Seq(S), Injective(s), NEW a \in 0 .. Len(s)
    PROVE  LET p == SubSeq(s, 1, a)
               r == SubSeq(s, a + 1, Len(s))
           IN  /\ p \in Seq(S) /\ Injective(p) /\ r \in Seq(S) /\ Injective(r)
               /\ Range(p) \cap Range(r) = {} /\ Range(s) = Range(p) \cup Range(r)
<1> DEFINE p == SubSeq(s, 1, a)
           r == SubSeq(s, a + 1, Len(s))
<1>0. Len(s) \in Nat /\ a \in Nat /\ a <= Len(s)
  OBVIOUS
<1>1. p \in Seq(S) /\ Len(p) = a /\ \A i \in 1 .. a : p[i] = s[i]
  BY <1>0
<1>2. /\ r \in Seq(S) /\ Len(r) = Len(s) - a
      /\ \A i \in 1 .. Len(s) - a : r[i] = s[a + i]
  BY <1>0
<1> HIDE DEF p, r
<1>3. /\ Range(p) = {p[i] : i \in 1 .. Len(p)} /\ Range(r) = {r[i] : i \in 1 .. Len(r)}
      /\ Range(s) = {s[i] : i \in 1 .. Len(s)}
  BY <1>1, <1>2, RangeOf, ZenonT(30)
<1>4. /\ \A i \in 1 .. a : i \in 1 .. Len(s)
      /\ \A i \in 1 .. Len(s) - a : a + i \in 1 .. Len(s)
      /\ \A i \in 1 .. a, j \in 1 .. Len(s) - a : i # a + j
      /\ \A i, j \in 1 .. Len(s) - a : a + i = a + j => i = j
      /\ \A i \in 1 .. Len(s) : i \in 1 .. a \/ (i - a \in 1 .. Len(s) - a /\ i = a + (i - a))
  BY <1>0
<1>5. Injective(p) /\ Injective(r)
  <2>1. ASSUME NEW i \in 1 .. Len(p), NEW j \in 1 .. Len(p), p[i] = p[j] PROVE i = j
    <3>1. /\ i \in 1 .. Len(s) /\ p[i] = s[i]
          /\ j \in 1 .. Len(s) /\ p[j] = s[j]
      BY <1>1, <1>4, Zenon
    <3>2. s[i] = s[j]
      BY <2>1, <3>1, Zenon
    <3> QED BY <3>1, <3>2, Zenon DEF Injective
  <2>2. ASSUME NEW i \in 1 .. Len(r), NEW j \in 1 .. Len(r), r[i] = r[j] PROVE i = j
    <3>1. /\ a + i \in 1 .. Len(s) /\ r[i] = s[a + i]
          /\ a + j \in 1 .. Len(s) /\ r[j] = s[a + j]
      BY <1>2, <1>4, Zenon
    <3>2. s[a + i] = s[a + j]
      BY <2>2, <3>1, Zenon
    <3>3. a + i = a + j
      BY <3>1, <3>2, Zenon DEF Injective
    <3> QED BY <1>2, <1>4, <3>3, Zenon
  <2> QED BY <2>1, <2>2, Zenon DEF Injective
<1>6. Range(p) \cap Range(r) = {}
  <2> SUFFICES ASSUME NEW x \in Range(p), x \in Range(r) PROVE FALSE
    BY Zenon
  <2>0. PICK i \in 1 .. Len(p) : p[i] = x
    BY <1>3, Zenon
  <2>2. PICK j \in 1 .. Len(r) : r[j] = x
    BY <1>3, Zenon
  <2>1. p[i] = s[i] /\ r[j] = s[a + j] /\ i \in 1 .. Len(s) /\ a + j \in 1 .. Len(s)
    BY <1>1, <1>2, <1>4, Zenon
  <2>4. s[i] = s[a + j]
    BY <2>0, <2>2, <2>1, Zenon
  <2>3. s[i] = s[a + j] /\ i # a + j
    BY <1>0, <1>1, <1>2, <2>4
  <2> QED BY <2>1, <2>3, Zenon DEF Injective
<1>7. Range(s) \subseteq Range(p) \cup Range(r)
  <2> SUFFICES ASSUME NEW i \in 1 .. Len(s) PROVE s[i] \in Range(p) \cup Range(r)
    BY <1>3, Zenon
  <2>1. CASE i \in 1 .. a
    BY <1>1, <1>3, <2>1, Zenon
  <2>2. CASE i - a \in 1 .. Len(s) - a /\ i = a + (i - a)
    BY <1>2, <1>3, <2>2, Zenon
  <2> QED BY <1>4, <2>1, <2>2, Zenon
<1>8. Range(p) \subseteq Range(s)
  <2> SUFFICES ASSUME NEW i \in 1 .. a PROVE p[i] \in Range(s)
    BY <1>1, <1>3, Zenon
  <2>1. p[i] = s[i] /\ s[i] \in Range(s)
    BY <1>1, <1>4, InRange, Zenon
  <2> QED BY <2>1, Zenon
<1>9. Range(r) \subseteq Range(s)
  <2> SUFFICES ASSUME NEW i \in 1 .. Len(s) - a PROVE r[i] \in Range(s)
    BY <1>2, <1>3, Zenon
  <2>1. r[i] = s[a + i] /\ s[a + i] \in Range(s)
    BY <1>2, <1>4, InRange, Zenon
  <2> QED BY <2>1, Zenon
<1>10. Range(s) = Range(p) \cup Range(r)
  BY <1>7, <1>8, <1>9, Zenon
<1> QED BY <1>1, <1>2, <1>5, <1>6, <1>10, ZenonT(30) DEF p, r

(* Its head and the rest. *)
LEMMA HeadFirst ==
    ASSUME NEW S, NEW s \in Seq(S), s # <<>>
    PROVE  /\ Len(s) \in Nat /\ Len(s) > 0 /\ Head(s) = s[1] /\ Head(s) \in S
           /\ Tail(s) \in Seq(S) /\ Len(Tail(s)) = Len(s) - 1
           /\ \A i \in 1 .. Len(s) - 1 : Tail(s)[i] = s[i + 1]
OBVIOUS

(* A sequence without repetitions, without its first element. *)
LEMMA Behead ==
    ASSUME NEW S, NEW s \in Seq(S), s # <<>>, Injective(s)
    PROVE  /\ Tail(s) \in Seq(S) /\ Injective(Tail(s)) /\ Head(s) \in S
           /\ Head(s) \notin Range(Tail(s)) /\ Range(s) = {Head(s)} \cup Range(Tail(s))
<1> DEFINE t == Tail(s)
           h == Head(s)
<1>1. /\ Len(s) \in Nat /\ Len(s) > 0 /\ h = s[1] /\ h \in S
      /\ t \in Seq(S) /\ Len(t) = Len(s) - 1
      /\ \A i \in 1 .. Len(s) - 1 : t[i] = s[i + 1]
  BY HeadFirst
<1> HIDE DEF t, h
<1>2. /\ Range(t) = {t[i] : i \in 1 .. Len(t)} /\ Range(s) = {s[i] : i \in 1 .. Len(s)}
  BY <1>1, RangeOf
<1>3. /\ 1 \in 1 .. Len(s) /\ \A i \in 1 .. Len(s) - 1 : i + 1 \in 1 .. Len(s) /\ 1 # i + 1
      /\ \A i, j \in 1 .. Len(s) - 1 : i + 1 = j + 1 => i = j
      /\ \A i \in 1 .. Len(s) : i = 1 \/ (i - 1 \in 1 .. Len(s) - 1 /\ i = (i - 1) + 1)
  BY <1>1
<1>4. Injective(t)
  <2> SUFFICES ASSUME NEW i \in 1 .. Len(t), NEW j \in 1 .. Len(t), t[i] = t[j] PROVE i = j
    BY Zenon DEF Injective
  <2>1. /\ i + 1 \in 1 .. Len(s) /\ t[i] = s[i + 1]
        /\ j + 1 \in 1 .. Len(s) /\ t[j] = s[j + 1]
    BY <1>1, <1>3, Zenon
  <2>2. s[i + 1] = s[j + 1]
    BY <2>1, Zenon
  <2>3. i + 1 = j + 1
    BY <2>1, <2>2, Zenon DEF Injective
  <2> QED BY <1>1, <1>3, <2>3, Zenon
<1>5. h \notin Range(t)
  <2> SUFFICES ASSUME NEW i \in 1 .. Len(t), t[i] = h PROVE FALSE
    BY <1>2, Zenon
  <2>1. i + 1 \in 1 .. Len(s) /\ t[i] = s[i + 1] /\ 1 # i + 1
    BY <1>1, <1>3, Zenon
  <2>2. s[1] = s[i + 1]
    BY <1>1, <2>1, Zenon
  <2> QED BY <1>3, <2>1, <2>2, Zenon DEF Injective
<1>6. Range(s) \subseteq {h} \cup Range(t)
  <2> SUFFICES ASSUME NEW i \in 1 .. Len(s) PROVE s[i] \in {h} \cup Range(t)
    BY <1>2, Zenon
  <2>1. CASE i = 1
    BY <1>1, <2>1, Zenon
  <2>2. CASE i - 1 \in 1 .. Len(s) - 1 /\ i = (i - 1) + 1
    BY <1>1, <1>2, <2>2, Zenon
  <2> QED BY <1>3, <2>1, <2>2, Zenon
<1>7. h \in Range(s)
  BY <1>1, <1>2, <1>3, ZenonT(30)
<1>8. Range(t) \subseteq Range(s)
  <2> SUFFICES ASSUME NEW i \in 1 .. Len(s) - 1 PROVE t[i] \in Range(s)
    BY <1>1, <1>2, Zenon
  <2>1. t[i] = s[i + 1] /\ s[i + 1] \in Range(s)
    BY <1>1, <1>3, InRange, Zenon
  <2> QED BY <2>1, Zenon
<1>9. Range(s) = {h} \cup Range(t)
  BY <1>6, <1>7, <1>8, Zenon
<1> QED BY <1>1, <1>4, <1>5, <1>9, Zenon DEF t, h

-----------------------------------------------------------------------------
(* Bursts. *)

LEMMA QueuedJoined ==
    ASSUME NEW S, NEW b \in Seq(Seq(S)), NEW c \in Seq(Seq(S))
    PROVE  Queued(b \o c) = Queued(b) \cup Queued(c)
<1> DEFINE u == b \o c
<1>1. Range(u) = Range(b) \cup Range(c)
  BY RangeJoined
<1>2. u \in Seq(Seq(S))
  BY Joined, Zenon
<1> HIDE DEF u
<1>3. ASSUME NEW x \in Seq(Seq(S)) PROVE Queued(x) = UNION {Range(y) : y \in Range(x)}
  <2>1. Range(x) = {x[i] : i \in 1 .. Len(x)}
    BY RangeOf
  <2> QED BY <2>1, Zenon DEF Queued
<1>4. /\ Queued(u) = UNION {Range(y) : y \in Range(u)}
      /\ Queued(b) = UNION {Range(y) : y \in Range(b)}
      /\ Queued(c) = UNION {Range(y) : y \in Range(c)}
  BY <1>2, <1>3, Zenon
<1> QED BY <1>1, <1>4, Zenon DEF u

(* Bursts apart, followed by bursts apart from them. *)
LEMMA ApartJoined ==
    ASSUME NEW S, NEW b \in Seq(Seq(S)), NEW c \in Seq(Seq(S)), Apart(b), Apart(c),
           Queued(b) \cap Queued(c) = {}
    PROVE  Apart(b \o c)
<1> DEFINE u == b \o c
           I == 1 .. Len(b)
           J == Len(b) + 1 .. Len(b) + Len(c)
           k(i) == i - Len(b)
<1>1. /\ Len(u) = Len(b) + Len(c) /\ Len(b) \in Nat /\ Len(c) \in Nat
      /\ \A i \in I : u[i] = b[i]
      /\ \A i \in J : k(i) \in 1 .. Len(c) /\ u[i] = c[k(i)]
  BY Joined
<1> HIDE DEF u
<1>2. /\ \A i \in 1 .. Len(u) : i \in I \/ i \in J
      /\ \A i, j \in J : k(i) = k(j) => i = j
  BY <1>1
<1> HIDE DEF I, J, k
<1>3. /\ \A i \in I : Range(b[i]) \subseteq Queued(b)
      /\ \A i \in 1 .. Len(c) : Range(c[i]) \subseteq Queued(c)
  BY Zenon DEF Queued, I
<1>4. ASSUME NEW i \in 1 .. Len(u) PROVE Injective(u[i])
  <2>1. CASE i \in I
    <3>1. u[i] = b[i] /\ Injective(b[i])
      BY <1>1, <2>1, Zenon DEF Apart, I
    <3> QED BY <3>1, Zenon
  <2>2. CASE i \in J
    <3>1. u[i] = c[k(i)] /\ Injective(c[k(i)])
      BY <1>1, <2>2, Zenon DEF Apart
    <3> QED BY <3>1, Zenon
  <2> QED BY <1>2, <2>1, <2>2, Zenon
<1>5. ASSUME NEW i \in 1 .. Len(u), NEW j \in 1 .. Len(u), i # j
      PROVE  Range(u[i]) \cap Range(u[j]) = {}
  <2>1. CASE i \in I /\ j \in I
    <3>1. u[i] = b[i] /\ u[j] = b[j] /\ Range(b[i]) \cap Range(b[j]) = {}
      BY <1>1, <1>5, <2>1, Zenon DEF Apart, I
    <3> QED BY <3>1, Zenon
  <2>2. CASE i \in J /\ j \in J
    <3>1. u[i] = c[k(i)] /\ u[j] = c[k(j)] /\ k(i) \in 1 .. Len(c) /\ k(j) \in 1 .. Len(c)
      BY <1>1, <2>2, Zenon
    <3>2. k(i) # k(j)
      BY <1>2, <1>5, <2>2, Zenon
    <3>3. Range(c[k(i)]) \cap Range(c[k(j)]) = {}
      BY <3>1, <3>2, Zenon DEF Apart
    <3> QED BY <3>1, <3>3, Zenon
  <2>3. CASE i \in I /\ j \in J
    <3>1. u[i] = b[i] /\ u[j] = c[k(j)] /\ k(j) \in 1 .. Len(c)
      BY <1>1, <2>3, Zenon
    <3>2. Range(b[i]) \subseteq Queued(b) /\ Range(c[k(j)]) \subseteq Queued(c)
      BY <1>3, <2>3, <3>1, Zenon
    <3> QED BY <3>1, <3>2, Zenon
  <2>4. CASE j \in I /\ i \in J
    <3>1. u[j] = b[j] /\ u[i] = c[k(i)] /\ k(i) \in 1 .. Len(c)
      BY <1>1, <2>4, Zenon
    <3>2. Range(b[j]) \subseteq Queued(b) /\ Range(c[k(i)]) \subseteq Queued(c)
      BY <1>3, <2>4, <3>1, Zenon
    <3> QED BY <3>1, <3>2, Zenon
  <2> QED BY <1>2, <2>1, <2>2, <2>3, <2>4, Zenon
<1> QED BY <1>4, <1>5, Zenon DEF Apart, u

(* The first burst and the rest. *)
LEMMA BeheadBursts ==
    ASSUME NEW S, NEW b \in Seq(Seq(S)), b # <<>>, Apart(b)
    PROVE  /\ Tail(b) \in Seq(Seq(S)) /\ Apart(Tail(b))
           /\ Head(b) \in Seq(S) /\ Injective(Head(b))
           /\ Range(Head(b)) \cap Queued(Tail(b)) = {}
           /\ Queued(b) = Range(Head(b)) \cup Queued(Tail(b))
<1> DEFINE t == Tail(b)
           h == Head(b)
<1>1. /\ Len(b) \in Nat /\ Len(b) > 0 /\ h = b[1] /\ h \in Seq(S)
      /\ t \in Seq(Seq(S)) /\ Len(t) = Len(b) - 1
      /\ \A i \in 1 .. Len(b) - 1 : t[i] = b[i + 1]
  BY HeadFirst
<1> HIDE DEF t, h
<1>2. /\ 1 \in 1 .. Len(b) /\ \A i \in 1 .. Len(t) : i + 1 \in 1 .. Len(b) /\ 1 # i + 1
      /\ \A i, j \in 1 .. Len(t) : i # j => i + 1 # j + 1
      /\ \A i \in 1 .. Len(b) : i = 1 \/ (i - 1 \in 1 .. Len(t) /\ i = (i - 1) + 1)
  BY <1>1
<1>3. ASSUME NEW i \in 1 .. Len(t) PROVE t[i] = b[i + 1] /\ i + 1 \in 1 .. Len(b)
  BY <1>1, <1>2, Zenon
<1>4. Injective(h)
  BY <1>1, <1>2, Zenon DEF Apart
<1>5. Apart(t)
  <2>1. ASSUME NEW i \in 1 .. Len(t) PROVE Injective(t[i])
    <3>1. Injective(b[i + 1])
      BY <1>3, Zenon DEF Apart
    <3> QED BY <1>3, <3>1, Zenon
  <2>2. ASSUME NEW i \in 1 .. Len(t), NEW j \in 1 .. Len(t), i # j
        PROVE  Range(t[i]) \cap Range(t[j]) = {}
    <3>1. i + 1 # j + 1 /\ i + 1 \in 1 .. Len(b) /\ j + 1 \in 1 .. Len(b)
      BY <1>2, <2>2, Zenon
    <3>2. Range(b[i + 1]) \cap Range(b[j + 1]) = {}
      BY <3>1, Zenon DEF Apart
    <3> QED BY <1>3, <3>2, Zenon
  <2> QED BY <2>1, <2>2, Zenon DEF Apart
<1>6. Range(h) \cap Queued(t) = {}
  <2> SUFFICES ASSUME NEW i \in 1 .. Len(t) PROVE Range(h) \cap Range(t[i]) = {}
    BY Zenon DEF Queued
  <2>1. Range(b[1]) \cap Range(b[i + 1]) = {}
    BY <1>2, Zenon DEF Apart
  <2> QED BY <1>1, <1>3, <2>1, Zenon
<1>7. Queued(b) \subseteq Range(h) \cup Queued(t)
  <2> SUFFICES ASSUME NEW i \in 1 .. Len(b) PROVE Range(b[i]) \subseteq Range(h) \cup Queued(t)
    BY Zenon DEF Queued
  <2>1. CASE i = 1
    BY <1>1, <2>1, Zenon
  <2>2. CASE i - 1 \in 1 .. Len(t) /\ i = (i - 1) + 1
    <3>1. t[i - 1] = b[i]
      BY <1>3, <2>2, Zenon
    <3>2. Range(t[i - 1]) \subseteq Queued(t)
      BY <2>2, Zenon DEF Queued
    <3> QED BY <3>1, <3>2, Zenon
  <2> QED BY <1>2, <2>1, <2>2, Zenon
<1>8. Range(h) \subseteq Queued(b)
  <2>1. Range(b[1]) \subseteq Queued(b)
    BY <1>2, Zenon DEF Queued
  <2> QED BY <1>1, <2>1, Zenon
<1>9. Queued(t) \subseteq Queued(b)
  <2> SUFFICES ASSUME NEW i \in 1 .. Len(t) PROVE Range(t[i]) \subseteq Queued(b)
    BY Zenon DEF Queued
  <2>1. Range(b[i + 1]) \subseteq Queued(b)
    BY <1>3, Zenon DEF Queued
  <2> QED BY <1>3, <2>1, Zenon
<1>10. Queued(b) = Range(h) \cup Queued(t)
  BY <1>7, <1>8, <1>9, Zenon
<1> QED BY <1>1, <1>4, <1>5, <1>6, <1>10, Zenon DEF t, h

-----------------------------------------------------------------------------
(* Bags without repetition. *)

LEMMA OneOf == \A x : IsFiniteSet({x}) /\ Cardinality({x}) = 1
BY FS_Singleton, Zenon

(* The bag of a sequence without repetitions has each element once. *)
LEMMA BagOfSequence ==
    ASSUME NEW S, NEW q \in Seq(S), Injective(q)
    PROVE  ToBag(q) = SetToBag(Range(q))
<1> DEFINE At(x) == {i \in DOMAIN q : q[i] = x}
<1>1. DOMAIN q = 1 .. Len(q)
  OBVIOUS
<1>2. ASSUME NEW x \in Range(q) PROVE Cardinality(At(x)) = 1
  <2>1. PICK i \in 1 .. Len(q) : q[i] = x
    BY <1>1, Zenon DEF Range
  <2>2. At(x) = {i}
    BY <1>1, <2>1, Zenon DEF Injective
  <2> QED BY <2>2, OneOf, Zenon
<1>3. ToBag(q) = [x \in Range(q) |-> Cardinality(At(x))]
  BY Zenon DEF ToBag
<1> HIDE DEF At
<1> QED BY <1>2, <1>3, Zenon DEF SetToBag

(* So has the bag of bursts that are apart. *)
LEMMA BagOfBursts ==
    ASSUME NEW S, NEW b \in Seq(Seq(S)), Apart(b)
    PROVE  ToBags(b) = SetToBag(Queued(b))
<1> DEFINE places == UNION {{i} \X DOMAIN b[i] : i \in DOMAIN b}
           At(x) == {p \in places : b[p[1]][p[2]] = x}
<1>1. DOMAIN b = 1 .. Len(b) /\ \A i \in 1 .. Len(b) : DOMAIN b[i] = 1 .. Len(b[i])
  OBVIOUS
<1>2. ToBags(b) = [x \in Queued(b) |-> Cardinality(At(x))]
  BY <1>1, Zenon DEF ToBags, Queued
<1>3. ASSUME NEW x \in Queued(b) PROVE Cardinality(At(x)) = 1
  <2>1. PICK i \in 1 .. Len(b) : x \in Range(b[i])
    BY Zenon DEF Queued
  <2>2. PICK j \in 1 .. Len(b[i]) : b[i][j] = x
    BY <1>1, <2>1, Zenon DEF Range
  <2>3. <<i, j>> \in At(x)
    <3>1. <<i, j>> \in {i} \X DOMAIN b[i]
      BY <1>1, <2>2
    <3>2. <<i, j>> \in places
      BY <1>1, <3>1, Zenon
    <3>3. <<i, j>>[1] = i /\ <<i, j>>[2] = j
      OBVIOUS
    <3> QED BY <2>2, <3>2, <3>3, Zenon
  <2>4. ASSUME NEW p \in At(x) PROVE p = <<i, j>>
    <3>1. PICK k \in 1 .. Len(b) : p \in {k} \X DOMAIN b[k]
      BY <1>1, <2>4, Zenon
    <3>2. p = <<p[1], p[2]>> /\ p[1] = k /\ p[2] \in 1 .. Len(b[k])
      BY <1>1, <3>1
    <3>3. b[k][p[2]] = x
      BY <2>4, <3>2, Zenon
    <3>4. x \in Range(b[k])
      BY <1>1, <3>2, <3>3, Zenon DEF Range
    <3>5. k = i
      BY <2>1, <3>4, Zenon DEF Apart
    <3>6. p[2] \in 1 .. Len(b[i]) /\ b[i][p[2]] = b[i][j]
      BY <2>2, <3>2, <3>3, <3>5, Zenon
    <3>7. p[2] = j
      BY <3>6, Zenon DEF Apart, Injective
    <3> QED BY <3>2, <3>5, <3>7, Zenon
  <2> HIDE DEF At
  <2>5. At(x) = {<<i, j>>}
    BY <2>3, <2>4, Zenon
  <2> QED BY <2>5, OneOf, Zenon
<1> HIDE DEF At
<1> QED BY <1>2, <1>3, Zenon DEF SetToBag

(* Disjoint bags that have their elements once, together. *)
LEMMA BagsJoined ==
    ASSUME NEW A, NEW B, A \cap B = {}
    PROVE  SetToBag(A) (+) SetToBag(B) = SetToBag(A \cup B)
BY DEF SetToBag, (+)

(* What is in such a bag. *)
LEMMA SetOfBag == \A A : DOMAIN SetToBag(A) = A
BY DEF SetToBag

-----------------------------------------------------------------------------
(* Frames arrive at a place, and leave it. *)

(* The kernel accepts frames. *)
LEMMA AddAccepted ==
    ASSUME NEW all, NEW accepted, NEW dropped, NEW waiting, NEW bursts,
           Placed(all, accepted, dropped, waiting, bursts), NEW A, A \cap all = {}
    PROVE  Placed(all \cup A, accepted (+) SetToBag(A), dropped, waiting, bursts)
<1>1. accepted = SetToBag(DOMAIN accepted) /\ DOMAIN accepted \cap A = {}
  BY Zenon DEF Placed, SetToBag
<1>2. accepted (+) SetToBag(A) = SetToBag(DOMAIN accepted \cup A)
  BY <1>1, BagsJoined, Zenon
<1> DEFINE a == accepted (+) SetToBag(A)
<1>3. DOMAIN a = DOMAIN accepted \cup A /\ a = [x \in DOMAIN a |-> 1]
  BY <1>2, SetOfBag, Zenon DEF SetToBag
<1> HIDE DEF a
<1>4. Placed(all \cup A, a, dropped, waiting, bursts)
  BY <1>3, Zenon DEF Placed
<1> QED BY <1>4 DEF a

(* Frames are dropped. *)
LEMMA AddDropped ==
    ASSUME NEW all, NEW accepted, NEW dropped, NEW waiting, NEW bursts,
           Placed(all, accepted, dropped, waiting, bursts), NEW D, D \cap all = {}
    PROVE  Placed(all \cup D, accepted, dropped \cup D, waiting, bursts)
BY Zenon DEF Placed

(* Frames wait behind the ones that do. *)
LEMMA AddWaiting ==
    ASSUME NEW all, NEW accepted, NEW dropped, NEW waiting, NEW bursts,
           Placed(all, accepted, dropped, waiting, bursts),
           NEW w \in Seq(AnyFrame), Injective(w), Range(w) \cap all = {}
    PROVE  Placed(all \cup Range(w), accepted, dropped, waiting \o w, bursts)
<1> DEFINE u == waiting \o w
<1>1. waiting \in Seq(AnyFrame) /\ Injective(waiting) /\ Range(waiting) \subseteq all
  BY Zenon DEF Placed
<1>2. u \in Seq(AnyFrame)
  BY <1>1, Joined, Zenon
<1>3. Range(u) = Range(waiting) \cup Range(w)
  BY <1>1, RangeJoined
<1>4. Injective(u)
  <2>1. Range(waiting) \cap Range(w) = {}
    BY <1>1, Zenon
  <2> QED BY <1>1, <2>1, InjectiveJoined, Zenon
<1> HIDE DEF u
<1>5. Placed(all \cup Range(w), accepted, dropped, u, bursts)
  BY <1>2, <1>3, <1>4, Zenon DEF Placed
<1> QED BY <1>5 DEF u

(* Bursts are posted. *)
LEMMA AddBursts ==
    ASSUME NEW all, NEW accepted, NEW dropped, NEW waiting, NEW bursts,
           Placed(all, accepted, dropped, waiting, bursts),
           NEW b \in Seq(Seq(AnyFrame)), Apart(b), Queued(b) \cap all = {}
    PROVE  Placed(all \cup Queued(b), accepted, dropped, waiting, bursts \o b)
<1> DEFINE u == bursts \o b
<1>1. bursts \in Seq(Seq(AnyFrame)) /\ Apart(bursts) /\ Queued(bursts) \subseteq all
  BY Zenon DEF Placed
<1>2. u \in Seq(Seq(AnyFrame))
  BY <1>1, Joined, Zenon
<1>3. Queued(u) = Queued(bursts) \cup Queued(b)
  BY <1>1, QueuedJoined
<1>4. Apart(u)
  <2>1. Queued(bursts) \cap Queued(b) = {}
    BY <1>1, Zenon
  <2> QED BY <1>1, <2>1, ApartJoined, Zenon
<1> HIDE DEF u
<1>5. Placed(all \cup Queued(b), accepted, dropped, waiting, u)
  BY <1>2, <1>3, <1>4, Zenon DEF Placed
<1> QED BY <1>5 DEF u

(* The first asynchronous send is taken out. *)
LEMMA TakeFirst ==
    ASSUME NEW all, NEW accepted, NEW dropped, NEW waiting, NEW bursts,
           Placed(all, accepted, dropped, waiting, bursts), waiting # <<>>
    PROVE  /\ Placed(all \ {Head(waiting)}, accepted, dropped, Tail(waiting), bursts)
           /\ Head(waiting) \in all /\ Head(waiting) \in AnyFrame
<1>1. waiting \in Seq(AnyFrame) /\ Injective(waiting)
  BY Zenon DEF Placed
<1> DEFINE h == Head(waiting)
           t == Tail(waiting)
<1>2. /\ t \in Seq(AnyFrame) /\ Injective(t) /\ h \in AnyFrame
      /\ h \notin Range(t) /\ Range(waiting) = {h} \cup Range(t)
  BY <1>1, Behead, Zenon
<1> HIDE DEF h, t
<1>3. Placed(all \ {h}, accepted, dropped, t, bursts) /\ h \in all
  BY <1>2, Zenon DEF Placed
<1> QED BY <1>2, <1>3 DEF h, t

(* All the waiting sends are taken out. *)
LEMMA TakeWaiting ==
    ASSUME NEW all, NEW accepted, NEW dropped, NEW waiting, NEW bursts,
           Placed(all, accepted, dropped, waiting, bursts)
    PROVE  /\ Placed(all \ Range(waiting), accepted, dropped, <<>>, bursts)
           /\ Range(waiting) \subseteq all
<1>1. <<>> \in Seq(AnyFrame) /\ Injective(<<>>) /\ Range(<<>>) = {}
  BY DEF Injective, Range
<1> QED BY <1>1, Zenon DEF Placed

(* The first posted burst is taken out. *)
LEMMA TakeBurst ==
    ASSUME NEW all, NEW accepted, NEW dropped, NEW waiting, NEW bursts,
           Placed(all, accepted, dropped, waiting, bursts), bursts # <<>>
    PROVE  /\ Placed(all \ Range(Head(bursts)), accepted, dropped, waiting, Tail(bursts))
           /\ Range(Head(bursts)) \subseteq all
           /\ Head(bursts) \in Seq(AnyFrame) /\ Injective(Head(bursts))
<1>1. bursts \in Seq(Seq(AnyFrame)) /\ Apart(bursts)
  BY Zenon DEF Placed
<1> DEFINE h == Head(bursts)
           t == Tail(bursts)
<1>2. /\ t \in Seq(Seq(AnyFrame)) /\ Apart(t) /\ h \in Seq(AnyFrame) /\ Injective(h)
      /\ Range(h) \cap Queued(t) = {} /\ Queued(bursts) = Range(h) \cup Queued(t)
  BY <1>1, BeheadBursts, Zenon
<1> HIDE DEF h, t
<1>3. Placed(all \ Range(h), accepted, dropped, waiting, t) /\ Range(h) \subseteq all
  BY <1>2, Zenon DEF Placed
<1> QED BY <1>2, <1>3 DEF h, t

(* A burst is sent: what the kernel takes, and the rest. *)
LEMMA AddSent ==
    ASSUME NEW all, NEW accepted, NEW dropped, NEW waiting, NEW bursts,
           Placed(all, accepted, dropped, waiting, bursts),
           NEW b \in Seq(AnyFrame), Injective(b), Range(b) \cap all = {},
           NEW a \in 0 .. Len(b)
    PROVE  Placed(all \cup Range(b), accepted (+) ToBag(SubSeq(b, 1, a)), dropped,
                  waiting \o SubSeq(b, a + 1, Len(b)), bursts)
<1> DEFINE p == SubSeq(b, 1, a)
           r == SubSeq(b, a + 1, Len(b))
<1>1. /\ p \in Seq(AnyFrame) /\ Injective(p) /\ r \in Seq(AnyFrame) /\ Injective(r)
      /\ Range(p) \cap Range(r) = {} /\ Range(b) = Range(p) \cup Range(r)
  BY Cut, Zenon
<1> HIDE DEF p, r
<1>2. ToBag(p) = SetToBag(Range(p))
  BY <1>1, BagOfSequence, Zenon
<1>3. Placed(all \cup Range(p), accepted (+) ToBag(p), dropped, waiting, bursts)
  <2>1. Range(p) \cap all = {}
    BY <1>1, Zenon
  <2> QED BY <1>2, <2>1, AddAccepted, Zenon
<1>4. Placed((all \cup Range(p)) \cup Range(r), accepted (+) ToBag(p), dropped,
             waiting \o r, bursts)
  <2>1. Range(r) \cap (all \cup Range(p)) = {}
    BY <1>1, Zenon
  <2> QED BY <1>1, <1>3, <2>1, AddWaiting, Zenon
<1>5. (all \cup Range(p)) \cup Range(r) = all \cup Range(b)
  BY <1>1, Zenon
<1> QED BY <1>4, <1>5, Zenon DEF p, r

(* Frames that are all in one place make bags that add up. *)
LEMMA PlacedOnce ==
    ASSUME NEW all, NEW accepted, NEW dropped, NEW waiting, NEW bursts,
           Placed(all, accepted, dropped, waiting, bursts)
    PROVE  SetToBag(all) = accepted (+) SetToBag(dropped) (+) ToBag(waiting) (+) ToBags(bursts)
<1> DEFINE A == DOMAIN accepted
           W == Range(waiting)
           B == Queued(bursts)
<1>1. /\ accepted = SetToBag(A) /\ all = A \cup dropped \cup W \cup B
      /\ A \cap dropped = {} /\ (A \cup dropped) \cap W = {} /\ (A \cup dropped \cup W) \cap B = {}
  BY Zenon DEF Placed, SetToBag
<1>2. ToBag(waiting) = SetToBag(W)
  BY BagOfSequence, Zenon DEF Placed
<1>3. ToBags(bursts) = SetToBag(B)
  BY BagOfBursts, Zenon DEF Placed
<1> HIDE DEF A, W, B
<1>4. accepted (+) SetToBag(dropped) = SetToBag(A \cup dropped)
  BY <1>1, BagsJoined, Zenon
<1>5. SetToBag(A \cup dropped) (+) SetToBag(W) = SetToBag(A \cup dropped \cup W)
  BY <1>1, BagsJoined, Zenon
<1>6. SetToBag(A \cup dropped \cup W) (+) SetToBag(B) = SetToBag(A \cup dropped \cup W \cup B)
  BY <1>1, BagsJoined, Zenon
<1> QED BY <1>1, <1>2, <1>3, <1>4, <1>5, <1>6, ZenonT(30)

-----------------------------------------------------------------------------
(* Repair. *)

(* The place of a shard in its set. *)
Index(config, f) == (f.seqid % Size(config)) + 1

(* Shard f is of set q. *)
OfSet(config, n, q, f) ==
    \/ /\ f.type = "data" /\ Index(config, f) \in 1 .. config.data
       /\ f = DataShard(config, q, Index(config, f) - 1)
       /\ f.body = <<q * config.data + Index(config, f)>>
       /\ q * config.data + Index(config, f) \in 1 .. n
    \/ /\ f.type = "parity" /\ Index(config, f) \notin 1 .. config.data
       /\ f.body = Covered(config, q) /\ q * config.data + config.data <= n

(* Every shard is of the set its number is in. *)
LEMMA ShardOfSet ==
    ASSUME NEW config \in Shards, config # Off, NEW n \in Nat, NEW f, IsFrame(config, n, f)
    PROVE  \E q \in Nat : f.seqid \div Size(config) = q /\ OfSet(config, n, q, f)
<1>1. /\ config.data \in Nat /\ config.data > 0 /\ config.parity \in Nat
      /\ Size(config) = config.data + config.parity /\ Size(config) \in Nat
  BY ShardCounts DEF Size
<1>2. PICK q \in 0 .. n :
            \/ \E r \in 0 .. config.data - 1 :
                  q * config.data + r + 1 <= n /\ f = DataShard(config, q, r)
            \/ \E j \in 0 .. config.parity - 1 :
                  q * config.data + config.data <= n /\ f = ParityShard(config, q, j)
  BY Zenon DEF IsFrame
<1>3. q \in Nat /\ q * config.data \in Nat
  BY <1>1, SetNumbers
<1> DEFINE a == q * config.data
           b == q * Size(config)
           m == Size(config)
           d == config.data
<1>4. CASE \E r \in 0 .. config.data - 1 :
              q * config.data + r + 1 <= n /\ f = DataShard(config, q, r)
  <2>1. PICK r \in 0 .. d - 1 : a + r + 1 <= n /\ f = DataShard(config, q, r)
    BY <1>4, Zenon
  <2>2. f = Frame("data", b + r, <<a + r + 1>>)
    BY <2>1, Zenon DEF DataShard
  <2>3. f.type = "data" /\ f.seqid = b + r /\ f.body = <<a + r + 1>>
    <3> HIDE DEF a, b
    <3> QED BY <2>2, ZenonT(30) DEF Frame
  <2>4. r \in 0 .. m - 1
    BY <1>1
  <2>5. (b + r) \div m = q /\ (b + r) % m = r
    BY <1>1, <1>3, <2>4, SetOf, ZenonT(30)
  <2> HIDE DEF a, b, m, d
  <2>6. f.seqid \div m = q /\ f.seqid % m = r
    BY <2>3, <2>5, ZenonT(30)
  <2>7. a \in Nat /\ d \in Nat
    BY <1>1, <1>3, ZenonT(30) DEF a, d
  <2>8. /\ (f.seqid % m) + 1 \in 1 .. d /\ ((f.seqid % m) + 1) - 1 = r
        /\ a + ((f.seqid % m) + 1) = a + r + 1 /\ a + ((f.seqid % m) + 1) \in 1 .. n
    BY <2>1, <2>6, <2>7, SMTT(20)
  <2>9. OfSet(config, n, q, f)
    BY <2>1, <2>3, <2>8, ZenonT(30) DEF OfSet, Index, a, d, m
  <2> QED BY <1>3, <2>6, <2>9, ZenonT(30) DEF m
<1>5. CASE \E j \in 0 .. config.parity - 1 :
              q * config.data + config.data <= n /\ f = ParityShard(config, q, j)
  <2>1. PICK j \in 0 .. config.parity - 1 : a + d <= n /\ f = ParityShard(config, q, j)
    BY <1>5, Zenon
  <2>2. f = Frame("parity", b + d + j, Covered(config, q))
    BY <2>1, ZenonT(30) DEF ParityShard
  <2>3. f.type = "parity" /\ f.seqid = b + d + j /\ f.body = Covered(config, q)
    <3> HIDE DEF b, d
    <3> QED BY <2>2 DEF Frame
  <2>4. d + j \in 0 .. m - 1 /\ b + d + j = b + (d + j)
    BY <1>1, <1>3, SetNumbers, SMTT(20)
  <2>5. (b + (d + j)) \div m = q /\ (b + (d + j)) % m = d + j
    <3> DEFINE r == d + j
    <3> HIDE DEF r
    <3>1. r \in 0 .. m - 1
      BY <2>4 DEF r
    <3>2. (b + r) \div m = q /\ (b + r) % m = r
      BY <1>1, <1>3, <3>1, SetOf, ZenonT(30)
    <3> QED BY <3>2 DEF r
  <2> HIDE DEF a, b, m, d
  <2>6. f.seqid \div m = q /\ f.seqid % m = d + j
    BY <2>3, <2>4, <2>5, ZenonT(30)
  <2>7. (f.seqid % m) + 1 \notin 1 .. d
    BY <1>1, <2>6 DEF d
  <2>9. OfSet(config, n, q, f)
    BY <2>1, <2>3, <2>7, ZenonT(30) DEF OfSet, Index, a, d, m
  <2> QED BY <1>3, <2>6, <2>9, ZenonT(30) DEF m
<1> QED BY <1>2, <1>4, <1>5, ZenonT(30)

(* What the decoder rebuilds from shards of one stream are datagrams of it; and *)
(* as many shards of a set as it has data shards, parity among them, bring in  *)
(* the whole set.                                                              *)
LEMMA Repair ==
    ASSUME NEW config \in Shards, config # Off, NEW n \in Nat, NEW F, IsFiniteSet(F),
           \A g \in F : IsFrame(config, n, g), NEW f \in F
    PROVE  LET group == {g \in F : g.seqid \div Size(config) = f.seqid \div Size(config)}
               R == Rebuilt(config, F, f.seqid)
               direct == {g \in group : g.type = "data"}
           IN  /\ R \subseteq 1 .. n
               /\ \A g \in group : g.type = "parity" /\ Cardinality(group) >= config.data
                    => Range(g.body) \subseteq R \cup UNION {Range(h.body) : h \in direct}
<1> DEFINE d == config.data
           idx(g) == Index(config, g)
           group == {g \in F : g.seqid \div Size(config) = f.seqid \div Size(config)}
           direct == {g \in group : g.type = "data"}
           R == Rebuilt(config, F, f.seqid)
           agrees(body) == /\ Len(body) = d
                           /\ \A g \in group : g.type = "data" =>
                                 idx(g) <= d /\ g.body = <<body[idx(g)]>>
           covers == {g.body : g \in {h \in group : h.type = "parity"}}
           missing == 1 .. d \ {idx(g) : g \in group}
<1>1. d \in Nat /\ d > 0
  BY ShardCounts
<1>2. PICK q \in Nat : f.seqid \div Size(config) = q
  BY ShardOfSet, Zenon
<1>3. \A g \in group : OfSet(config, n, q, g)
  <2> SUFFICES ASSUME NEW g \in group PROVE OfSet(config, n, q, g)
    BY Zenon
  <2>1. IsFrame(config, n, g) /\ g.seqid \div Size(config) = q
    BY <1>2, Zenon
  <2>2. PICK p \in Nat : g.seqid \div Size(config) = p /\ OfSet(config, n, p, g)
    BY <2>1, ShardOfSet, Zenon
  <2> QED BY <2>1, <2>2, Zenon
<1>4. R = IF Cardinality(group) < d THEN {}
          ELSE {IF \E body \in covers : agrees(body)
                THEN (CHOOSE body \in covers : agrees(body))[i] ELSE 0 : i \in missing}
  BY Zenon DEF Rebuilt, Size, Index
<1>5. IsFiniteSet(group) /\ Cardinality(group) \in Nat
  BY FS_Subset, FS_CardinalityType, ZenonT(30)
<1> HIDE DEF R, d
<1> DEFINE C == Covered(config, q)
           a == q * d
<1>6. a \in Nat /\ Len(C) = d /\ \A i \in 1 .. d : C[i] = a + i
  <2>1. a \in Nat
    BY <1>1, SetNumbers
  <2>2. C = [i \in 1 .. d |-> a + i]
    BY Zenon DEF Covered, d
  <2> HIDE DEF C, a
  <2> QED BY <1>1, <2>1, <2>2, SMTT(20)
<1>7. /\ \A g \in group : g.type = "data" =>
            /\ idx(g) \in 1 .. d /\ g = DataShard(config, q, idx(g) - 1)
            /\ g.body = <<a + idx(g)>>
      /\ \A g \in group : g.type = "parity" =>
            idx(g) \notin 1 .. d /\ g.body = C /\ a + d <= n
      /\ \A g \in group : g.type = "data" \/ g.type = "parity"
  <2>1. "data" # "parity"
    OBVIOUS
  <2> HIDE DEF group
  <2> QED BY <1>3, <2>1, Zenon DEF OfSet, d
<1> HIDE DEF C, a, idx, group
<1>8. agrees(C)
  <2> SUFFICES ASSUME NEW g \in group, g.type = "data"
               PROVE  idx(g) <= d /\ g.body = <<C[idx(g)]>>
    BY <1>6, Zenon
  <2>1. idx(g) \in 1 .. d /\ g.body = <<a + idx(g)>>
    BY <1>7, Zenon
  <2>2. C[idx(g)] = a + idx(g)
    BY <1>6, <2>1, ZenonT(30)
  <2>3. idx(g) <= d
    BY <1>1, <2>1
  <2> QED BY <2>1, <2>2, <2>3, ZenonT(30)
<1> HIDE DEF agrees
<1>9. ASSUME NEW g \in group, g.type = "parity", Cardinality(group) >= d
      PROVE  R = {C[i] : i \in missing} /\ a + d <= n
  <2>1. covers = {C}
    BY <1>7, <1>9, Zenon
  <2> HIDE DEF covers, missing
  <2>2. ~(Cardinality(group) < d)
    BY <1>1, <1>5, <1>9
  <2>3. R = {IF \E body \in covers : agrees(body)
             THEN (CHOOSE body \in covers : agrees(body))[i] ELSE 0 : i \in missing}
    BY <1>4, <2>2, Zenon
  <2>4. \E body \in covers : agrees(body)
    BY <1>8, <2>1, ZenonT(30)
  <2>5. (CHOOSE body \in covers : agrees(body)) = C
    BY <1>8, <2>1, ZenonT(30)
  <2>6. a + d <= n
    BY <1>7, <1>9, Zenon
  <2> QED BY <2>3, <2>4, <2>5, <2>6, ZenonT(30)
<1>10. ASSUME NEW i \in missing, Cardinality(group) >= d,
              \A g \in group : g.type = "data"
       PROVE  FALSE
  <2> DEFINE T == (1 .. d) \ {i}
             at == [g \in group |-> idx(g)]
  <2>1. i \in 1 .. d
    OBVIOUS
  <2>2. IsFiniteSet(1 .. d) /\ Cardinality(1 .. d) = d
    BY <1>1, FS_Interval
  <2>3. IsFiniteSet(T) /\ Cardinality(T) = d - 1
    BY <2>1, <2>2, FS_RemoveElement, ZenonT(30)
  <2>4. at \in [group -> T]
    BY <1>7, <1>10, ZenonT(30)
  <2>5. \A g \in group : at[g] = idx(g)
    BY Zenon
  <2> HIDE DEF T, at, missing
  <2>6. Cardinality(T) < Cardinality(group)
    BY <1>1, <1>5, <1>10, <2>3, SMTT(20)
  <2>7. PICK x \in group, y \in group : x # y /\ at[x] = at[y]
    BY <1>5, <2>3, <2>4, <2>6, FS_PigeonHole, ZenonT(30)
  <2>8. /\ x = DataShard(config, q, idx(x) - 1) /\ y = DataShard(config, q, idx(y) - 1)
        /\ idx(x) = idx(y)
    BY <1>7, <1>10, <2>5, <2>7, ZenonT(30)
  <2> QED BY <2>7, <2>8, ZenonT(30)
<1>11. R \subseteq 1 .. n
  <2>1. CASE Cardinality(group) < d
    BY <1>4, <2>1, ZenonT(30)
  <2>2. CASE missing = {}
    <3> HIDE DEF missing, covers
    <3> QED BY <1>4, <2>2, ZenonT(30)
  <2>3. CASE ~(Cardinality(group) < d) /\ missing # {}
    <3>1. Cardinality(group) >= d
      BY <1>1, <1>5, <2>3, SMTT(20)
    <3>2. PICK g \in group : g.type = "parity"
      BY <1>7, <1>10, <2>3, <3>1, ZenonT(30)
    <3>3. R = {C[i] : i \in missing} /\ a + d <= n
      BY <1>9, <3>1, <3>2, ZenonT(30)
    <3>4. ASSUME NEW i \in missing PROVE C[i] \in 1 .. n
      <4>1. i \in 1 .. d /\ C[i] = a + i
        BY <1>6, Zenon
      <4> QED BY <1>1, <1>6, <3>3, <4>1, SMTT(20)
    <3> HIDE DEF missing
    <3> QED BY <3>3, <3>4, ZenonT(30)
  <2> QED BY <2>1, <2>2, <2>3, ZenonT(30)
<1>12. ASSUME NEW g \in group, g.type = "parity", Cardinality(group) >= d
       PROVE  Range(g.body) \subseteq R \cup UNION {Range(h.body) : h \in direct}
  <2>1. R = {C[i] : i \in missing} /\ g.body = C
    BY <1>7, <1>9, <1>12, ZenonT(30)
  <2>2. Range(C) = {C[i] : i \in 1 .. d}
    <3>1. DOMAIN C = 1 .. d
      BY Zenon DEF C, Covered, d
    <3> QED BY <3>1, Zenon DEF Range
  <2>3. ASSUME NEW i \in 1 .. d, i \notin missing
        PROVE  C[i] \in UNION {Range(h.body) : h \in direct}
    <3>1. PICK h \in group : idx(h) = i
      BY <2>3, Zenon
    <3>2. h.type = "data" /\ h.body = <<a + i>>
      BY <1>7, <3>1, ZenonT(30)
    <3>3. Range(<<a + i>>) = {a + i}
      BY DEF Range
    <3>4. C[i] \in Range(h.body)
      BY <1>6, <3>2, <3>3, ZenonT(30)
    <3> QED BY <3>2, <3>4, ZenonT(30)
  <2> HIDE DEF missing, direct
  <2> QED BY <2>1, <2>2, <2>3, ZenonT(30)
<1> QED BY <1>11, <1>12, Zenon DEF R, group, d

-----------------------------------------------------------------------------
(* Steps of the sending side. *)

(* What a flush adds to the stream of its end is new. *)
LEMMA Emitting ==
    ASSUME DatagramInv, NEW e \in End, NEW k \in Nat, NEW burst \in BOOLEAN
    PROVE  LET b == Collected(e, k, burst)
           IN  /\ EncoderAt(fec[e], emitted[e] + k, b.encoder)
               /\ b.frames \in Seq(AnyFrame) /\ Injective(b.frames)
               /\ \A x \in Range(b.frames) : IsFrame(fec[e], emitted[e] + k, x)
               /\ Range(b.frames) \cap sealed[e] = {}
<1> DEFINE n == emitted[e]
           b == Batch(fec[e], encoder[e], n, k, burst)
<1>1. fec[e] \in Shards /\ n \in Nat
  BY DEF DatagramInv, Types
<1>2. EncoderAt(fec[e], n, encoder[e]) /\ \A f \in sealed[e] : IsFrame(fec[e], n, f)
  BY Zenon DEF DatagramInv, Framing
<1>3. /\ EncoderAt(fec[e], n + k, b.encoder)
      /\ b.frames \in Seq(AnyFrame) /\ Injective(b.frames)
      /\ \A x \in Range(b.frames) : IsFrame(fec[e], n + k, x) /\ Last(x) \in n + 1 .. n + k
  BY <1>1, <1>2, BatchFrames, Zenon
<1>4. Collected(e, k, burst) = b
  BY Zenon DEF Collected
<1> HIDE DEF b
<1>5. ASSUME NEW x \in Range(b.frames), x \in sealed[e] PROVE FALSE
  <2>1. Last(x) \in 1 .. n
    BY <1>1, <1>2, <1>5, FrameLast, ZenonT(30)
  <2>2. Last(x) \in n + 1 .. n + k
    BY <1>3, <1>5, ZenonT(30)
  <2> QED BY <1>1, <2>1, <2>2, SMTT(20)
<1> QED BY <1>3, <1>4, <1>5, ZenonT(30)

(* The streams stay what they are while one of them grows. *)
LEMMA StillFraming ==
    ASSUME DatagramInv, NEW e \in End, NEW k \in Nat, NEW burst \in BOOLEAN,
           Emits(e, k, burst), UNCHANGED <<fec, got>>,
           NEW new \in SUBSET Range(Collected(e, k, burst).frames),
           sealed' = [sealed EXCEPT ![e] = @ \cup new],
           running'[Server] => running[Server]
    PROVE  Framing'
<1> DEFINE b == Collected(e, k, burst)
<1>1. /\ EncoderAt(fec[e], emitted[e] + k, b.encoder)
      /\ \A x \in Range(b.frames) : IsFrame(fec[e], emitted[e] + k, x)
  BY Emitting, ZenonT(30)
<1>2. /\ fec \in [End -> Shards] /\ emitted \in [End -> Nat] /\ emitted[e] + k \in Nat
      /\ encoder = [x \in End |-> encoder[x]] /\ sealed \in [End -> SUBSET AnyFrame]
  BY DEF DatagramInv, Types
<1>3. /\ emitted'[e] = emitted[e] + k /\ encoder'[e] = b.encoder
      /\ sealed'[e] = sealed[e] \cup new
      /\ \A x \in End \ {e} : /\ emitted'[x] = emitted[x] /\ encoder'[x] = encoder[x]
                              /\ sealed'[x] = sealed[x]
  <2>1. emitted' = [emitted EXCEPT ![e] = @ + k] /\ encoder' = [encoder EXCEPT ![e] = b.encoder]
    BY Zenon DEF Emits
  <2> HIDE DEF b
  <2> QED BY <1>2, <2>1, ZenonT(30)
<1> HIDE DEF b
<1>4. fec' = fec /\ got' = got /\ running[e]
  BY ZenonT(30) DEF Emits
<1>5. \A x \in End : EncoderAt(fec[x], emitted'[x], encoder'[x])
  <2> SUFFICES ASSUME NEW x \in End PROVE EncoderAt(fec[x], emitted'[x], encoder'[x])
    BY Zenon
  <2>1. CASE x = e
    BY <1>1, <1>3, <2>1, ZenonT(30)
  <2>2. CASE x # e
    <3>1. EncoderAt(fec[x], emitted[x], encoder[x])
      BY Zenon DEF DatagramInv, Framing
    <3>2. emitted'[x] = emitted[x] /\ encoder'[x] = encoder[x]
      BY <1>3, <2>2, ZenonT(30)
    <3> QED BY <3>1, <3>2, ZenonT(30)
  <2> QED BY <2>1, <2>2, ZenonT(30)
<1>6. \A x \in End : \A f \in sealed'[x] : IsFrame(fec[x], emitted'[x], f)
  <2> SUFFICES ASSUME NEW x \in End, NEW f \in sealed'[x]
               PROVE  IsFrame(fec[x], emitted'[x], f)
    BY Zenon
  <2>0. \A g \in sealed[x] : IsFrame(fec[x], emitted[x], g)
    BY Zenon DEF DatagramInv, Framing
  <2>1. CASE x = e
    <3>1. CASE f \in sealed[e]
      <4>1. IsFrame(fec[e], emitted[e], f)
        BY <2>0, <2>1, <3>1, ZenonT(30)
      <4>2. fec[e] \in Shards /\ emitted[e] \in Nat /\ emitted[e] <= emitted[e] + k
        BY <1>2
      <4>3. IsFrame(fec[e], emitted[e] + k, f)
        BY <1>2, <4>1, <4>2, FrameLater, ZenonT(30)
      <4> QED BY <1>3, <2>1, <4>3, ZenonT(30)
    <3>2. CASE f \in new
      <4>1. IsFrame(fec[e], emitted[e] + k, f)
        BY <1>1, <3>2, ZenonT(30) DEF b
      <4> QED BY <1>3, <2>1, <4>1, Zenon
    <3>3. f \in sealed[e] \cup new
      BY <1>3, <2>1, Zenon
    <3> QED BY <3>1, <3>2, <3>3, ZenonT(30)
  <2>2. CASE x # e
    <3>1. emitted'[x] = emitted[x] /\ sealed'[x] = sealed[x]
      BY <1>3, <2>2, Zenon
    <3> QED BY <2>0, <3>1, Zenon
  <2> QED BY <2>1, <2>2
<1>7. got[Server] = {} => /\ ~running[Server] /\ fec[Server] = Off
                          /\ emitted[Server] = 0 /\ sealed[Server] = {}
  BY Zenon DEF DatagramInv, Framing
<1>8. got[Server] # {} => (fec[Server] = Off <=> fec[Client] = Off)
  BY Zenon DEF DatagramInv, Framing
<1>9. got[Server] = {} => /\ ~running'[Server] /\ fec[Server] = Off
                          /\ emitted'[Server] = 0 /\ sealed'[Server] = {}
  <2> SUFFICES ASSUME got[Server] = {}
               PROVE  /\ ~running'[Server] /\ fec[Server] = Off
                      /\ emitted'[Server] = 0 /\ sealed'[Server] = {}
    BY Zenon
  <2>1. e # Server /\ Server \in End
    BY <1>4, <1>7, Zenon DEF End
  <2>2. emitted'[Server] = emitted[Server] /\ sealed'[Server] = sealed[Server]
    BY <1>3, <2>1, ZenonT(30)
  <2> QED BY <1>7, <2>2, Zenon
<1> QED BY <1>4, <1>5, <1>6, <1>8, <1>9, ZenonT(30) DEF Framing

(* What the ends have received is untouched by sending. *)
LEMMA StillReceived ==
    ASSUME DatagramInv, UNCHANGED <<fec, got, fed, input, refused>>,
           \A e \in End : DOMAIN sent[e] \subseteq DOMAIN sent'[e],
           \A e \in End : emitted'[e] \in Nat /\ emitted[e] <= emitted'[e]
    PROVE  Received' /\ RepairExact'
<1>1. Received'
  <2> SUFFICES ASSUME NEW e \in End
               PROVE  /\ IsFiniteSet(got[e]) /\ got[e] \subseteq DOMAIN sent'[Peer(e)]
                      /\ refused[e] = {}
                      /\ fed[e] = IF fec[e] = Off THEN {} ELSE got[e]
                      /\ got[e] = {} => input[e] = {}
    BY Zenon DEF Received, Peer
  <2>1. Peer(e) \in End
    BY Zenon DEF Peer, End
  <2>2. got[e] \subseteq DOMAIN sent[Peer(e)]
    BY Zenon DEF DatagramInv, Received
  <2>3. got[e] \subseteq DOMAIN sent'[Peer(e)]
    BY <2>1, <2>2, Zenon
  <2> QED BY <2>3, Zenon DEF DatagramInv, Received
<1>2. RepairExact'
  <2>1. \A e \in End : Peer(e) \in End
    BY Zenon DEF Peer, End
  <2>2. \A e \in End : 1 .. emitted[Peer(e)] \subseteq 1 .. emitted'[Peer(e)]
    <3> SUFFICES ASSUME NEW e \in End PROVE 1 .. emitted[e] \subseteq 1 .. emitted'[e]
      BY <2>1, Zenon
    <3>1. emitted[e] \in Nat /\ emitted'[e] \in Nat /\ emitted[e] <= emitted'[e]
      BY DEF DatagramInv, Types
    <3> QED BY <3>1
  <2>3. fec' = fec /\ got' = got /\ input' = input
    OBVIOUS
  <2>4. RepairExact
    BY DEF DatagramInv
  <2> QED BY <2>2, <2>3, <2>4, Zenon DEF RepairExact, Peer
<1> QED BY <1>1, <1>2

(* A step that concerns the frames of one end. *)
LEMMA StillPlaced ==
    ASSUME DatagramInv, NEW e \in End,
           \A x \in End \ {e} : /\ sealed'[x] = sealed[x] /\ sent'[x] = sent[x]
                                /\ lost'[x] = lost[x] /\ pending'[x] = pending[x]
                                /\ Posted(x)' = Posted(x),
           Placed(sealed'[e], sent'[e], lost'[e], pending'[e], Posted(e)')
    PROVE  Places'
<1> SUFFICES ASSUME NEW x \in End
             PROVE  Placed(sealed'[x], sent'[x], lost'[x], pending'[x], Posted(x)')
  BY Zenon DEF Places, Posted
<1>1. Placed(sealed[x], sent[x], lost[x], pending[x], Posted(x))
  BY Zenon DEF DatagramInv, Places
<1> QED BY <1>1, Zenon

(* A bag only grows. *)
LEMMA MoreSent ==
    ASSUME NEW a, NEW b
    PROVE  DOMAIN a \subseteq DOMAIN (a (+) b)
BY Zenon DEF (+)

(* SendBurst, with new frames. *)
LEMMA SentFrom ==
    ASSUME DatagramInv, NEW h \in Seq(AnyFrame), Injective(h),
           Range(h) \cap sealed[Client] = {},
           NEW accepted \in 0 .. Len(h), SendBurst(Client, h, accepted),
           sealed' = [sealed EXCEPT ![Client] = @ \cup Range(h)], UNCHANGED <<posted, lost>>
    PROVE  /\ Places' /\ pending' \in [End -> Seq(AnyFrame)]
           /\ sent' = [x \in End |-> sent'[x]]
           /\ \A x \in End : DOMAIN sent[x] \subseteq DOMAIN sent'[x]
<1> DEFINE s == sent[Client] (+) ToBag(SubSeq(h, 1, accepted))
           w == pending[Client] \o SubSeq(h, accepted + 1, Len(h))
<1>0. /\ sent = [x \in End |-> sent[x]] /\ pending \in [End -> Seq(AnyFrame)]
      /\ sealed \in [End -> SUBSET AnyFrame] /\ Client \in End /\ Client # Server
  BY Zenon DEF DatagramInv, Types, End, Client, Server
<1>1. /\ sent' = [sent EXCEPT ![Client] = s] /\ pending' = [pending EXCEPT ![Client] = w]
  BY Zenon DEF SendBurst
<1>2. Placed(sealed[Client] \cup Range(h), s, lost[Client], w, <<>>)
  <2>1. Placed(sealed[Client], sent[Client], lost[Client], pending[Client], <<>>)
    BY <1>0, Zenon DEF DatagramInv, Places, Posted
  <2> QED BY <2>1, AddSent, ZenonT(30)
<1>3. DOMAIN sent[Client] \subseteq DOMAIN s
  BY MoreSent, Zenon
<1>4. w \in Seq(AnyFrame)
  BY <1>2, Zenon DEF Placed
<1> HIDE DEF s, w
<1>5. /\ sent'[Client] = s /\ pending'[Client] = w
      /\ sealed'[Client] = sealed[Client] \cup Range(h)
      /\ \A x \in End \ {Client} : /\ sent'[x] = sent[x] /\ pending'[x] = pending[x]
                                   /\ sealed'[x] = sealed[x]
  BY <1>0, <1>1, Zenon
<1>6. Places'
  <2>1. \A x \in End : Posted(x)' = Posted(x) /\ Posted(Client)' = <<>> /\ lost'[x] = lost[x]
    BY <1>0, Zenon DEF Posted
  <2>2. Placed(sealed'[Client], sent'[Client], lost'[Client], pending'[Client], Posted(Client)')
    BY <1>0, <1>2, <1>5, <2>1, ZenonT(30)
  <2> QED BY <1>0, <1>5, <2>1, <2>2, StillPlaced, ZenonT(30)
<1>7. pending' \in [End -> Seq(AnyFrame)]
  BY <1>0, <1>1, <1>4, ZenonT(30)
<1>8. sent' = [x \in End |-> sent'[x]]
  BY <1>0, <1>1, Zenon
<1>9. \A x \in End : DOMAIN sent[x] \subseteq DOMAIN sent'[x]
  BY <1>3, <1>5, Zenon
<1> QED BY <1>6, <1>7, <1>8, <1>9, ZenonT(30)

(* New frames are posted to the socket's strand. *)
LEMMA PostedFrom ==
    ASSUME DatagramInv, NEW b \in Seq(Seq(AnyFrame)), Apart(b),
           Queued(b) \cap sealed[Server] = {},
           posted' = posted \o b, UNCHANGED <<sent, pending, lost>>,
           sealed' = [sealed EXCEPT ![Server] = @ \cup Queued(b)]
    PROVE  Places'
<1>0. sealed \in [End -> SUBSET AnyFrame] /\ Server \in End
  BY Zenon DEF DatagramInv, Types, End
<1>1. Placed(sealed[Server] \cup Queued(b), sent[Server], lost[Server], pending[Server],
             posted \o b)
  <2>1. Placed(sealed[Server], sent[Server], lost[Server], pending[Server], posted)
    BY <1>0, Zenon DEF DatagramInv, Places, Posted
  <2> QED BY <2>1, AddBursts, Zenon
<1>2. /\ sealed'[Server] = sealed[Server] \cup Queued(b)
      /\ \A x \in End \ {Server} : sealed'[x] = sealed[x]
  BY <1>0, Zenon
<1>3. Posted(Server)' = posted \o b /\ \A x \in End \ {Server} : Posted(x)' = Posted(x)
  BY Zenon DEF Posted
<1>4. Placed(sealed'[Server], sent'[Server], lost'[Server], pending'[Server], Posted(Server)')
  BY <1>1, <1>2, <1>3, ZenonT(30)
<1> QED BY <1>0, <1>2, <1>3, <1>4, StillPlaced, ZenonT(30)

(* One burst, and bursts of one frame. *)
LEMMA OneBurst ==
    ASSUME NEW h \in Seq(AnyFrame), Injective(h)
    PROVE  /\ <<h>> \in Seq(Seq(AnyFrame)) /\ Apart(<<h>>) /\ Queued(<<h>>) = Range(h)
           /\ \A b \in Seq(Seq(AnyFrame)) : Append(b, h) = b \o <<h>>
<1>1. <<h>> \in Seq(Seq(AnyFrame)) /\ Len(<<h>>) = 1 /\ <<h>>[1] = h
  OBVIOUS
<1>2. 1 .. 1 = {1}
  OBVIOUS
<1>3. Apart(<<h>>)
  BY <1>1, <1>2, Zenon DEF Apart
<1>4. Queued(<<h>>) = Range(h)
  BY <1>1, <1>2, Zenon DEF Queued
<1>5. \A b \in Seq(Seq(AnyFrame)) : Append(b, h) = b \o <<h>>
  OBVIOUS
<1> QED BY <1>1, <1>3, <1>4, <1>5, ZenonT(30)

(* Frames posted one by one. *)
LEMMA SingleBursts ==
    ASSUME NEW h \in Seq(AnyFrame), Injective(h)
    PROVE  LET b == [i \in DOMAIN h |-> <<h[i]>>]
           IN  b \in Seq(Seq(AnyFrame)) /\ Apart(b) /\ Queued(b) = Range(h)
<1> DEFINE b == [i \in DOMAIN h |-> <<h[i]>>]
<1>1. DOMAIN h = 1 .. Len(h) /\ Len(h) \in Nat /\ \A i \in 1 .. Len(h) : h[i] \in AnyFrame
  OBVIOUS
<1>2. /\ b = [i \in 1 .. Len(h) |-> b[i]]
      /\ \A i \in 1 .. Len(h) : b[i] = <<h[i]>>
  BY <1>1, Zenon
<1> HIDE DEF b
<1>3. ASSUME NEW x PROVE Range(<<x>>) = {x} /\ Injective(<<x>>)
  BY DEF Range, Injective
<1>4. ASSUME NEW i \in 1 .. Len(h)
      PROVE  b[i] \in Seq(AnyFrame) /\ Range(b[i]) = {h[i]} /\ Injective(b[i])
  <2>1. <<h[i]>> \in Seq(AnyFrame)
    BY <1>1
  <2> QED BY <1>2, <1>3, <2>1, ZenonT(30)
<1>5. b \in Seq(Seq(AnyFrame)) /\ Len(b) = Len(h)
  BY <1>1, <1>2, <1>4, AsSequence, ZenonT(30)
<1>6. Apart(b)
  <2>1. ASSUME NEW i \in 1 .. Len(h), NEW j \in 1 .. Len(h), i # j
        PROVE  Range(b[i]) \cap Range(b[j]) = {}
    <3>1. h[i] # h[j]
      BY <2>1, Zenon DEF Injective
    <3> QED BY <1>4, <3>1, Zenon
  <2> QED BY <1>4, <1>5, <2>1, ZenonT(30) DEF Apart
<1>7. Queued(b) = Range(h)
  <2>1. Range(h) = {h[i] : i \in 1 .. Len(h)}
    BY <1>1, Zenon DEF Range
  <2>2. Queued(b) = UNION {{h[i]} : i \in 1 .. Len(h)}
    BY <1>4, <1>5, ZenonT(30) DEF Queued
  <2> QED BY <2>1, <2>2, Zenon
<1> QED BY <1>5, <1>6, <1>7, Zenon DEF b

(* A step in which an end emits. *)
LEMMA EmitStep ==
    ASSUME DatagramInv, NEW e \in End, NEW k \in Nat, NEW burst \in BOOLEAN,
           Emits(e, k, burst), UNCHANGED <<setting, fec, got, fed, input, refused>>,
           running' \in [End -> BOOLEAN], open' \in [End -> BOOLEAN],
           running'[Server] => running[Server],
           lost' \in [End -> SUBSET AnyFrame], pending' \in [End -> Seq(AnyFrame)],
           NEW new \in SUBSET Range(Collected(e, k, burst).frames),
           sealed' = [sealed EXCEPT ![e] = @ \cup new],
           sent' = [x \in End |-> sent'[x]],
           \A x \in End : DOMAIN sent[x] \subseteq DOMAIN sent'[x], Places'
    PROVE  DatagramInv'
<1>1. Framing'
  BY StillFraming, ZenonT(30)
<1>2. emitted' = [emitted EXCEPT ![e] = @ + k] /\ emitted \in [End -> Nat]
  BY Zenon DEF Emits, DatagramInv, Types
<1>3. emitted' \in [End -> Nat] /\ \A x \in End : emitted[x] <= emitted'[x] /\ emitted'[x] \in Nat
  BY <1>2
<1>4. Received' /\ RepairExact'
  BY <1>3, StillReceived, ZenonT(30)
<1>5. new \subseteq AnyFrame
  <2>1. Collected(e, k, burst).frames \in Seq(AnyFrame)
    BY Emitting, ZenonT(30)
  <2>2. Range(Collected(e, k, burst).frames) \subseteq AnyFrame
    BY <2>1, RangeOf, ZenonT(30)
  <2> QED BY <2>2, Zenon
<1>6. Types'
  <2>1. sealed \in [End -> SUBSET AnyFrame] /\ encoder = [x \in End |-> encoder[x]]
    BY Zenon DEF DatagramInv, Types
  <2>2. sealed' \in [End -> SUBSET AnyFrame]
    BY <1>5, <2>1, ZenonT(30)
  <2>3. encoder' = [x \in End |-> encoder'[x]]
    BY <2>1, ZenonT(30) DEF Emits
  <2> QED BY <1>3, <2>2, <2>3, ZenonT(30) DEF DatagramInv, Types
<1> QED BY <1>1, <1>4, <1>6, ZenonT(30) DEF DatagramInv

(* A step in which none does. *)
LEMMA MoveStep ==
    ASSUME DatagramInv,
           UNCHANGED <<setting, fec, encoder, emitted, sealed, got, fed, input, refused>>,
           running' \in [End -> BOOLEAN], open' \in [End -> BOOLEAN],
           running'[Server] => running[Server],
           lost' \in [End -> SUBSET AnyFrame], pending' \in [End -> Seq(AnyFrame)],
           sent' = [x \in End |-> sent'[x]],
           \A x \in End : DOMAIN sent[x] \subseteq DOMAIN sent'[x], Places'
    PROVE  DatagramInv'
<1>1. Framing'
  BY Zenon DEF DatagramInv, Framing
<1>2. emitted \in [End -> Nat]
  BY ZenonT(30) DEF DatagramInv, Types
<1>3. \A x \in End : emitted'[x] \in Nat /\ emitted[x] <= emitted'[x]
  BY <1>2
<1>4. Received' /\ RepairExact'
  BY <1>3, StillReceived, ZenonT(30)
<1>5. Types'
  BY Zenon DEF DatagramInv, Types
<1> QED BY <1>1, <1>4, <1>5, ZenonT(30) DEF DatagramInv

(* A flush that is handed over. *)
LEMMA FlushCycleStep ==
    ASSUME DatagramInv, NEW e \in End, NEW k \in Nat, NEW burst \in BOOLEAN,
           FlushCycle(e, k, burst)
    PROVE  DatagramInv'
<1> DEFINE h == Collected(e, k, burst).frames
<1>1. /\ Emits(e, k, burst) /\ HandOver(e, h)
      /\ setting' = setting /\ open' = open /\ fec' = fec /\ got' = got /\ fed' = fed
      /\ input' = input /\ refused' = refused /\ running' = running /\ lost' = lost
  BY Zenon DEF FlushCycle, onlySending, receiving
<1>2. h \in Seq(AnyFrame) /\ Injective(h) /\ Range(h) \cap sealed[e] = {}
  BY Emitting, ZenonT(30)
<1>3. sealed' = [sealed EXCEPT ![e] = @ \cup Range(h)]
  BY <1>1, ZenonT(30) DEF HandOver
<1>5. /\ Places' /\ pending' \in [End -> Seq(AnyFrame)] /\ sent' = [x \in End |-> sent'[x]]
      /\ \A x \in End : DOMAIN sent[x] \subseteq DOMAIN sent'[x]
  <2> HIDE DEF h
  <2>1. CASE e = Client
    <3>1. PICK accepted \in Acceptable(Client, h) : SendBurst(Client, h, accepted)
      BY <1>1, <2>1, ZenonT(30) DEF HandOver
    <3>2. posted' = posted
      BY <1>1, <2>1, ZenonT(30) DEF HandOver
    <3>3. accepted \in 0 .. Len(h)
      BY <1>2 DEF Acceptable
    <3> QED BY <1>1, <1>2, <1>3, <2>1, <3>1, <3>2, <3>3, SentFrom, ZenonT(30)
  <2>2. CASE e # Client
    <3>0. e = Server
      BY <2>2, ZenonT(30) DEF End
    <3>1. posted' = Append(posted, h) /\ sent' = sent /\ pending' = pending
      BY <1>1, <2>2, ZenonT(30) DEF HandOver
    <3>2. posted \in Seq(Seq(AnyFrame))
      BY <3>0, ZenonT(30) DEF DatagramInv, Places, Placed, Posted
    <3>3. /\ posted' = posted \o <<h>> /\ <<h>> \in Seq(Seq(AnyFrame)) /\ Apart(<<h>>)
          /\ Queued(<<h>>) = Range(h)
      BY <1>2, <3>1, <3>2, OneBurst, ZenonT(30)
    <3>4. Places'
      BY <1>1, <1>2, <1>3, <3>0, <3>1, <3>3, PostedFrom, ZenonT(30)
    <3> QED BY <3>1, <3>4, ZenonT(30) DEF DatagramInv, Types
  <2> QED BY <2>1, <2>2, ZenonT(30)
<1>6. /\ running \in [End -> BOOLEAN] /\ open \in [End -> BOOLEAN]
      /\ lost \in [End -> SUBSET AnyFrame]
  BY Zenon DEF DatagramInv, Types
<1> QED BY <1>1, <1>3, <1>5, <1>6, EmitStep, ZenonT(30)

(* What each action leaves alone of the shape of the state. *)
LEMMA Shapes ==
    ASSUME DatagramInv
    PROVE  /\ running \in [End -> BOOLEAN] /\ open \in [End -> BOOLEAN]
           /\ lost \in [End -> SUBSET AnyFrame] /\ pending \in [End -> Seq(AnyFrame)]
           /\ sealed \in [End -> SUBSET AnyFrame] /\ sent = [x \in End |-> sent[x]]
           /\ Client \in End /\ Server \in End /\ Client # Server
           /\ posted \in Seq(Seq(AnyFrame))
           /\ Placed(sealed[Client], sent[Client], lost[Client], pending[Client], <<>>)
           /\ Placed(sealed[Server], sent[Server], lost[Server], pending[Server], posted)
<1>1. Client \in End /\ Server \in End /\ Client # Server
  BY Zenon DEF End, Client, Server
<1>2. /\ Placed(sealed[Client], sent[Client], lost[Client], pending[Client], <<>>)
      /\ Placed(sealed[Server], sent[Server], lost[Server], pending[Server], posted)
  BY <1>1, ZenonT(30) DEF DatagramInv, Places, Posted
<1>3. posted \in Seq(Seq(AnyFrame))
  BY <1>2, ZenonT(30) DEF Placed
<1> QED BY <1>1, <1>2, <1>3, ZenonT(30) DEF DatagramInv, Types

(* Sealing is refused, and the session ends. *)
LEMMA RefusedRunning ==
    ASSUME DatagramInv, NEW e \in End, running[e], SealRefused(e)
    PROVE  running' \in [End -> BOOLEAN] /\ (running'[Server] => running[Server])
<1>1. running' = [running EXCEPT ![e] = (e = Client)] /\ (e = Client) \in BOOLEAN
  BY Zenon DEF SealRefused
<1>2. running \in [End -> BOOLEAN] /\ Server \in End /\ Client # Server
  BY Shapes, ZenonT(30)
<1>3. running' \in [End -> BOOLEAN]
  BY <1>1, <1>2, ZenonT(30)
<1>4. running'[Server] => running[Server]
  BY <1>1, <1>2, ZenonT(30)
<1> QED BY <1>3, <1>4

(* Sealing is refused: the datagrams are gone before they are sealed. *)
LEMMA FlushRefusedStep ==
    ASSUME DatagramInv, NEW e \in End, NEW k \in Nat, NEW burst \in BOOLEAN,
           FlushRefused(e, k, burst)
    PROVE  DatagramInv'
<1>1. /\ Emits(e, k, burst) /\ SealRefused(e) /\ running[e]
      /\ setting' = setting /\ open' = open /\ fec' = fec /\ got' = got /\ fed' = fed
      /\ input' = input /\ refused' = refused /\ lost' = lost /\ sealed' = sealed
      /\ posted' = posted /\ pending' = pending /\ sent' = sent
  BY Zenon DEF FlushRefused, onlySending, receiving, Emits
<1>2. running' \in [End -> BOOLEAN] /\ (running'[Server] => running[Server])
  BY <1>1, RefusedRunning, ZenonT(30)
<1>3. /\ open \in [End -> BOOLEAN] /\ lost \in [End -> SUBSET AnyFrame]
      /\ pending \in [End -> Seq(AnyFrame)] /\ sealed \in [End -> SUBSET AnyFrame]
      /\ sent = [x \in End |-> sent[x]]
  BY Shapes, ZenonT(30)
<1>4. Places'
  BY <1>1, ZenonT(30) DEF DatagramInv, Places, Posted
<1>5. sealed' = [sealed EXCEPT ![e] = @ \cup {}]
  BY <1>1, <1>3, ZenonT(30)
<1>6. {} \in SUBSET Range(Collected(e, k, burst).frames)
  BY Zenon
<1>7. /\ open' \in [End -> BOOLEAN] /\ lost' \in [End -> SUBSET AnyFrame]
      /\ pending' \in [End -> Seq(AnyFrame)] /\ sent' = [x \in End |-> sent'[x]]
      /\ \A x \in End : DOMAIN sent[x] \subseteq DOMAIN sent'[x]
  BY <1>1, <1>3, ZenonT(30)
<1>8. Emits(e, k, burst) /\ UNCHANGED <<setting, fec, got, fed, input, refused>>
  BY <1>1, ZenonT(30)
<1> QED BY <1>2, <1>4, <1>5, <1>6, <1>7, <1>8, EmitStep, ZenonT(30)

(* The frames that leave one by one are some of the flush, in order. *)
LEMMA InOrder ==
    ASSUME NEW h \in Seq(AnyFrame), Injective(h), NEW out \in SUBSET DOMAIN h,
           NEW order \in Increasing(out)
    PROVE  LET q == [i \in DOMAIN order |-> h[order[i]]]
           IN  q \in Seq(AnyFrame) /\ Injective(q) /\ Range(q) \subseteq Range(h)
<1> DEFINE q == [i \in DOMAIN order |-> h[order[i]]]
           m == Cardinality(out)
<1>1. DOMAIN h = 1 .. Len(h) /\ Len(h) \in Nat /\ \A i \in 1 .. Len(h) : h[i] \in AnyFrame
  OBVIOUS
<1>2. m \in Nat
  <2>1. IsFiniteSet(1 .. Len(h))
    BY <1>1, FS_Interval, SMTT(20)
  <2>2. IsFiniteSet(out)
    BY <1>1, <2>1, FS_Subset, ZenonT(30)
  <2> QED BY <2>2, FS_CardinalityType, ZenonT(30)
<1> HIDE DEF m
<1>3. /\ order \in [1 .. m -> out] /\ \A i, j \in DOMAIN order : i < j => order[i] < order[j]
  BY Zenon DEF Increasing, m
<1>4. DOMAIN order = 1 .. m /\ \A i \in 1 .. m : order[i] \in 1 .. Len(h)
  BY <1>1, <1>3, ZenonT(30)
<1>5. q = [i \in 1 .. m |-> q[i]] /\ \A i \in 1 .. m : q[i] = h[order[i]]
  BY <1>4, ZenonT(30)
<1> HIDE DEF q
<1>6. \A i \in 1 .. m : q[i] \in AnyFrame
  BY <1>1, <1>4, <1>5, ZenonT(30)
<1>7. q \in Seq(AnyFrame) /\ Len(q) = m
  BY <1>2, <1>5, <1>6, AsSequence, ZenonT(30)
<1>8. Injective(q)
  <2> SUFFICES ASSUME NEW i \in 1 .. m, NEW j \in 1 .. m, q[i] = q[j] PROVE i = j
    BY <1>7, Zenon DEF Injective
  <2>1. h[order[i]] = h[order[j]] /\ order[i] \in 1 .. Len(h) /\ order[j] \in 1 .. Len(h)
    BY <1>4, <1>5, ZenonT(30)
  <2>2. order[i] = order[j]
    BY <2>1, Zenon DEF Injective
  <2>3. (i < j => order[i] < order[j]) /\ (j < i => order[j] < order[i])
    BY <1>3, <1>4, ZenonT(30)
  <2> QED BY <1>2, <2>1, <2>2, <2>3, SMTT(20)
<1>9. Range(q) \subseteq Range(h)
  <2>1. Range(q) = {q[i] : i \in 1 .. m} /\ \A i \in 1 .. Len(h) : h[i] \in Range(h)
    BY <1>1, <1>5, ZenonT(30) DEF Range
  <2>2. ASSUME NEW i \in 1 .. m PROVE q[i] \in Range(h)
    BY <1>4, <1>5, <2>1, ZenonT(30)
  <2> QED BY <2>1, <2>2, ZenonT(30)
<1> QED BY <1>7, <1>8, <1>9, ZenonT(30) DEF q

(* One datagram outside a flush. *)
LEMMA EmitOutputStep ==
    ASSUME DatagramInv, NEW e \in End, NEW burst \in BOOLEAN, NEW bad, EmitOutput(e, burst, bad)
    PROVE  DatagramInv'
<1> DEFINE h == Collected(e, 1, burst).frames
           out == {i \in DOMAIN h \ bad : e = Server => \A j \in bad : i < j}
           Handed(order) == [i \in DOMAIN order |-> h[order[i]]]
<1>1. /\ Emits(e, 1, burst) /\ running[e]
      /\ IF bad = {} THEN UNCHANGED <<running, teardown>> ELSE SealRefused(e)
      /\ \E order \in Increasing(out) : HandOverEach(e, Handed(order))
      /\ setting' = setting /\ open' = open /\ fec' = fec /\ got' = got /\ fed' = fed
      /\ input' = input /\ refused' = refused /\ lost' = lost
  BY Zenon DEF EmitOutput, onlySending, receiving, Emits
<1>2. h \in Seq(AnyFrame) /\ Injective(h) /\ Range(h) \cap sealed[e] = {} /\ 1 \in Nat
  BY Emitting
<1>3. PICK order \in Increasing(out) : HandOverEach(e, Handed(order))
  BY <1>1, Zenon
<1> DEFINE q == Handed(order)
<1>4. q \in Seq(AnyFrame) /\ Injective(q) /\ Range(q) \subseteq Range(h)
  <2>1. out \in SUBSET DOMAIN h /\ order \in Increasing(out)
    BY <1>3, Zenon
  <2> HIDE DEF out, h
  <2> QED BY <1>2, <2>1, InOrder, SMTT(20)
<1>5. HandOverEach(e, q) /\ Range(q) \cap sealed[e] = {}
  BY <1>2, <1>3, <1>4, ZenonT(30)
<1> HIDE DEF q, out, h
<1>6. sealed' = [sealed EXCEPT ![e] = @ \cup Range(q)]
  BY <1>5, ZenonT(30) DEF HandOverEach
<1>7. running' \in [End -> BOOLEAN] /\ (running'[Server] => running[Server])
  <2>1. CASE bad = {}
    BY <1>1, <2>1, Shapes, ZenonT(30)
  <2>2. CASE bad # {}
    BY <1>1, <2>2, RefusedRunning, ZenonT(30)
  <2> QED BY <2>1, <2>2
<1>8. /\ Places' /\ pending' \in [End -> Seq(AnyFrame)] /\ sent' = [x \in End |-> sent'[x]]
      /\ \A x \in End : DOMAIN sent[x] \subseteq DOMAIN sent'[x]
  <2>1. CASE e = Client
    <3>1. PICK accepted \in (IF pending[e] = <<>> THEN 0 .. Len(q) ELSE {0}) :
            SendBurst(Client, q, accepted)
      BY <1>5, <2>1, Zenon DEF HandOverEach
    <3>2. posted' = posted
      BY <1>5, <2>1, ZenonT(30) DEF HandOverEach
    <3>3. accepted \in 0 .. Len(q)
      BY <1>4
    <3> QED BY <1>1, <1>4, <1>5, <1>6, <2>1, <3>1, <3>2, <3>3, SentFrom, ZenonT(30)
  <2>2. CASE e # Client
    <3> DEFINE b == [i \in DOMAIN q |-> <<q[i]>>]
    <3>0. e = Server
      BY <2>2, Zenon DEF End
    <3>1. posted' = posted \o b /\ sent' = sent /\ pending' = pending
      BY <1>5, <2>2, ZenonT(30) DEF HandOverEach
    <3>2. b \in Seq(Seq(AnyFrame)) /\ Apart(b) /\ Queued(b) = Range(q)
      BY <1>4, SingleBursts, Zenon
    <3> HIDE DEF b
    <3>3. Places'
      BY <1>1, <1>5, <1>6, <3>0, <3>1, <3>2, PostedFrom, ZenonT(30)
    <3> QED BY <3>1, <3>3, Shapes, ZenonT(30)
  <2> QED BY <2>1, <2>2
<1>9. Range(q) \in SUBSET Range(Collected(e, 1, burst).frames)
  BY <1>4, Zenon DEF h
<1>10. open' \in [End -> BOOLEAN] /\ lost' \in [End -> SUBSET AnyFrame]
  BY <1>1, Shapes, ZenonT(30)
<1> QED BY <1>1, <1>2, <1>6, <1>7, <1>8, <1>9, <1>10, EmitStep, ZenonT(30)

(* The frames of end e are placed anew. *)
LEMMA Rearranged ==
    ASSUME DatagramInv, NEW e \in End, NEW all \in SUBSET AnyFrame, NEW s, NEW d, NEW w,
           sealed' = [sealed EXCEPT ![e] = all], sent' = [sent EXCEPT ![e] = s],
           lost' = [lost EXCEPT ![e] = d], pending' = [pending EXCEPT ![e] = w],
           \A x \in End \ {e} : Posted(x)' = Posted(x),
           Placed(all, s, d, w, Posted(e)'), DOMAIN sent[e] \subseteq DOMAIN s
    PROVE  /\ Places' /\ lost' \in [End -> SUBSET AnyFrame] /\ pending' \in [End -> Seq(AnyFrame)]
           /\ sent' = [x \in End |-> sent'[x]]
           /\ \A x \in End : DOMAIN sent[x] \subseteq DOMAIN sent'[x]
<1>1. /\ lost \in [End -> SUBSET AnyFrame] /\ pending \in [End -> Seq(AnyFrame)]
      /\ sealed \in [End -> SUBSET AnyFrame] /\ sent = [x \in End |-> sent[x]]
  BY Shapes, Zenon
<1>2. d \in SUBSET AnyFrame /\ w \in Seq(AnyFrame)
  BY Zenon DEF Placed
<1>3. /\ sealed'[e] = all /\ sent'[e] = s /\ lost'[e] = d /\ pending'[e] = w
      /\ \A x \in End \ {e} : /\ sealed'[x] = sealed[x] /\ sent'[x] = sent[x]
                              /\ lost'[x] = lost[x] /\ pending'[x] = pending[x]
  BY <1>1, Zenon
<1>4. Placed(sealed'[e], sent'[e], lost'[e], pending'[e], Posted(e)')
  BY <1>3, Zenon
<1>5. Places'
  BY <1>3, <1>4, StillPlaced, ZenonT(30)
<1>6. lost' \in [End -> SUBSET AnyFrame]
  BY <1>1, <1>2, ZenonT(30)
<1>7. pending' \in [End -> Seq(AnyFrame)]
  BY <1>1, <1>2, Zenon
<1>8. sent' = [x \in End |-> sent'[x]]
  BY <1>1, ZenonT(30)
<1>9. \A x \in End : DOMAIN sent[x] \subseteq DOMAIN sent'[x]
  BY <1>3, ZenonT(30)
<1> QED BY <1>5, <1>6, <1>7, <1>8, <1>9, ZenonT(30)

(* An end with nothing new: its entries are what they were. *)
LEMMA Same ==
    ASSUME DatagramInv, NEW e \in End
    PROVE  /\ sealed = [sealed EXCEPT ![e] = sealed[e]] /\ sealed[e] \in SUBSET AnyFrame
           /\ sent = [sent EXCEPT ![e] = sent[e]]
           /\ lost = [lost EXCEPT ![e] = lost[e]]
           /\ pending = [pending EXCEPT ![e] = pending[e]]
           /\ Placed(sealed[e], sent[e], lost[e], pending[e], Posted(e))
<1>1. /\ lost \in [End -> SUBSET AnyFrame] /\ pending \in [End -> Seq(AnyFrame)]
      /\ sealed \in [End -> SUBSET AnyFrame] /\ sent = [x \in End |-> sent[x]]
  BY Shapes, Zenon
<1>2. Placed(sealed[e], sent[e], lost[e], pending[e], Posted(e))
  BY Zenon DEF DatagramInv, Places
<1>3. sealed = [sealed EXCEPT ![e] = sealed[e]] /\ sealed[e] \in SUBSET AnyFrame
  BY <1>1, Zenon
<1>4. lost = [lost EXCEPT ![e] = lost[e]] /\ pending = [pending EXCEPT ![e] = pending[e]]
  BY <1>1, Zenon
<1>5. sent = [sent EXCEPT ![e] = sent[e]]
  BY <1>1, ZenonT(30)
<1> QED BY <1>2, <1>3, <1>4, <1>5, ZenonT(30)

(* An asynchronous send completes: its frame was the first in line. *)
LEMMA SendCompletesStep ==
    ASSUME DatagramInv, NEW e \in End, SendCompletes(e)
    PROVE  DatagramInv'
<1> DEFINE x == Head(pending[e])
           s == sent[e] (+) SetToBag({x})
           w == Tail(pending[e])
<1>1. /\ pending[e] # <<>> /\ sent' = [sent EXCEPT ![e] = s]
      /\ pending' = [pending EXCEPT ![e] = w]
      /\ running' = running /\ open' = open /\ lost' = lost /\ sealed' = sealed
      /\ posted' = posted
      /\ UNCHANGED <<setting, fec, encoder, emitted, sealed, got, fed, input, refused>>
  BY Zenon DEF SendCompletes, receiving
<1>2. /\ sealed = [sealed EXCEPT ![e] = sealed[e]] /\ sealed[e] \in SUBSET AnyFrame
      /\ lost = [lost EXCEPT ![e] = lost[e]]
      /\ Placed(sealed[e], sent[e], lost[e], pending[e], Posted(e))
  BY Same, Zenon
<1>3. Placed(sealed[e] \ {x}, sent[e], lost[e], w, Posted(e)) /\ x \in sealed[e]
  BY <1>1, <1>2, TakeFirst, ZenonT(30)
<1>4. (sealed[e] \ {x}) \cup {x} = sealed[e] /\ {x} \cap (sealed[e] \ {x}) = {}
  BY <1>3, Zenon
<1>5. DOMAIN sent[e] \subseteq DOMAIN s
  BY MoreSent, Zenon
<1> HIDE DEF x, w
<1>6. Placed((sealed[e] \ {x}) \cup {x}, s, lost[e], w, Posted(e))
  BY <1>3, <1>4, AddAccepted, ZenonT(30)
<1> HIDE DEF s
<1>7. \A y \in End : Posted(y)' = Posted(y)
  BY <1>1, Zenon DEF Posted
<1>8. Placed(sealed[e], s, lost[e], w, Posted(e)')
  BY <1>4, <1>6, <1>7, ZenonT(30)
<1>9. sealed' = [sealed EXCEPT ![e] = sealed[e]] /\ lost' = [lost EXCEPT ![e] = lost[e]]
  BY <1>1, <1>2, ZenonT(30)
<1>10. sent' = [sent EXCEPT ![e] = s] /\ pending' = [pending EXCEPT ![e] = w]
  BY <1>1, Zenon
<1>11. /\ Places' /\ lost' \in [End -> SUBSET AnyFrame] /\ pending' \in [End -> Seq(AnyFrame)]
       /\ sent' = [y \in End |-> sent'[y]]
       /\ \A y \in End : DOMAIN sent[y] \subseteq DOMAIN sent'[y]
  BY <1>2, <1>5, <1>7, <1>8, <1>9, <1>10, Rearranged, ZenonT(30)
<1>12. /\ running' \in [End -> BOOLEAN] /\ open' \in [End -> BOOLEAN]
       /\ (running'[Server] => running[Server])
  BY <1>1, Shapes, ZenonT(30)
<1>13. UNCHANGED <<setting, fec, encoder, emitted, sealed, got, fed, input, refused>>
  BY <1>1, ZenonT(30)
<1> QED BY <1>11, <1>12, <1>13, MoveStep, ZenonT(30)

(* Frames that were waiting at e, or on the strand, are dropped. *)
LEMMA DroppedStep ==
    ASSUME DatagramInv, NEW e \in End, NEW w, NEW D \in SUBSET sealed[e],
           Placed(sealed[e] \ D, sent[e], lost[e], w, Posted(e)'),
           \A y \in End \ {e} : Posted(y)' = Posted(y),
           lost' = [lost EXCEPT ![e] = lost[e] \cup D], pending' = [pending EXCEPT ![e] = w],
           sent' = sent, running' = running, open' = open,
           UNCHANGED <<setting, fec, encoder, emitted, sealed, got, fed, input, refused>>
    PROVE  DatagramInv'
<1>1. (sealed[e] \ D) \cup D = sealed[e] /\ D \cap (sealed[e] \ D) = {}
  BY Zenon
<1>2. Placed((sealed[e] \ D) \cup D, sent[e], lost[e] \cup D, w, Posted(e)')
  BY <1>1, AddDropped, ZenonT(30)
<1>3. Placed(sealed[e], sent[e], lost[e] \cup D, w, Posted(e)')
  BY <1>1, <1>2, ZenonT(30)
<1>4. /\ sealed' = [sealed EXCEPT ![e] = sealed[e]] /\ sealed[e] \in SUBSET AnyFrame
      /\ sent' = [sent EXCEPT ![e] = sent[e]] /\ DOMAIN sent[e] \subseteq DOMAIN sent[e]
  BY Same, ZenonT(30)
<1> DEFINE d == lost[e] \cup D
<1>5. lost' = [lost EXCEPT ![e] = d] /\ Placed(sealed[e], sent[e], d, w, Posted(e)')
  BY <1>3, Zenon
<1> HIDE DEF d
<1>6. /\ Places' /\ lost' \in [End -> SUBSET AnyFrame] /\ pending' \in [End -> Seq(AnyFrame)]
      /\ sent' = [y \in End |-> sent'[y]]
      /\ \A y \in End : DOMAIN sent[y] \subseteq DOMAIN sent'[y]
  BY <1>4, <1>5, Rearranged, ZenonT(30)
<1>7. /\ running' \in [End -> BOOLEAN] /\ open' \in [End -> BOOLEAN]
      /\ (running'[Server] => running[Server])
  BY Shapes, ZenonT(30)
<1> QED BY <1>6, <1>7, MoveStep, ZenonT(30)

(* The range of one frame. *)
LEMMA OneRange ==
    ASSUME NEW x PROVE Range(<<x>>) = {x}
BY DEF Range

(* An asynchronous send fails: its frame is dropped. *)
LEMMA SendFailsStep ==
    ASSUME DatagramInv, NEW e \in End, SendFails(e)
    PROVE  DatagramInv'
<1> DEFINE x == Head(pending[e])
           w == Tail(pending[e])
<1>1. /\ pending[e] # <<>> /\ lost' = [lost EXCEPT ![e] = @ \cup Range(<<x>>)]
      /\ pending' = [pending EXCEPT ![e] = w] /\ posted' = posted
      /\ sent' = sent /\ running' = running /\ open' = open
      /\ UNCHANGED <<setting, fec, encoder, emitted, sealed, got, fed, input, refused>>
  BY Zenon DEF SendFails, Discard, receiving
<1>2. Placed(sealed[e] \ {x}, sent[e], lost[e], w, Posted(e)) /\ x \in sealed[e]
  BY <1>1, Same, TakeFirst, ZenonT(30)
<1> HIDE DEF x, w
<1>3. \A y \in End : Posted(y)' = Posted(y)
  BY <1>1, ZenonT(30) DEF Posted
<1>4. Range(<<x>>) = {x}
  BY OneRange, ZenonT(30)
<1>5. lost' = [lost EXCEPT ![e] = lost[e] \cup {x}]
  BY <1>1, <1>4, Shapes, ZenonT(30)
<1>6. Placed(sealed[e] \ {x}, sent[e], lost[e], w, Posted(e)') /\ {x} \in SUBSET sealed[e]
  BY <1>2, <1>3, ZenonT(30)
<1> QED BY <1>1, <1>3, <1>5, <1>6, DroppedStep, ZenonT(30)

(* The server's socket closes, and the waiting sends are dropped. *)
LEMMA SocketClosesStep ==
    ASSUME DatagramInv, SocketCloses
    PROVE  DatagramInv'
<1> DEFINE D == Range(pending[Server])
<1>1. /\ lost' = [lost EXCEPT ![Server] = @ \cup D]
      /\ pending' = [pending EXCEPT ![Server] = <<>>] /\ posted' = posted
      /\ sent' = sent /\ running' = running /\ open' = open
      /\ UNCHANGED <<setting, fec, encoder, emitted, sealed, got, fed, input, refused>>
  BY Zenon DEF SocketCloses, Discard, onlySending, receiving
<1>2. Server \in End
  BY Zenon DEF End
<1>3. Placed(sealed[Server] \ D, sent[Server], lost[Server], <<>>, Posted(Server))
      /\ D \in SUBSET sealed[Server]
  <2>1. Placed(sealed[Server], sent[Server], lost[Server], pending[Server], Posted(Server))
    BY <1>2, Same, ZenonT(30)
  <2>2. /\ Placed(sealed[Server] \ D, sent[Server], lost[Server], <<>>, Posted(Server))
        /\ D \subseteq sealed[Server]
    BY <2>1, TakeWaiting, ZenonT(30)
  <2> QED BY <2>2, ZenonT(30)
<1> HIDE DEF D
<1>4. \A y \in End : Posted(y)' = Posted(y)
  BY <1>1, ZenonT(30) DEF Posted
<1>5. lost' = [lost EXCEPT ![Server] = lost[Server] \cup D]
  BY <1>1, <1>2, Shapes, ZenonT(30)
<1>6. Placed(sealed[Server] \ D, sent[Server], lost[Server], <<>>, Posted(Server)')
  BY <1>2, <1>3, <1>4, ZenonT(30)
<1> QED BY <1>1, <1>2, <1>3, <1>4, <1>5, <1>6, DroppedStep, ZenonT(30)

(* A posted burst is sent, or dropped with the socket. *)
LEMMA SendBatchToClientStep ==
    ASSUME DatagramInv, SendBatchToClient
    PROVE  DatagramInv'
<1> DEFINE b == Head(posted)
           rest == Tail(posted)
<1>1. /\ posted # <<>> /\ posted' = rest /\ running' = running /\ open' = open
      /\ UNCHANGED <<setting, fec, encoder, emitted, sealed, got, fed, input, refused>>
  BY ZenonT(30) DEF SendBatchToClient, onlySending, receiving
<1>2. Server \in End /\ Posted(Server) = posted
  BY Zenon DEF End, Posted
<1>3. /\ Placed(sealed[Server] \ Range(b), sent[Server], lost[Server], pending[Server], rest)
      /\ Range(b) \in SUBSET sealed[Server] /\ b \in Seq(AnyFrame) /\ Injective(b)
  BY <1>1, Shapes, TakeBurst, ZenonT(30)
<1> HIDE DEF rest
<1>4. Posted(Server)' = rest /\ \A y \in End \ {Server} : Posted(y)' = Posted(y)
  BY <1>1, ZenonT(30) DEF Posted
<1>5. CASE open[Server]
  <2>0. lost' = lost /\ \E a \in Acceptable(Server, b) : SendBurst(Server, b, a)
    BY <1>5, ZenonT(30) DEF SendBatchToClient
  <2>1. PICK a \in Acceptable(Server, b) : SendBurst(Server, b, a)
    BY <2>0, ZenonT(30)
  <2>2. a \in 0 .. Len(b)
    BY <1>3, SMTT(20) DEF Acceptable
  <2> HIDE DEF b
  <2> DEFINE s == sent[Server] (+) ToBag(SubSeq(b, 1, a))
             w == pending[Server] \o SubSeq(b, a + 1, Len(b))
             old == sealed[Server] \ Range(b)
  <2>3. sent' = [sent EXCEPT ![Server] = s] /\ pending' = [pending EXCEPT ![Server] = w]
    BY <2>1, ZenonT(30) DEF SendBurst
  <2>4. old \cup Range(b) = sealed[Server] /\ Range(b) \cap old = {}
    BY <1>3, ZenonT(30)
  <2>5. Placed(old, sent[Server], lost[Server], pending[Server], rest)
    BY <1>3, ZenonT(30)
  <2> HIDE DEF old
  <2>6. Placed(old \cup Range(b), s, lost[Server], w, rest)
    BY <1>3, <2>2, <2>4, <2>5, AddSent, ZenonT(30)
  <2>7. DOMAIN sent[Server] \subseteq DOMAIN s
    BY MoreSent, ZenonT(30)
  <2> HIDE DEF s, w
  <2>8. Placed(sealed[Server], s, lost[Server], w, Posted(Server)')
    BY <1>4, <2>4, <2>6, ZenonT(30)
  <2>9. /\ sealed' = [sealed EXCEPT ![Server] = sealed[Server]]
        /\ sealed[Server] \in SUBSET AnyFrame
        /\ lost' = [lost EXCEPT ![Server] = lost[Server]]
    BY <1>1, <1>2, <2>0, Same, ZenonT(30)
  <2>10. /\ Places' /\ lost' \in [End -> SUBSET AnyFrame]
         /\ pending' \in [End -> Seq(AnyFrame)] /\ sent' = [y \in End |-> sent'[y]]
         /\ \A y \in End : DOMAIN sent[y] \subseteq DOMAIN sent'[y]
    BY <1>2, <1>4, <2>3, <2>7, <2>8, <2>9, Rearranged, ZenonT(30)
  <2>11. /\ running' \in [End -> BOOLEAN] /\ open' \in [End -> BOOLEAN]
         /\ (running'[Server] => running[Server])
    BY <1>1, Shapes, ZenonT(30)
  <2> QED BY <1>1, <2>10, <2>11, MoveStep, ZenonT(30)
<1>6. CASE ~open[Server]
  <2>1. /\ lost' = [lost EXCEPT ![Server] = @ \cup Range(b)] /\ sent' = sent
        /\ pending' = pending
    BY <1>6, ZenonT(30) DEF SendBatchToClient, Discard
  <2> HIDE DEF b
  <2>2. lost' = [lost EXCEPT ![Server] = lost[Server] \cup Range(b)]
    BY <1>2, <2>1, Shapes, ZenonT(30)
  <2>3. pending' = [pending EXCEPT ![Server] = pending[Server]]
    BY <1>2, <2>1, Same, ZenonT(30)
  <2>4. Placed(sealed[Server] \ Range(b), sent[Server], lost[Server], pending[Server],
               Posted(Server)')
    BY <1>3, <1>4, ZenonT(30)
  <2> QED BY <1>1, <1>2, <1>3, <1>4, <2>1, <2>2, <2>3, <2>4, DroppedStep, ZenonT(30)
<1> QED BY <1>5, <1>6, ZenonT(30)

(* A session or the server stops. *)
LEMMA StopStep ==
    ASSUME DatagramInv, StopSession \/ StopServer
    PROVE  DatagramInv'
<1>1. /\ sealed' = sealed /\ sent' = sent /\ lost' = lost /\ pending' = pending
      /\ posted' = posted
      /\ UNCHANGED <<setting, fec, encoder, emitted, sealed, got, fed, input, refused>>
  BY ZenonT(30) DEF StopSession, StopServer, onlySending, sending, receiving
<1>2. running' \in [End -> BOOLEAN] /\ (running'[Server] => running[Server])
  <2>1. CASE StopSession
    <3>1. running' = [running EXCEPT ![Server] = FALSE]
      BY <2>1, Zenon DEF StopSession
    <3> QED BY <3>1, Shapes, ZenonT(30)
  <2>2. CASE StopServer
    BY <2>2, Shapes, ZenonT(30) DEF StopServer
  <2> QED BY <2>1, <2>2
<1>3. open' \in [End -> BOOLEAN]
  <2>1. CASE StopSession
    BY <2>1, Shapes, ZenonT(30) DEF StopSession, onlySending
  <2>2. CASE StopServer
    <3>1. open' = [open EXCEPT ![Server] = FALSE]
      BY <2>2, Zenon DEF StopServer
    <3> QED BY <3>1, Shapes, ZenonT(30)
  <2> QED BY <2>1, <2>2
<1>4. Places'
  BY <1>1, Zenon DEF DatagramInv, Places, Posted
<1>5. /\ lost' \in [End -> SUBSET AnyFrame] /\ pending' \in [End -> Seq(AnyFrame)]
      /\ sent' = [y \in End |-> sent'[y]]
      /\ \A y \in End : DOMAIN sent[y] \subseteq DOMAIN sent'[y]
  BY <1>1, Shapes, ZenonT(30)
<1> QED BY <1>1, <1>2, <1>3, <1>4, <1>5, MoveStep, ZenonT(30)

(* The client's last flush: the kernel takes some of it, and the rest goes the *)
(* way of the sends that wait.                                                 *)
LEMMA OnCloseStep ==
    ASSUME DatagramInv, NEW k \in Nat, NEW burst \in BOOLEAN, NEW refusal \in BOOLEAN,
           OnClose(k, burst, refusal)
    PROVE  DatagramInv'
<1> DEFINE h == IF refusal THEN <<>> ELSE Collected(Client, k, burst).frames
<1>1. /\ Emits(Client, k, burst) /\ sealed' = [sealed EXCEPT ![Client] = @ \cup Range(h)]
      /\ \E a \in Acceptable(Client, h) :
            /\ sent' = [sent EXCEPT ![Client] = @ (+) ToBag(SubSeq(h, 1, a))]
            /\ Discard(Client, pending[Client] \o SubSeq(h, a + 1, Len(h)))
      /\ pending' = [pending EXCEPT ![Client] = <<>>]
      /\ running' = [running EXCEPT ![Client] = FALSE]
      /\ open' = [open EXCEPT ![Client] = FALSE]
      /\ setting' = setting /\ fec' = fec /\ posted' = posted
      /\ got' = got /\ fed' = fed /\ input' = input /\ refused' = refused
  BY Zenon DEF OnClose, receiving
<1>2. /\ h \in Seq(AnyFrame) /\ Injective(h) /\ Range(h) \cap sealed[Client] = {}
      /\ Range(h) \in SUBSET Range(Collected(Client, k, burst).frames)
  <2>1. CASE refusal
    <3>1. <<>> \in Seq(AnyFrame) /\ Injective(<<>>) /\ Range(<<>>) = {}
      BY DEF Injective, Range
    <3>2. h = <<>>
      BY <2>1, Zenon
    <3> QED BY <3>1, <3>2, ZenonT(30)
  <2>2. CASE ~refusal
    <3>1. h = Collected(Client, k, burst).frames /\ Client \in End
      BY <2>2, Zenon DEF End
    <3>2. LET g == Collected(Client, k, burst).frames
          IN  g \in Seq(AnyFrame) /\ Injective(g) /\ Range(g) \cap sealed[Client] = {}
      BY <1>1, <3>1, Emitting, ZenonT(30)
    <3> QED BY <3>1, <3>2, ZenonT(30)
  <2> QED BY <2>1, <2>2
<1> HIDE DEF h
<1>3. PICK a \in Acceptable(Client, h) :
        /\ sent' = [sent EXCEPT ![Client] = @ (+) ToBag(SubSeq(h, 1, a))]
        /\ Discard(Client, pending[Client] \o SubSeq(h, a + 1, Len(h)))
  BY <1>1, ZenonT(30)
<1>4. a \in 0 .. Len(h)
  BY <1>2 DEF Acceptable
<1>5. /\ Client \in End /\ Client # Server
      /\ lost \in [End -> SUBSET AnyFrame] /\ pending \in [End -> Seq(AnyFrame)]
      /\ sealed \in [End -> SUBSET AnyFrame] /\ sent = [x \in End |-> sent[x]]
      /\ Placed(sealed[Client], sent[Client], lost[Client], pending[Client], <<>>)
  BY Shapes, Zenon
<1> DEFINE s == sent[Client] (+) ToBag(SubSeq(h, 1, a))
           w == pending[Client] \o SubSeq(h, a + 1, Len(h))
           all == sealed[Client] \cup Range(h)
           d == lost[Client] \cup Range(w)
<1>6. Placed(all, s, lost[Client], w, <<>>)
  BY <1>2, <1>4, <1>5, AddSent, ZenonT(30)
<1>7. /\ sealed' = [sealed EXCEPT ![Client] = all] /\ sent' = [sent EXCEPT ![Client] = s]
      /\ lost' = [lost EXCEPT ![Client] = d]
  BY <1>1, <1>3, <1>5, ZenonT(30) DEF Discard
<1>8. all \in SUBSET AnyFrame
  <2>1. Range(h) \subseteq AnyFrame
    BY <1>2 DEF Range
  <2> QED BY <1>5, <2>1, ZenonT(30)
<1>9. DOMAIN sent[Client] \subseteq DOMAIN s
  BY MoreSent, Zenon
<1> HIDE DEF s, w, all
<1>10. Placed(all, s, d, <<>>, <<>>)
  <2>1. Placed(all \ Range(w), s, lost[Client], <<>>, <<>>) /\ Range(w) \subseteq all
    BY <1>6, TakeWaiting, ZenonT(30)
  <2>2. (all \ Range(w)) \cup Range(w) = all /\ Range(w) \cap (all \ Range(w)) = {}
    BY <2>1, ZenonT(30)
  <2>3. Placed((all \ Range(w)) \cup Range(w), s, d, <<>>, <<>>)
    BY <2>1, <2>2, AddDropped, ZenonT(30)
  <2> QED BY <2>2, <2>3, ZenonT(30)
<1> HIDE DEF d
<1>11. Posted(Client)' = <<>> /\ \A y \in End \ {Client} : Posted(y)' = Posted(y)
  BY <1>1, <1>5, ZenonT(30) DEF Posted
<1>12. /\ Places' /\ lost' \in [End -> SUBSET AnyFrame] /\ pending' \in [End -> Seq(AnyFrame)]
       /\ sent' = [y \in End |-> sent'[y]]
       /\ \A y \in End : DOMAIN sent[y] \subseteq DOMAIN sent'[y]
  <2>1. Placed(all, s, d, <<>>, Posted(Client)')
    BY <1>10, <1>11, ZenonT(30)
  <2>2. pending' = [pending EXCEPT ![Client] = <<>>]
    BY <1>1, ZenonT(30)
  <2> QED BY <1>5, <1>7, <1>8, <1>9, <1>11, <2>1, <2>2, Rearranged, ZenonT(30)
<1>13. /\ running' \in [End -> BOOLEAN] /\ open' \in [End -> BOOLEAN]
       /\ (running'[Server] => running[Server])
  BY <1>1, <1>5, Shapes, ZenonT(30)
<1>14. /\ Emits(Client, k, burst) /\ sealed' = [sealed EXCEPT ![Client] = @ \cup Range(h)]
       /\ UNCHANGED <<setting, fec, got, fed, input, refused>>
  BY <1>1, ZenonT(30)
<1> QED BY <1>2, <1>5, <1>12, <1>13, <1>14, EmitStep, ZenonT(30)

(* What a frame says of itself. *)
LEMMA FrameBody ==
    ASSUME NEW config \in Shards, NEW n \in Nat, NEW f, IsFrame(config, n, f)
    PROVE  /\ config = Off <=> f.type = "bare"
           /\ f.type # "parity" => Range(f.body) \subseteq 1 .. n
<1>1. config.data \in Nat /\ config.parity \in Nat /\ config \in [data : Nat, parity : Nat]
  BY DEF Shards
<1>2. CASE config = Off
  <2>1. PICK d \in 1 .. n : f = Frame("bare", 0, <<d>>)
    BY <1>2, Zenon DEF IsFrame
  <2>2. f.type = "bare" /\ f.body = <<d>>
    BY <2>1 DEF Frame
  <2>3. Range(<<d>>) = {d}
    BY OneRange, ZenonT(30)
  <2> QED BY <1>2, <2>2, <2>3, ZenonT(30)
<1>3. CASE config # Off
  <2>1. PICK q \in 0 .. n :
            \/ \E r \in 0 .. config.data - 1 :
                  q * config.data + r + 1 <= n /\ f = DataShard(config, q, r)
            \/ \E j \in 0 .. config.parity - 1 :
                  q * config.data + config.data <= n /\ f = ParityShard(config, q, j)
    BY <1>3, Zenon DEF IsFrame
  <2>2. CASE \E r \in 0 .. config.data - 1 :
                q * config.data + r + 1 <= n /\ f = DataShard(config, q, r)
    <3>1. PICK r \in 0 .. config.data - 1 :
                q * config.data + r + 1 <= n /\ f = DataShard(config, q, r)
      BY <2>2, ZenonT(30)
    <3> DEFINE d == q * config.data + r + 1
    <3>2. f.type = "data" /\ f.body = <<d>>
      BY <3>1, ZenonT(30) DEF DataShard, Frame
    <3>3. q * config.data \in Nat
      BY <1>1, SMTT(20)
    <3>4. d \in 1 .. n
      BY <1>1, <3>1, <3>3, SMTT(20)
    <3> HIDE DEF d
    <3>5. Range(<<d>>) = {d}
      BY OneRange, ZenonT(30)
    <3>6. "data" # "bare"
      OBVIOUS
    <3> QED BY <1>3, <3>2, <3>4, <3>5, <3>6, ZenonT(30)
  <2>3. CASE \E j \in 0 .. config.parity - 1 :
                q * config.data + config.data <= n /\ f = ParityShard(config, q, j)
    <3>1. PICK j \in 0 .. config.parity - 1 : f = ParityShard(config, q, j)
      BY <2>3, ZenonT(30)
    <3>2. f.type = "parity"
      BY <3>1 DEF ParityShard, Frame
    <3> QED BY <1>3, <3>2, ZenonT(30)
  <2> QED BY <2>1, <2>2, <2>3, ZenonT(30)
<1> QED BY <1>2, <1>3, ZenonT(30)

(* What RepairExact says of one end: G arrived there, and I was given to KCP. *)
Siblings(config, G, f) ==
    {g \in G : g.seqid \div Size(config) = f.seqid \div Size(config)}

Exact(config, peer, n, G, I) ==
    /\ \A f \in G : f.type # "parity" => Range(f.body) \subseteq I
    /\ G # {} /\ config = peer =>
          /\ I \subseteq 1 .. n
          /\ \A f \in G :
                f.type = "parity" /\ Cardinality(Siblings(config, G, f)) >= config.data
                    => Range(f.body) \subseteq I

(* What one more frame brings in: its own datagram, and what it completes. *)
Brought(config, F, f) ==
    (IF f.type = "parity" THEN {} ELSE Range(f.body))
        \cup (IF config = Off THEN {} ELSE Rebuilt(config, F, f.seqid))

(* One more frame keeps an end exact. *)
LEMMA ExactStep ==
    ASSUME NEW config \in Shards, NEW peer \in Shards, config = Off <=> peer = Off,
           NEW n \in Nat, NEW G, IsFiniteSet(G), \A g \in G : IsFrame(peer, n, g),
           NEW f, IsFrame(peer, n, f), NEW I,
           G # {} => Exact(config, peer, n, G, I), G = {} => I = {}
    PROVE  Exact(config, peer, n, G \cup {f}, I \cup Brought(config, G \cup {f}, f))
<1> DEFINE F == G \cup {f}
           J == I \cup Brought(config, F, f)
           R == Rebuilt(config, F, f.seqid)
<1>1. \A g \in F : g.type # "parity" => Range(g.body) \subseteq J
  <2>1. \A g \in G : g.type # "parity" => Range(g.body) \subseteq I
    BY Zenon DEF Exact
  <2>2. f.type # "parity" => Range(f.body) \subseteq Brought(config, F, f)
    BY ZenonT(30) DEF Brought
  <2> QED BY <2>1, <2>2, ZenonT(30)
<1>2. ASSUME config = peer
      PROVE  /\ J \subseteq 1 .. n
             /\ \A g \in F : g.type = "parity" /\ Cardinality(Siblings(config, F, g)) >= config.data
                    => Range(g.body) \subseteq J
  <2>1. \A g \in F : IsFrame(config, n, g)
    BY <1>2, ZenonT(30)
  <2>2. CASE config = Off
    <3>1. \A g \in F : g.type = "bare" /\ Range(g.body) \subseteq 1 .. n
      <4> SUFFICES ASSUME NEW g \in F PROVE g.type = "bare" /\ Range(g.body) \subseteq 1 .. n
        BY Zenon
      <4>1. IsFrame(config, n, g)
        BY <2>1, ZenonT(30)
      <4>2. /\ config = Off <=> g.type = "bare"
            /\ g.type # "parity" => Range(g.body) \subseteq 1 .. n
        BY <4>1, FrameBody, ZenonT(30)
      <4>3. "bare" # "parity"
        OBVIOUS
      <4> QED BY <2>2, <4>2, <4>3, ZenonT(30)
    <3>2. "bare" # "parity"
      OBVIOUS
    <3>3. I \subseteq 1 .. n
      BY <1>2, ZenonT(30) DEF Exact
    <3>4. Brought(config, F, f) \subseteq 1 .. n
      BY <2>2, <3>1, ZenonT(30) DEF Brought
    <3> QED BY <3>1, <3>2, <3>3, <3>4, ZenonT(30)
  <2>3. CASE config # Off
    <3> DEFINE group == {g \in F : g.seqid \div Size(config) = f.seqid \div Size(config)}
               direct == {g \in group : g.type = "data"}
    <3>0. IsFiniteSet(F) /\ f \in F
      BY FS_AddElement, ZenonT(30)
    <3>1. /\ R \subseteq 1 .. n
          /\ \A g \in group : g.type = "parity" /\ Cardinality(group) >= config.data
                => Range(g.body) \subseteq R \cup UNION {Range(h.body) : h \in direct}
      <4> HIDE DEF F
      <4> QED BY <2>1, <2>3, <3>0, Repair, SMTT(20)
    <3>2. R \subseteq J
      BY <2>3, ZenonT(30) DEF Brought
    <3>3. I \subseteq 1 .. n
      BY <1>2, Zenon DEF Exact
    <3>4. f.type # "parity" => Range(f.body) \subseteq 1 .. n
      <4>1. IsFrame(config, n, f)
        BY <1>2, ZenonT(30)
      <4> QED BY <4>1, FrameBody, ZenonT(30)
    <3>5. J \subseteq 1 .. n
      BY <2>3, <3>1, <3>3, <3>4, ZenonT(30) DEF Brought
    <3>6. ASSUME NEW g \in F, g.type = "parity",
                 Cardinality(Siblings(config, F, g)) >= config.data
          PROVE  Range(g.body) \subseteq J
      <4>1. CASE g.seqid \div Size(config) = f.seqid \div Size(config)
        <5>1. Siblings(config, F, g) = group /\ g \in group
          BY <4>1, ZenonT(30) DEF Siblings
        <5>2. Range(g.body) \subseteq R \cup UNION {Range(h.body) : h \in direct}
          BY <3>1, <3>6, <5>1, ZenonT(30)
        <5>3. \A h \in direct : Range(h.body) \subseteq J
          <6>1. "data" # "parity"
            OBVIOUS
          <6> QED BY <1>1, <6>1, ZenonT(30)
        <5> QED BY <3>2, <5>2, <5>3, ZenonT(30)
      <4>2. CASE g.seqid \div Size(config) # f.seqid \div Size(config)
        <5>1. g \in G /\ Siblings(config, F, g) = Siblings(config, G, g)
          BY <4>2, ZenonT(30) DEF Siblings
        <5>2. Exact(config, peer, n, G, I)
          BY <5>1, ZenonT(30)
        <5>3. Range(g.body) \subseteq I
          BY <1>2, <3>6, <5>1, <5>2, ZenonT(30) DEF Exact
        <5> QED BY <5>3, ZenonT(30)
      <4> QED BY <4>1, <4>2, ZenonT(30)
    <3> QED BY <3>5, <3>6, ZenonT(30)
  <2> QED BY <2>2, <2>3
<1> HIDE DEF F, J, R
<1>3. Exact(config, peer, n, F, J)
  BY <1>1, <1>2, ZenonT(30) DEF Exact
<1> QED BY <1>3, ZenonT(30) DEF F, J

(* The frame f is fed to end e, whose decoder knows G. *)
Taken(e, config, G, f) ==
    /\ refused' = refused
    /\ fed' = [fed EXCEPT ![e] = @ \cup (IF config = Off THEN {} ELSE {f})]
    /\ input' = [input EXCEPT ![e] = @ \cup Brought(config, G \cup {f}, f)]

(* A frame of the peer is taken by the end that frames as its peer does. *)
LEMMA FeedTakes ==
    ASSUME NEW e \in End, NEW config \in Shards, NEW peer \in Shards, config = Off <=> peer = Off,
           NEW n \in Nat, NEW f, IsFrame(peer, n, f), FeedKcpInput(e, config, f),
           NEW G, config # Off => fed[e] = G
    PROVE  Taken(e, config, G, f)
<1>1. f.type # "bare" <=> config # Off
  BY FrameBody, ZenonT(30)
<1>2. CASE config = Off
  <2>1. f.type = "bare" /\ (f.type # "bare") = (config # Off)
    BY <1>1, <1>2, ZenonT(30)
  <2>2. /\ refused' = refused /\ fed' = [fed EXCEPT ![e] = @ \cup {}]
        /\ input' = [input EXCEPT ![e] = @ \cup (IF f.type = "parity" THEN {} ELSE Range(f.body))
                                           \cup {}]
    BY <1>1, <1>2, <2>1, ZenonT(30) DEF FeedKcpInput
  <2>3. /\ Brought(config, G \cup {f}, f)
              = (IF f.type = "parity" THEN {} ELSE Range(f.body)) \cup {}
    BY <1>2, ZenonT(30) DEF Brought
  <2>4. \A A, B : (A \cup B) \cup {} = A \cup (B \cup {})
    BY ZenonT(30)
  <2> QED BY <1>2, <2>2, <2>3, <2>4, ZenonT(30) DEF Taken
<1>3. CASE config # Off
  <2>1. f.type # "bare" /\ (f.type # "bare") = (config # Off)
    BY <1>1, <1>3, ZenonT(30)
  <2>2. {f} # {} /\ fed[e] = G
    BY <1>3, ZenonT(30)
  <2>3. /\ refused' = refused /\ fed' = [fed EXCEPT ![e] = @ \cup {f}]
        /\ input' = [input EXCEPT ![e] = @ \cup (IF f.type = "parity" THEN {} ELSE Range(f.body))
                                           \cup Rebuilt(config, fed[e] \cup {f}, f.seqid)]
    BY <1>1, <1>3, <2>1, <2>2, ZenonT(30) DEF FeedKcpInput
  <2>4. /\ Brought(config, G \cup {f}, f)
              = (IF f.type = "parity" THEN {} ELSE Range(f.body))
                    \cup Rebuilt(config, G \cup {f}, f.seqid)
    BY <1>3, ZenonT(30) DEF Brought
  <2>5. \A A, B, C : (A \cup B) \cup C = A \cup (B \cup C)
    BY ZenonT(30)
  <2> QED BY <1>3, <2>2, <2>3, <2>4, <2>5, ZenonT(30) DEF Taken
<1> QED BY <1>2, <1>3, ZenonT(30)

(* RepairExact, end by end. *)
LEMMA ExactEnds ==
    RepairExact <=> \A e \in End :
                        Exact(fec[e], fec[Peer(e)], emitted[Peer(e)], got[e], input[e])
BY Zenon DEF RepairExact, Exact, Siblings, Size

(* The two ends. *)
LEMMA PeerEnds ==
    ASSUME NEW e \in End
    PROVE  Peer(e) \in End /\ Peer(e) # e /\ Peer(Peer(e)) = e /\ End = {e, Peer(e)}
<1>1. Client # Server
  BY DEF Client, Server
<1>2. Peer(Client) = Server /\ Peer(Server) = Client
  BY <1>1, ZenonT(30) DEF Peer
<1>3. CASE e = Client
  BY <1>1, <1>2, <1>3, ZenonT(30) DEF End
<1>4. CASE e = Server
  BY <1>1, <1>2, <1>4, ZenonT(30) DEF End
<1> QED BY <1>3, <1>4, ZenonT(30) DEF End

(* A frame arrives: at a running session, or as the one that begins it. *)
LEMMA ReceiveStep ==
    ASSUME DatagramInv, NEW e \in End, NEW f \in DOMAIN sent[Peer(e)],
           NEW config \in Shards, config = Off <=> fec[Peer(e)] = Off,
           config = fec[e] \/ (got[e] = {} /\ got[Peer(e)] = {}),
           fec' = [fec EXCEPT ![e] = config], got' = [got EXCEPT ![e] = @ \cup {f}],
           FeedKcpInput(e, config, f), UNCHANGED <<emitted, sent>>
    PROVE  /\ Received' /\ RepairExact'
           /\ got' \in [End -> SUBSET AnyFrame] /\ fed' \in [End -> SUBSET AnyFrame]
           /\ input' = [x \in End |-> input'[x]] /\ refused' = [x \in End |-> refused'[x]]
<1> DEFINE p == Peer(e)
           F == got[e] \cup {f}
           I == input[e] \cup Brought(config, F, f)
<1>1. p \in End /\ p # e /\ Peer(p) = e /\ End = {e, p}
  BY PeerEnds, ZenonT(30)
<1>2. /\ fec \in [End -> Shards] /\ emitted \in [End -> Nat] /\ got \in [End -> SUBSET AnyFrame]
      /\ fed \in [End -> SUBSET AnyFrame] /\ input = [x \in End |-> input[x]]
      /\ refused = [x \in End |-> refused[x]] /\ sealed \in [End -> SUBSET AnyFrame]
  BY ZenonT(30) DEF DatagramInv, Types
<1>3. \A g \in DOMAIN sent[p] : IsFrame(fec[p], emitted[p], g) /\ g \in AnyFrame
  <2>1. DOMAIN sent[p] \subseteq sealed[p]
    BY <1>1, ZenonT(30) DEF DatagramInv, Places, Placed
  <2> QED BY <1>1, <1>2, <2>1, ZenonT(30) DEF DatagramInv, Framing
<1>4. /\ IsFiniteSet(got[e]) /\ got[e] \subseteq DOMAIN sent[p] /\ refused[e] = {}
      /\ fed[e] = (IF fec[e] = Off THEN {} ELSE got[e]) /\ (got[e] = {} => input[e] = {})
      /\ IsFiniteSet(got[p]) /\ got[p] \subseteq DOMAIN sent[e] /\ refused[p] = {}
      /\ fed[p] = (IF fec[p] = Off THEN {} ELSE got[p]) /\ (got[p] = {} => input[p] = {})
  BY <1>1, ZenonT(30) DEF DatagramInv, Received
<1>5. /\ Exact(fec[e], fec[p], emitted[p], got[e], input[e])
      /\ Exact(fec[p], fec[e], emitted[e], got[p], input[p])
  BY <1>1, ExactEnds, ZenonT(30) DEF DatagramInv
<1>6. fec[p] \in Shards /\ emitted[p] \in Nat /\ IsFrame(fec[p], emitted[p], f) /\ f \in AnyFrame
  BY <1>1, <1>2, <1>3, ZenonT(30)
<1>7. config # Off => fed[e] = got[e]
  BY <1>4, ZenonT(30)
<1>8. /\ refused' = refused
      /\ fed' = [fed EXCEPT ![e] = @ \cup (IF config = Off THEN {} ELSE {f})]
      /\ input' = [input EXCEPT ![e] = @ \cup Brought(config, F, f)]
  <2> HIDE DEF p
  <2>1. config = Off <=> fec[p] = Off
    BY ZenonT(30) DEF p
  <2>2. Taken(e, config, got[e], f)
    BY <1>6, <1>7, <2>1, FeedTakes, ZenonT(30)
  <2> QED BY <2>2, ZenonT(30) DEF Taken
<1>9. /\ fec'[e] = config /\ fec'[p] = fec[p] /\ got'[e] = F /\ got'[p] = got[p]
      /\ input'[e] = I /\ input'[p] = input[p] /\ refused'[e] = {} /\ refused'[p] = {}
      /\ fed'[e] = fed[e] \cup (IF config = Off THEN {} ELSE {f}) /\ fed'[p] = fed[p]
  BY <1>1, <1>2, <1>4, <1>8, ZenonT(30)
<1>10. IsFiniteSet(F)
  BY <1>4, FS_AddElement, ZenonT(30)
<1>11. F \subseteq DOMAIN sent[p] /\ F # {}
  BY <1>4, ZenonT(30)
<1>12. Exact(config, fec[p], emitted[p], F, I)
  <2>1. \A g \in got[e] : IsFrame(fec[p], emitted[p], g)
    BY <1>3, <1>4, ZenonT(30)
  <2>2. got[e] # {} => Exact(config, fec[p], emitted[p], got[e], input[e])
    BY <1>5, ZenonT(30)
  <2>3. config = Off <=> fec[p] = Off
    BY Zenon
  <2> HIDE DEF p
  <2> QED BY <1>4, <1>6, <2>1, <2>2, <2>3, ExactStep, ZenonT(30)
<1>13. Exact(fec[p], config, emitted[e], got[p], input[p])
  <2>1. CASE config = fec[e]
    BY <1>5, <2>1, ZenonT(30)
  <2>2. CASE got[p] = {}
    BY <2>2, ZenonT(30) DEF Exact
  <2> QED BY <2>1, <2>2, ZenonT(30)
<1>14. fed'[e] = (IF config = Off THEN {} ELSE F)
  <2>1. CASE config = Off
    BY <1>4, <1>9, <2>1, ZenonT(30)
  <2>2. CASE config # Off
    BY <1>7, <1>9, <2>2, ZenonT(30)
  <2> QED BY <2>1, <2>2
<1> HIDE DEF F, I
<1>15. Received'
  <2>1. ASSUME NEW x \in End
        PROVE  /\ IsFiniteSet(got'[x]) /\ got'[x] \subseteq DOMAIN sent'[Peer(x)]
               /\ refused'[x] = {} /\ fed'[x] = (IF fec'[x] = Off THEN {} ELSE got'[x])
               /\ (got'[x] = {} => input'[x] = {})
    <3>1. CASE x = e
      BY <1>9, <1>10, <1>11, <1>14, <3>1, ZenonT(30)
    <3>2. CASE x = p
      <4>1. Peer(x) = e
        BY <1>1, <3>2, ZenonT(30)
      <4>2. /\ got'[x] = got[p] /\ refused'[x] = {} /\ fed'[x] = fed[p] /\ fec'[x] = fec[p]
            /\ input'[x] = input[p] /\ sent'[Peer(x)] = sent[e]
        BY <1>9, <3>2, <4>1, ZenonT(30)
      <4> HIDE DEF p
      <4> QED BY <1>4, <4>2, ZenonT(30)
    <3> QED BY <1>1, <3>1, <3>2, ZenonT(30)
  <2> QED BY <2>1, ZenonT(30) DEF Received
<1>16. RepairExact'
  <2>1. ASSUME NEW x \in End
        PROVE  Exact(fec'[x], fec'[Peer(x)], emitted'[Peer(x)], got'[x], input'[x])
    <3>1. CASE x = e
      BY <1>9, <1>12, <3>1, ZenonT(30)
    <3>2. CASE x = p
      <4>1. Peer(x) = e
        BY <1>1, <3>2, Zenon
      <4> HIDE DEF p
      <4> QED BY <1>9, <1>13, <3>2, <4>1, ZenonT(30)
    <3> QED BY <1>1, <3>1, <3>2, ZenonT(30)
  <2> QED BY <2>1, ZenonT(30) DEF RepairExact, Exact, Siblings, Size
<1>17. got' \in [End -> SUBSET AnyFrame]
  BY <1>2, <1>6, ZenonT(30)
<1>18. fed' \in [End -> SUBSET AnyFrame]
  <2> DEFINE more == IF config = Off THEN {} ELSE {f}
  <2>1. more \subseteq AnyFrame /\ fed' = [fed EXCEPT ![e] = @ \cup more]
    BY <1>6, <1>8, ZenonT(30)
  <2> HIDE DEF more
  <2> QED BY <1>2, <2>1, ZenonT(30)
<1>19. input' = [x \in End |-> input'[x]] /\ refused' = [x \in End |-> refused'[x]]
  BY <1>2, <1>8, ZenonT(30)
<1> QED BY <1>15, <1>16, <1>17, <1>18, <1>19, ZenonT(30)

(* A frame reaches a running session. *)
LEMMA OnReceiveStep ==
    ASSUME DatagramInv, NEW e \in End, OnReceive(e)
    PROVE  DatagramInv'
<1>1. PICK f \in InFlight(e) :
        /\ running[e] /\ got' = [got EXCEPT ![e] = @ \cup {f}] /\ FeedKcpInput(e, fec[e], f)
        /\ UNCHANGED <<setting, running, open, fec, sending>>
  BY Zenon DEF OnReceive
<1>2. /\ setting' = setting /\ running' = running /\ open' = open /\ fec' = fec
      /\ encoder' = encoder /\ emitted' = emitted /\ posted' = posted /\ pending' = pending
      /\ sent' = sent /\ lost' = lost /\ sealed' = sealed
  BY <1>1, ZenonT(30) DEF sending
<1>3. f \in DOMAIN sent[Peer(e)]
  BY Zenon DEF InFlight, BagToSet
<1>4. fec \in [End -> Shards] /\ got \in [End -> SUBSET AnyFrame]
  BY Zenon DEF DatagramInv, Types
<1>5. got[Server] # {} /\ (fec[Server] = Off <=> fec[Client] = Off)
  <2>1. got[Server] # {}
    <3>1. CASE e = Server
      BY <1>1, <3>1, ZenonT(30) DEF DatagramInv, Framing
    <3>2. CASE e = Client
      <4>1. f \in sealed[Server]
        <5>1. f \in DOMAIN sent[Server] /\ Server \in End
          BY <1>3, <3>2, ZenonT(30) DEF Peer, End
        <5>2. DOMAIN sent[Server] \subseteq sealed[Server]
          BY <5>1, ZenonT(30) DEF DatagramInv, Places, Placed
        <5> QED BY <5>1, <5>2, ZenonT(30)
      <4> QED BY <4>1, ZenonT(30) DEF DatagramInv, Framing
    <3> QED BY <3>1, <3>2, ZenonT(30) DEF End
  <2> QED BY <2>1, Zenon DEF DatagramInv, Framing
<1>6. /\ Received' /\ RepairExact'
      /\ got' \in [End -> SUBSET AnyFrame] /\ fed' \in [End -> SUBSET AnyFrame]
      /\ input' = [x \in End |-> input'[x]] /\ refused' = [x \in End |-> refused'[x]]
  <2>1. fec[e] \in Shards /\ fec' = [fec EXCEPT ![e] = fec[e]]
    BY <1>2, <1>4, ZenonT(30)
  <2>2. fec[e] = Off <=> fec[Peer(e)] = Off
    BY <1>5, ZenonT(30) DEF End, Peer
  <2>3. fec[e] = fec[e] /\ UNCHANGED <<emitted, sent>>
    BY <1>2, ZenonT(30)
  <2> QED BY <1>1, <1>3, <2>1, <2>2, <2>3, ReceiveStep, ZenonT(30)
<1>7. Framing'
  <2>1. got'[Server] # {}
    BY <1>1, <1>4, <1>5, ZenonT(30) DEF End
  <2> QED BY <1>2, <1>5, <2>1, ZenonT(30) DEF DatagramInv, Framing
<1>8. Places'
  BY <1>2, ZenonT(30) DEF DatagramInv, Places, Posted
<1>9. Types'
  BY <1>2, <1>6, ZenonT(30) DEF DatagramInv, Types
<1> QED BY <1>6, <1>7, <1>8, <1>9, ZenonT(30) DEF DatagramInv

(* An encoder that has seen nothing suits every setting. *)
LEMMA FreshEncoder ==
    ASSUME NEW config \in Shards, NEW c, EncoderAt(Off, 0, c)
    PROVE  EncoderAt(config, 0, c)
<1>1. c = [next |-> 0, set |-> <<>>]
  BY Zenon DEF EncoderAt
<1>2. CASE config # Off
  <2>1. config.data \in Nat /\ config.parity \in Nat /\ config.data > 0
    BY <1>2 DEF Shards
  <2>2. 0 \in 0 .. 0 /\ 0 \in 0 .. config.data - 1
    BY <2>1
  <2>3. 0 = 0 * config.data + 0 /\ 0 * Size(config) + 0 = 0
    BY <2>1 DEF Size
  <2>4. [i \in 1 .. 0 |-> 0 * config.data + i] = <<>>
    OBVIOUS
  <2>5. c = [next |-> 0 * Size(config) + 0, set |-> [i \in 1 .. 0 |-> 0 * config.data + i]]
    BY <1>1, <2>3, <2>4, ZenonT(30)
  <2> QED BY <1>2, <2>2, <2>3, <2>5, ZenonT(30) DEF EncoderAt
<1> QED BY <1>2, ZenonT(30)

(* The first frame of the client makes the server's session, which frames if   *)
(* that one is framed.                                                         *)
LEMMA CreateSessionStep ==
    ASSUME DatagramInv, CreateSession
    PROVE  DatagramInv'
<1>1. PICK f \in InFlight(Server) :
        /\ got[Server] = {} /\ running' = [running EXCEPT ![Server] = TRUE]
        /\ fec' = [fec EXCEPT ![Server] = SessionFec(f)] /\ got' = [got EXCEPT ![Server] = {f}]
        /\ FeedKcpInput(Server, SessionFec(f), f)
        /\ UNCHANGED <<setting, open, sending>>
  BY Zenon DEF CreateSession
<1>2. /\ setting' = setting /\ open' = open
      /\ encoder' = encoder /\ emitted' = emitted /\ posted' = posted /\ pending' = pending
      /\ sent' = sent /\ lost' = lost /\ sealed' = sealed
  BY <1>1, Zenon DEF sending
<1>3. Server \in End /\ Client \in End /\ Client # Server /\ Peer(Server) = Client
  BY Shapes, Zenon DEF Peer
<1>4. f \in DOMAIN sent[Client]
  BY <1>3, ZenonT(30) DEF InFlight, BagToSet
<1>5. /\ fec \in [End -> Shards] /\ got \in [End -> SUBSET AnyFrame] /\ emitted \in [End -> Nat]
      /\ running \in [End -> BOOLEAN]
      /\ emitted[Server] = 0 /\ sealed[Server] = {} /\ fec[Server] = Off
      /\ EncoderAt(fec[Server], emitted[Server], encoder[Server])
  BY <1>1, <1>3, ZenonT(30) DEF DatagramInv, Types, Framing
<1>6. fec[Client] = Off <=> f.type = "bare"
  <2>1. DOMAIN sent[Client] \subseteq sealed[Client]
    BY <1>3, ZenonT(30) DEF DatagramInv, Places, Placed
  <2>2. IsFrame(fec[Client], emitted[Client], f) /\ fec[Client] \in Shards /\ emitted[Client] \in Nat
    BY <1>3, <1>4, <1>5, <2>1, ZenonT(30) DEF DatagramInv, Framing
  <2> QED BY <2>2, FrameBody, ZenonT(30)
<1>7. SessionFec(f) \in Shards /\ (SessionFec(f) = Off <=> fec[Client] = Off)
  <2>1. setting.server \in Shards
    BY DatagramAssumption, ZenonT(30) DEF DatagramInv, Types
  <2>2. Off \in Shards
    BY DEF Off, Shards
  <2>3. Adaptive \in Shards /\ Adaptive # Off
    BY DatagramAssumption, ZenonT(30)
  <2> QED BY <1>6, <2>1, <2>2, <2>3, ZenonT(30) DEF SessionFec
<1> DEFINE config == SessionFec(f)
<1>8. got[Client] = {}
  <2>1. Peer(Client) = Server
    BY <1>3, ZenonT(30) DEF Peer
  <2>2. got[Client] \subseteq DOMAIN sent[Server]
    BY <1>3, <2>1, ZenonT(30) DEF DatagramInv, Received
  <2>3. Placed(sealed[Server], sent[Server], lost[Server], pending[Server], posted)
    BY Shapes, ZenonT(30)
  <2>4. DOMAIN sent[Server] \subseteq sealed[Server]
    BY <2>3, Zenon DEF Placed
  <2> QED BY <1>5, <2>2, <2>4, ZenonT(30)
<1>9. /\ config \in Shards /\ (config = Off <=> fec[Client] = Off)
      /\ fec' = [fec EXCEPT ![Server] = config] /\ FeedKcpInput(Server, config, f)
  BY <1>1, <1>7, ZenonT(30)
<1> HIDE DEF config
<1>10. /\ Received' /\ RepairExact'
       /\ got' \in [End -> SUBSET AnyFrame] /\ fed' \in [End -> SUBSET AnyFrame]
       /\ input' = [x \in End |-> input'[x]] /\ refused' = [x \in End |-> refused'[x]]
  <2>1. got' = [got EXCEPT ![Server] = @ \cup {f}]
    <3>1. {f} = got[Server] \cup {f}
      BY <1>1, ZenonT(30)
    <3> QED BY <1>1, <1>3, <1>5, <3>1, ZenonT(30)
  <2>2. f \in DOMAIN sent[Peer(Server)] /\ (config = Off <=> fec[Peer(Server)] = Off)
    BY <1>3, <1>4, <1>9, ZenonT(30)
  <2>3. got[Server] = {} /\ got[Peer(Server)] = {}
    BY <1>1, <1>3, <1>8, ZenonT(30)
  <2>4. UNCHANGED <<emitted, sent>>
    BY <1>2, ZenonT(30)
  <2> QED BY <1>3, <1>9, <2>1, <2>2, <2>3, <2>4, ReceiveStep, ZenonT(30)
<1>11. /\ fec'[Server] = config /\ fec'[Client] = fec[Client] /\ fec' \in [End -> Shards]
       /\ got'[Server] # {} /\ running' \in [End -> BOOLEAN]
  <2>1. fec'[Server] = config /\ fec'[Client] = fec[Client]
    BY <1>3, <1>5, <1>9, ZenonT(30)
  <2>2. fec' \in [End -> Shards]
    BY <1>5, <1>9, ZenonT(30)
  <2>3. got'[Server] # {}
    BY <1>1, <1>3, <1>5, ZenonT(30)
  <2>4. running' \in [End -> BOOLEAN]
    BY <1>1, <1>5, ZenonT(30)
  <2> QED BY <2>1, <2>2, <2>3, <2>4, ZenonT(30)
<1>12. Framing'
  <2>1. EncoderAt(config, 0, encoder[Server])
    <3>1. EncoderAt(Off, 0, encoder[Server])
      BY <1>5, ZenonT(30)
    <3> QED BY <1>9, <3>1, FreshEncoder, ZenonT(30)
  <2>2. EncoderAt(fec'[Server], emitted'[Server], encoder'[Server])
    BY <1>2, <1>5, <1>11, <2>1, ZenonT(30)
  <2>3. EncoderAt(fec'[Client], emitted'[Client], encoder'[Client])
    BY <1>2, <1>3, <1>11, ZenonT(30) DEF DatagramInv, Framing
  <2>4. \A g \in sealed'[Server] : IsFrame(fec'[Server], emitted'[Server], g)
    BY <1>2, <1>5, ZenonT(30)
  <2>5. \A g \in sealed'[Client] : IsFrame(fec'[Client], emitted'[Client], g)
    BY <1>2, <1>3, <1>11, ZenonT(30) DEF DatagramInv, Framing
  <2>6. \A x \in End : x = Client \/ x = Server
    BY Zenon DEF End
  <2>7. fec'[Server] = Off <=> fec'[Client] = Off
    BY <1>9, <1>11, ZenonT(30)
  <2> QED BY <1>11, <2>2, <2>3, <2>4, <2>5, <2>6, <2>7, ZenonT(30) DEF Framing
<1>13. Places'
  BY <1>2, ZenonT(30) DEF DatagramInv, Places, Posted
<1>14. Types'
  BY <1>2, <1>10, <1>11, ZenonT(30) DEF DatagramInv, Types
<1> QED BY <1>10, <1>12, <1>13, <1>14, ZenonT(30) DEF DatagramInv

(* At first nothing is anywhere. *)
LEMMA InitInv ==
    ASSUME Init
    PROVE  DatagramInv
<1>1. /\ setting \in Settings
      /\ fec = [e \in End |-> IF e = Client THEN setting.client ELSE Off]
      /\ running = [e \in End |-> e = Client] /\ open = [e \in End |-> TRUE]
      /\ encoder = [e \in End |-> [next |-> 0, set |-> <<>>]]
      /\ emitted = [e \in End |-> 0] /\ posted = <<>>
      /\ pending = [e \in End |-> <<>>] /\ sent = [e \in End |-> EmptyBag]
      /\ lost = [e \in End |-> {}] /\ sealed = [e \in End |-> {}]
      /\ got = [e \in End |-> {}] /\ fed = [e \in End |-> {}]
      /\ input = [e \in End |-> {}] /\ refused = [e \in End |-> {}]
  BY Zenon DEF Init
<1>2. Client \in End /\ Server \in End /\ Client # Server
  BY ZenonT(30) DEF End, Client, Server
<1>3. setting.client \in Shards /\ Off \in Shards
  BY <1>1, DatagramAssumption, ZenonT(30) DEF Off, Shards
<1>4. fec \in [End -> Shards] /\ fec[Client] = setting.client /\ fec[Server] = Off
  <2>1. ASSUME NEW e \in End PROVE (IF e = Client THEN setting.client ELSE Off) \in Shards
    BY <1>3, ZenonT(30)
  <2>2. fec \in [End -> Shards]
    BY <1>1, <2>1, ZenonT(30)
  <2> QED BY <1>1, <1>2, <2>2, ZenonT(30)
<1>5. Types
  <2>1. running \in [End -> BOOLEAN] /\ open \in [End -> BOOLEAN]
    BY <1>1, ZenonT(30)
  <2>2. emitted \in [End -> Nat] /\ pending \in [End -> Seq(AnyFrame)]
    <3>1. 0 \in Nat /\ <<>> \in Seq(AnyFrame)
      OBVIOUS
    <3> QED BY <1>1, <3>1, ZenonT(30)
  <2>3. /\ lost \in [End -> SUBSET AnyFrame] /\ sealed \in [End -> SUBSET AnyFrame]
        /\ got \in [End -> SUBSET AnyFrame] /\ fed \in [End -> SUBSET AnyFrame]
    <3>1. {} \in SUBSET AnyFrame
      BY Zenon
    <3> QED BY <1>1, <3>1, ZenonT(30)
  <2>4. encoder = [e \in End |-> encoder[e]] /\ sent = [e \in End |-> sent[e]]
    BY <1>1, Zenon
  <2>5. input = [e \in End |-> input[e]] /\ refused = [e \in End |-> refused[e]]
    BY <1>1, Zenon
  <2> QED BY <1>1, <1>4, <2>1, <2>2, <2>3, <2>4, <2>5, ZenonT(30) DEF Types
<1>6. \A e \in End : /\ emitted[e] = 0 /\ encoder[e] = [next |-> 0, set |-> <<>>]
                     /\ sealed[e] = {} /\ got[e] = {} /\ fed[e] = {} /\ input[e] = {}
                     /\ refused[e] = {} /\ sent[e] = EmptyBag /\ lost[e] = {}
                     /\ pending[e] = <<>> /\ Posted(e) = <<>> /\ fec[e] \in Shards
  BY <1>1, <1>4, Zenon DEF Posted
<1>7. Framing
  <2>1. EncoderAt(Off, 0, [next |-> 0, set |-> <<>>])
    BY Zenon DEF EncoderAt
  <2>2. \A e \in End : EncoderAt(fec[e], emitted[e], encoder[e])
    BY <1>6, <2>1, FreshEncoder, ZenonT(30)
  <2>3. ~running[Server]
    BY <1>1, <1>2, ZenonT(30)
  <2> QED BY <1>2, <1>4, <1>6, <2>2, <2>3, ZenonT(30) DEF Framing
<1>8. Places
  <2>1. Placed({}, EmptyBag, {}, <<>>, <<>>)
    <3>1. /\ <<>> \in Seq(AnyFrame) /\ <<>> \in Seq(Seq(AnyFrame)) /\ Injective(<<>>)
          /\ Range(<<>>) = {} /\ 1 .. Len(<<>>) = {}
      BY DEF Injective, Range
    <3>2. Queued(<<>>) = {} /\ Apart(<<>>)
      BY <3>1, Zenon DEF Queued, Apart
    <3>3. DOMAIN EmptyBag = {} /\ EmptyBag = [x \in DOMAIN EmptyBag |-> 1]
      BY Zenon DEF EmptyBag, SetToBag
    <3> QED BY <3>1, <3>2, <3>3, ZenonT(30) DEF Placed
  <2> QED BY <1>6, <2>1, ZenonT(30) DEF Places
<1>9. Received
  <2>1. IsFiniteSet({})
    BY FS_EmptySet, ZenonT(30)
  <2> QED BY <1>6, <2>1, ZenonT(30) DEF Received
<1>10. RepairExact
  BY <1>6, ZenonT(30) DEF RepairExact
<1> QED BY <1>5, <1>7, <1>8, <1>9, <1>10, ZenonT(30) DEF DatagramInv

(* Every step keeps the invariant, whatever it does to either end. *)
LEMMA NextInv ==
    ASSUME DatagramInv, [Next]_vars
    PROVE  DatagramInv'
<1>0. MaxFlush \in Nat /\ 1 .. MaxFlush \subseteq Nat /\ 0 .. MaxFlush \subseteq Nat
  BY DatagramAssumption
<1>1. ASSUME NEW e \in End, NEW burst \in BOOLEAN, NEW k \in 1 .. MaxFlush,
             FlushCycle(e, k, burst) \/ FlushRefused(e, k, burst)
      PROVE  DatagramInv'
  <2>1. k \in Nat
    BY <1>0, Zenon
  <2> QED BY <1>1, <2>1, FlushCycleStep, FlushRefusedStep, ZenonT(30)
<1>2. ASSUME NEW e \in End, NEW burst \in BOOLEAN, NEW bad, EmitOutput(e, burst, bad)
      PROVE  DatagramInv'
  BY <1>2, EmitOutputStep, Zenon
<1>3. ASSUME NEW e \in End, SendCompletes(e) \/ SendFails(e) \/ OnReceive(e)
      PROVE  DatagramInv'
  BY <1>3, SendCompletesStep, SendFailsStep, OnReceiveStep, ZenonT(30)
<1>4. ASSUME NEW k \in 0 .. MaxFlush, NEW burst \in BOOLEAN, NEW refusal \in BOOLEAN,
             OnClose(k, burst, refusal)
      PROVE  DatagramInv'
  <2>1. k \in Nat
    BY <1>0, Zenon
  <2> QED BY <1>4, <2>1, OnCloseStep, ZenonT(30)
<1>5. CASE SendBatchToClient
  BY <1>5, SendBatchToClientStep, ZenonT(30)
<1>6. CASE CreateSession
  BY <1>6, CreateSessionStep, Zenon
<1>7. CASE StopSession \/ StopServer
  BY <1>7, StopStep, ZenonT(30)
<1>8. CASE SocketCloses
  BY <1>8, SocketClosesStep, Zenon
<1>9. CASE UNCHANGED vars
  <2>1. /\ setting' = setting /\ running' = running /\ open' = open /\ fec' = fec
        /\ encoder' = encoder /\ emitted' = emitted /\ posted' = posted /\ pending' = pending
        /\ sent' = sent /\ lost' = lost /\ sealed' = sealed
        /\ UNCHANGED <<setting, fec, encoder, emitted, sealed, got, fed, input, refused>>
    BY <1>9, Zenon DEF vars, sending, receiving
  <2>2. Places'
    BY <2>1, Zenon DEF DatagramInv, Places, Posted
  <2>3. /\ running' \in [End -> BOOLEAN] /\ open' \in [End -> BOOLEAN]
        /\ (running'[Server] => running[Server])
        /\ lost' \in [End -> SUBSET AnyFrame] /\ pending' \in [End -> Seq(AnyFrame)]
        /\ sent' = [y \in End |-> sent'[y]]
        /\ \A y \in End : DOMAIN sent[y] \subseteq DOMAIN sent'[y]
    BY <2>1, Shapes, ZenonT(30)
  <2> QED BY <2>1, <2>2, <2>3, MoveStep, ZenonT(30)
<1> QED BY <1>1, <1>2, <1>3, <1>4, <1>5, <1>6, <1>7, <1>8, <1>9, ZenonT(30) DEF Next

(* The inductive invariant: each end frames all its datagrams alike and as its *)
(* peer does, every sealed frame is in one place, and the decoder knows just   *)
(* what arrived.                                                               *)
THEOREM DatagramInvariant == Spec => []DatagramInv
<1>1. Init => DatagramInv
  BY InitInv
<1>2. DatagramInv /\ [Next]_vars => DatagramInv'
  BY NextInv
<1> QED BY <1>1, <1>2, PTL DEF Spec

(* Between sendmmsg, the asynchronous sends, the bursts posted to the socket's *)
(* strand and the sockets that close, no sealed frame is lost track of and     *)
(* none is sent twice, for every -fec, every flush and every number of         *)
(* datagrams.                                                                  *)
THEOREM HandedOnceHolds == Spec => []HandedOnce
<1>1. DatagramInv => HandedOnce
  <2> SUFFICES ASSUME DatagramInv, NEW e \in End
               PROVE  SetToBag(sealed[e]) = sent[e] (+) SetToBag(lost[e]) (+) ToBag(pending[e])
                          (+) (IF e = Server THEN ToBags(posted) ELSE EmptyBag)
    BY ZenonT(30) DEF HandedOnce
  <2>1. SetToBag(sealed[e]) = sent[e] (+) SetToBag(lost[e]) (+) ToBag(pending[e])
                                  (+) ToBags(Posted(e))
    <3>1. Placed(sealed[e], sent[e], lost[e], pending[e], Posted(e))
      BY Zenon DEF DatagramInv, Places
    <3> QED BY <3>1, PlacedOnce, SMTT(20)
  <2>2. ToBags(<<>>) = EmptyBag
    <3> DEFINE none == UNION {Range(<<>>[i]) : i \in DOMAIN <<>>}
               count(x) == Cardinality({p \in UNION {{i} \X DOMAIN <<>>[i] : i \in DOMAIN <<>>} :
                                           <<>>[p[1]][p[2]] = x})
    <3>1. none = {}
      OBVIOUS
    <3>2. ToBags(<<>>) = [x \in none |-> count(x)]
      BY Zenon DEF ToBags
    <3> HIDE DEF none, count
    <3> QED BY <3>1, <3>2, ZenonT(30) DEF EmptyBag, SetToBag
  <2>3. ToBags(Posted(e)) = (IF e = Server THEN ToBags(posted) ELSE EmptyBag)
    BY <2>2, ZenonT(30) DEF Posted
  <2> QED BY <2>1, <2>3, ZenonT(30)
<1> QED BY <1>1, DatagramInvariant, PTL

(* feed_kcp_input never meets a frame of the wrong kind: the server's session  *)
(* frames exactly when the client that began it does.                          *)
THEOREM FramingAgreesHolds == Spec => []FramingAgrees
<1>1. DatagramInv => FramingAgrees
  BY ZenonT(30) DEF DatagramInv, Received, FramingAgrees
<1> QED BY <1>1, DatagramInvariant, PTL

(* What FecDecoder rebuilds is what the peer's KCP emitted, and it rebuilds a  *)
(* protected set as soon as enough of it arrived, for all shard parameters     *)
(* the two ends share and in whatever order the network delivers.              *)
THEOREM RepairExactHolds == Spec => []RepairExact
<1>1. DatagramInv => RepairExact
  BY Zenon DEF DatagramInv
<1> QED BY <1>1, DatagramInvariant, PTL
=============================================================================
