---------------------------- MODULE TunnelProofs ----------------------------
(***************************************************************************)
(* A tunnel keeps its two streams, for any amount of data, any watermarks  *)
(* and any number of heartbeats.                                           *)
(*                                                                         *)
(* The inductive invariant TunnelInv says, of each direction, that the     *)
(* units between the two sockets are the ones the reader lacks, in order   *)
(* (Flow), and that the FIN is last; each queue Holds the units above one  *)
(* number, up to another.  A handler is a composition of helpers, so a     *)
(* lemma about a helper says it keeps Ends, which is the invariant of two  *)
(* arbitrary ends, and an action's lemma chains them.  A handler that      *)
(* moves no data is Quiet, and one lemma covers all of those.              *)
(***************************************************************************)
EXTENDS Tunnel, TLAPS

(* The values of the fields, and the states of the two ends. *)
Sock == {"open", "shut", "closed"}

TcpRead == {"armed", "parked", "off"}

KcpRead == {"idle", "pending", "data", "eof", "aborted", "writing"}

ServerEnd ==
    [fin : BOOLEAN, active : BOOLEAN, sock : Sock, tcpRead : TcpRead, kcpRead : KcpRead,
     held : Nat, out : Seq(Int), unacked : Nat, inq : Seq(Int), finSent : BOOLEAN,
     peerFin : BOOLEAN, beats : Nat, read : Nat, got : Seq(Nat), stacked : BOOLEAN,
     targetClosed : BOOLEAN, targetEnded : BOOLEAN, drainCb : BOOLEAN, claim : BOOLEAN,
     inTable : BOOLEAN]

ClientEnd ==
    [fin : BOOLEAN, active : BOOLEAN, sock : Sock, tcpRead : TcpRead, kcpRead : KcpRead,
     held : Nat, out : Seq(Int), unacked : Nat, inq : Seq(Int), finSent : BOOLEAN,
     peerFin : BOOLEAN, beats : Nat, read : Nat, got : Seq(Nat), stacked : BOOLEAN,
     appEof : BOOLEAN, guardFin : BOOLEAN, grace : BOOLEAN, progress : BOOLEAN,
     appStalled : BOOLEAN]

-----------------------------------------------------------------------------
(* The streams. *)

(* The first n entries of q are the units after a up to b, in order, between   *)
(* control messages.                                                           *)
Units(q, n, a, b) ==
    /\ a <= b
    /\ \A i \in 1 .. n : q[i] = Fin \/ q[i] = Keepalive \/ (a < q[i] /\ q[i] <= b)
    /\ \A i, j \in 1 .. n : i < j /\ q[i] > 0 /\ q[j] > 0 => q[i] < q[j]
    /\ \A v \in a + 1 .. b : \E i \in 1 .. n : q[i] = v

(* A queue holds the units above a, up to b, and control messages. *)
Holds(q, a, b) == Units(q, Len(q), a, b)

(* The end of stream is in the queue, and no data follows it. *)
HasFin(q) == \E i \in 1 .. Len(q) : q[i] = Fin

FinLast(q) == \A i, j \in 1 .. Len(q) : i < j /\ q[i] = Fin => q[j] <= 0

(* From any point of the queue on there is a first message that is no          *)
(* heartbeat, if there is any.  So it is in every finite sequence; the         *)
(* invariant carries it because that takes an induction over the sequence,     *)
(* which the steps that build the queue supply.                                *)
Firsts(q) ==
    \A k \in 0 .. Len(q) :
        (\E i \in k + 1 .. Len(q) : q[i] # Keepalive)
            => \E i \in k + 1 .. Len(q) :
                  q[i] # Keepalive /\ \A j \in k + 1 .. i - 1 : q[j] = Keepalive

(* The units y has taken from its queue. *)
Taken(y) == Len(y.got) + (IF y.kcpRead \in {"data", "writing"} THEN 1 ELSE 0)

(* What x has sent and y has not taken is in the queues between them, in       *)
(* order, up to p in the one that arrived and up to m in the other.  When x    *)
(* has ended its stream the end of stream comes last.                          *)
Between(x, y, ended, p, m) ==
    /\ Holds(y.inq, Taken(y), p)
    /\ Holds(x.out, p, m)
    /\ x.active \/ ended => m = x.read
    /\ HasFin(y.inq) \/ HasFin(x.out) => x.finSent
    /\ ended => /\ FinLast(y.inq) /\ FinLast(x.out)
                /\ HasFin(y.inq) => p = m
    /\ y.kcpRead \in {"data", "writing"} => y.held = Len(y.got) + 1
    /\ Firsts(y.inq)

(* The data in transit from x to y is what y still lacks. *)
Stream(x, y, ended) == \E p, m \in 0 .. x.read : Between(x, y, ended, p, m)

(* One direction of the tunnel, unless y has given up reading it. *)
Flow(x, y, ended, lost) ==
    /\ \A i \in 1 .. Len(y.got) : y.got[i] = i
    /\ y.peerFin => x.finSent
    /\ ended /\ y.peerFin => Len(y.got) = x.read
    /\ lost \/ Stream(x, y, ended)

(* The server's FIN follows all its data when it was sent because the target   *)
(* ended; the client's always does.                                            *)
ServerEnded(s) == s.finSent /\ s.targetEnded

(* The reading loops that will not take another unit. *)
ServerLost(s) == s.kcpRead = "idle" /\ s.targetClosed

ClientLost(c) == c.kcpRead = "idle"

(* One FIN and the heartbeats may be queued besides what the watermark admits. *)
Extra(x) == x.beats + (IF x.finSent THEN 1 ELSE 0)

(* The send queue stays under the watermark, with room, while the TCP read is  *)
(* armed, for the unit it may bring.                                           *)
Throttled(x) ==
    /\ WaitSend(x) <= Threshold + Extra(x)
    /\ x.tcpRead = "armed" => WaitSend(x) <= Threshold - 1 + Extra(x)

(* On the server a running read loop holds the claim, and a FIN was sent only  *)
(* after the target was closed.                                                *)
ServerInv(s) ==
    /\ s \in ServerEnd
    /\ ~s.stacked
    /\ s.active /\ ~s.targetClosed /\ ~s.peerFin /\ s.kcpRead # "idle" => s.claim
    /\ s.finSent => s.targetClosed
    /\ s.targetClosed => s.sock = "closed"
    /\ s.targetEnded => s.tcpRead = "off"
    /\ s.kcpRead = "eof" \/ s.sock = "shut" => s.peerFin

(* On the client nothing is read from the app after the FIN, and the app is    *)
(* told of the end of stream only when it arrived.                             *)
ClientInv(c) ==
    /\ c \in ClientEnd
    /\ ~c.stacked
    /\ c.finSent => c.tcpRead = "off"
    /\ c.kcpRead = "eof" \/ c.guardFin => c.peerFin

(* The two ends, when the server (the client) may have given up reading only   *)
(* under lostS (lostC).                                                        *)
Ends(c, s, lostS, lostC) ==
    /\ ClientInv(c) /\ ServerInv(s)
    /\ c.beats + s.beats <= MaxKeepalives
    /\ Flow(c, s, c.finSent, lostS)
    /\ Flow(s, c, ServerEnded(s), lostC)

(* The inductive invariant. *)
TunnelInv ==
    /\ Ends(client, server, ServerLost(server), ClientLost(client))
    /\ Throttled(client) /\ Throttled(server)
    /\ link \in BOOLEAN /\ faulted \in BOOLEAN

-----------------------------------------------------------------------------
(* Queues. *)

(* Appending the next unit. *)
LEMMA UnitsData ==
    ASSUME NEW n \in Nat, NEW q \in [1 .. n -> Int], NEW a \in Nat, NEW b \in Nat,
           Units(q, n, a, b),
           NEW r \in [1 .. n + 1 -> Int], \A i \in 1 .. n : r[i] = q[i],
           r[n + 1] = b + 1
    PROVE  Units(r, n + 1, a, b + 1)
<1>2. \A i \in 1 .. n + 1 : r[i] = Fin \/ r[i] = Keepalive \/ (a < r[i] /\ r[i] <= b + 1)
  <2> SUFFICES ASSUME NEW i \in 1 .. n + 1
               PROVE  r[i] = Fin \/ r[i] = Keepalive \/ (a < r[i] /\ r[i] <= b + 1)
    OBVIOUS
  <2>1. CASE i \in 1 .. n  BY <2>1 DEF Units, Fin, Keepalive
  <2>2. CASE i = n + 1  BY <2>2 DEF Units
  <2> QED  BY <2>1, <2>2
<1>3. \A i, j \in 1 .. n + 1 : i < j /\ r[i] > 0 /\ r[j] > 0 => r[i] < r[j]
  <2> SUFFICES ASSUME NEW i \in 1 .. n, NEW j \in 1 .. n + 1, i < j, r[i] > 0, r[j] > 0
               PROVE  r[i] < r[j]
    BY SMTT(20)
  <2>1. CASE j \in 1 .. n  BY <2>1 DEF Units
  <2>2. CASE j = n + 1
    <3>1. r[i] = q[i] /\ q[i] <= b  BY SMTT(20) DEF Units, Fin, Keepalive
    <3> QED  BY <3>1, <2>2
  <2> QED  BY <2>1, <2>2
<1>4. \A v \in a + 1 .. b + 1 : \E i \in 1 .. n + 1 : r[i] = v
  BY DEF Units
<1> QED  BY <1>2, <1>3, <1>4 DEF Units

(* Appending a control message. *)
LEMMA UnitsControl ==
    ASSUME NEW n \in Nat, NEW q \in [1 .. n -> Int], NEW a \in Nat, NEW b \in Nat,
           Units(q, n, a, b),
           NEW r \in [1 .. n + 1 -> Int], \A i \in 1 .. n : r[i] = q[i],
           r[n + 1] = Fin \/ r[n + 1] = Keepalive
    PROVE  Units(r, n + 1, a, b)
<1>2. \A i \in 1 .. n + 1 : r[i] = Fin \/ r[i] = Keepalive \/ (a < r[i] /\ r[i] <= b)
  <2> SUFFICES ASSUME NEW i \in 1 .. n + 1
               PROVE  r[i] = Fin \/ r[i] = Keepalive \/ (a < r[i] /\ r[i] <= b)
    OBVIOUS
  <2>1. CASE i \in 1 .. n  BY <2>1 DEF Units
  <2>2. CASE i = n + 1  BY <2>2
  <2> QED  BY <2>1, <2>2
<1>3. \A i, j \in 1 .. n + 1 : i < j /\ r[i] > 0 /\ r[j] > 0 => r[i] < r[j]
  BY SMTT(20) DEF Units, Fin, Keepalive
<1>4. \A v \in a + 1 .. b : \E i \in 1 .. n + 1 : r[i] = v
  BY DEF Units
<1> QED  BY <1>2, <1>3, <1>4 DEF Units

(* Taking the first message that is no heartbeat. *)
LEMMA UnitsSuffix ==
    ASSUME NEW n \in Nat, NEW q \in [1 .. n -> Int], NEW a \in Nat, NEW b \in Nat,
           Units(q, n, a, b),
           NEW k \in 1 .. n, \A j \in 1 .. k - 1 : q[j] = Keepalive,
           NEW r \in [1 .. n - k -> Int], \A i \in 1 .. n - k : r[i] = q[i + k]
    PROVE  /\ q[k] = Fin \/ q[k] = Keepalive => Units(r, n - k, a, b)
           /\ q[k] # Fin /\ q[k] # Keepalive =>
                 /\ q[k] = a + 1 /\ a + 1 <= b
                 /\ Units(r, n - k, a + 1, b)
<1>1. \A i \in k + 1 .. n : i - k \in 1 .. n - k /\ r[i - k] = q[i]
  OBVIOUS
<1>2. \A i, j \in 1 .. n - k : i < j /\ r[i] > 0 /\ r[j] > 0 => r[i] < r[j]
  BY DEF Units
<1>3. \A v \in a + 1 .. b : \E i \in k .. n : q[i] = v
  BY DEF Units, Keepalive
<1>4. ASSUME q[k] = Fin \/ q[k] = Keepalive PROVE Units(r, n - k, a, b)
  <2>1. \A i \in 1 .. n - k : r[i] = Fin \/ r[i] = Keepalive \/ (a < r[i] /\ r[i] <= b)
    BY DEF Units
  <2>2. ASSUME NEW v \in a + 1 .. b PROVE \E i \in 1 .. n - k : r[i] = v
    <3>1. PICK i \in k .. n : q[i] = v  BY <1>3
    <3>2. i # k  BY <1>4, <3>1 DEF Fin, Keepalive
    <3> QED  BY <3>1, <3>2, <1>1
  <2> QED  BY <2>1, <2>2, <1>2 DEF Units
<1>5. ASSUME q[k] # Fin, q[k] # Keepalive
      PROVE  q[k] = a + 1 /\ a + 1 <= b /\ Units(r, n - k, a + 1, b)
  <2>1. q[k] \in a + 1 .. b  BY <1>5 DEF Units
  <2>2. \A i \in k + 1 .. n : q[i] > 0 => q[k] < q[i]
    BY <2>1 DEF Units
  <2>3. q[k] = a + 1
    <3>1. PICK i \in k .. n : q[i] = a + 1  BY <1>3, <2>1
    <3>2. CASE i = k  BY <3>1, <3>2
    <3>3. CASE i # k
      <4>1. q[k] < a + 1  BY <3>1, <3>3, <2>2, SMTT(20)
      <4> QED  BY <4>1, <2>1
    <3> QED  BY <3>2, <3>3
  <2>4. \A i \in 1 .. n - k : r[i] = Fin \/ r[i] = Keepalive \/ (a + 1 < r[i] /\ r[i] <= b)
    <3> SUFFICES ASSUME NEW i \in 1 .. n - k
                 PROVE  r[i] = Fin \/ r[i] = Keepalive \/ (a + 1 < r[i] /\ r[i] <= b)
      OBVIOUS
    <3>1. i + k \in k + 1 .. n /\ r[i] = q[i + k]  OBVIOUS
    <3>2. q[i + k] = Fin \/ q[i + k] = Keepalive \/ (a < q[i + k] /\ q[i + k] <= b)
      BY <3>1 DEF Units
    <3> QED  BY <3>1, <3>2, <2>2, <2>3, SMTT(20)
  <2>5. ASSUME NEW v \in a + 2 .. b PROVE \E i \in 1 .. n - k : r[i] = v
    <3>1. PICK i \in k .. n : q[i] = v  BY <1>3
    <3>2. i # k  BY <2>3, <3>1
    <3> QED  BY <3>1, <3>2, <1>1
  <2> QED  BY <2>1, <2>3, <2>4, <2>5, <1>2 DEF Units
<1> QED  BY <1>4, <1>5

(* What Append does to each index. *)
LEMMA AppendFacts ==
    ASSUME NEW q \in Seq(Int), NEW m \in Int
    PROVE  /\ Append(q, m) \in Seq(Int) /\ Len(q) \in Nat /\ Len(Append(q, m)) = Len(q) + 1
           /\ q \in [1 .. Len(q) -> Int] /\ Append(q, m) \in [1 .. Len(q) + 1 -> Int]
           /\ \A i \in 1 .. Len(q) : Append(q, m)[i] = q[i]
           /\ Append(q, m)[Len(q) + 1] = m
<1>1. /\ Append(q, m) \in Seq(Int) /\ Len(q) \in Nat /\ Len(Append(q, m)) = Len(q) + 1
      /\ \A i \in 1 .. Len(q) : Append(q, m)[i] = q[i]
      /\ Append(q, m)[Len(q) + 1] = m
  OBVIOUS
<1>2. \A s \in Seq(Int) : s \in [1 .. Len(s) -> Int]
  OBVIOUS
<1>3. Append(q, m) \in [1 .. Len(Append(q, m)) -> Int]
  BY <1>1, <1>2, Zenon
<1> QED  BY <1>1, <1>2, <1>3

(* What Head and Tail are, by index. *)
LEMMA HeadTail ==
    ASSUME NEW q \in Seq(Int), q # <<>>
    PROVE  /\ 1 \in 1 .. Len(q) /\ q[1] \in Int /\ Head(q) = q[1]
           /\ Tail(q) = SubSeq(q, 1 + 1, Len(q))
<1>1. Len(q) \in Nat /\ Len(q) # 0
  OBVIOUS
<1>2. Head(q) = q[1]
  OBVIOUS
<1>3. Tail(q) = SubSeq(q, 1 + 1, Len(q))
  BY <1>1
<1> QED  BY <1>1, <1>2, <1>3

(* What a suffix is, by index. *)
LEMMA SuffixFacts ==
    ASSUME NEW q \in Seq(Int), NEW k \in 1 .. Len(q)
    PROVE  LET r == SubSeq(q, k + 1, Len(q))
           IN  /\ r \in Seq(Int) /\ Len(q) \in Nat /\ Len(r) = Len(q) - k
               /\ q \in [1 .. Len(q) -> Int] /\ r \in [1 .. Len(q) - k -> Int]
               /\ \A i \in 1 .. Len(q) - k : r[i] = q[i + k]
<1>1. Len(q) \in Nat /\ k \in Nat /\ \A i \in k + 1 .. Len(q) : q[i] \in Int
  OBVIOUS
<1>2. /\ SubSeq(q, k + 1, Len(q)) \in Seq(Int)
      /\ Len(SubSeq(q, k + 1, Len(q)))
             = IF k + 1 <= Len(q) THEN Len(q) - (k + 1) + 1 ELSE 0
      /\ \A i \in 1 .. Len(q) - (k + 1) + 1 :
             SubSeq(q, k + 1, Len(q))[i] = q[(k + 1) + i - 1]
  BY <1>1
<1>3. Len(SubSeq(q, k + 1, Len(q))) = Len(q) - k
  BY <1>1, <1>2
<1>4. \A i \in 1 .. Len(q) - k : SubSeq(q, k + 1, Len(q))[i] = q[i + k]
  BY <1>1, <1>2
<1>5. SubSeq(q, k + 1, Len(q)) \in [1 .. Len(q) - k -> Int]
  <2>1. \A s \in Seq(Int) : s \in [1 .. Len(s) -> Int]
    OBVIOUS
  <2> QED  BY <1>2, <1>3, <2>1, Zenon
<1> QED  BY <1>1, <1>2, <1>3, <1>4, <1>5

(* A message is appended. *)
LEMMA FirstsAppend ==
    ASSUME NEW q \in Seq(Int), NEW m \in Int, Firsts(q)
    PROVE  Firsts(Append(q, m))
<1> DEFINE r == Append(q, m)
           n == Len(q)
<1>1. /\ n \in Nat /\ Len(r) = n + 1 /\ \A i \in 1 .. n : r[i] = q[i]
  BY AppendFacts
<1>2. \A k \in 0 .. n : (\E i \in k + 1 .. n : q[i] # Keepalive)
          => \E i \in k + 1 .. n :
                q[i] # Keepalive /\ \A j \in k + 1 .. i - 1 : q[j] = Keepalive
  BY DEF Firsts
<1> HIDE DEF r, n
<1>3. ASSUME NEW k \in 0 .. n + 1, NEW i \in k + 1 .. n + 1, r[i] # Keepalive
      PROVE  \E f \in k + 1 .. n + 1 :
                r[f] # Keepalive /\ \A j \in k + 1 .. f - 1 : r[j] = Keepalive
  <2>0. k \in Nat /\ i \in Nat /\ k \in 0 .. n
    BY <1>1
  <2>1. CASE \E h \in k + 1 .. n : q[h] # Keepalive
    <3>1. PICK f \in k + 1 .. n : q[f] # Keepalive /\ \A j \in k + 1 .. f - 1 : q[j] = Keepalive
      BY <1>2, <2>0, <2>1, Zenon
    <3>2. f \in k + 1 .. n + 1 /\ r[f] # Keepalive
      BY <1>1, <2>0, <3>1
    <3>3. \A j \in k + 1 .. f - 1 : r[j] = Keepalive
      BY <1>1, <2>0, <3>1
    <3> QED  BY <3>2, <3>3
  <2>2. CASE \A h \in k + 1 .. n : q[h] = Keepalive
    <3>1. \A h \in k + 1 .. n : r[h] = Keepalive
      BY <1>1, <2>0, <2>2
    <3>2. i = n + 1
      BY <1>1, <1>3, <2>0, <3>1
    <3>3. \A j \in k + 1 .. i - 1 : r[j] = Keepalive
      BY <1>1, <2>0, <3>1, <3>2
    <3> QED  BY <1>3, <3>3
  <2> QED  BY <2>1, <2>2
<1> QED  BY <1>1, <1>3, Zenon DEF Firsts, r

(* Messages are taken from the front. *)
LEMMA FirstsSuffix ==
    ASSUME NEW q \in Seq(Int), NEW k \in 1 .. Len(q), Firsts(q)
    PROVE  Firsts(SubSeq(q, k + 1, Len(q)))
<1> DEFINE r == SubSeq(q, k + 1, Len(q))
           n == Len(q)
<1>1. n \in Nat /\ k \in 1 .. n /\ Len(r) = n - k /\ \A i \in 1 .. n - k : r[i] = q[i + k]
  BY SuffixFacts
<1>2. \A h \in 0 .. n : (\E i \in h + 1 .. n : q[i] # Keepalive)
          => \E i \in h + 1 .. n :
                q[i] # Keepalive /\ \A j \in h + 1 .. i - 1 : q[j] = Keepalive
  BY ZenonT(30) DEF Firsts
<1> HIDE DEF r, n
<1>3. ASSUME NEW h \in 0 .. n - k, NEW i \in h + 1 .. n - k, r[i] # Keepalive
      PROVE  \E f \in h + 1 .. n - k :
                r[f] # Keepalive /\ \A j \in h + 1 .. f - 1 : r[j] = Keepalive
  <2>1. i + k \in (h + k) + 1 .. n /\ q[i + k] # Keepalive /\ h + k \in 0 .. n
    BY <1>1, <1>3, SMTT(20)
  <2>2. PICK g \in (h + k) + 1 .. n :
            q[g] # Keepalive /\ \A j \in (h + k) + 1 .. g - 1 : q[j] = Keepalive
    BY <1>2, <2>1, ZenonT(30)
  <2>3. g - k \in h + 1 .. n - k /\ g - k \in 1 .. n - k /\ (g - k) + k = g
    BY <1>1
  <2>5. r[g - k] = q[g]
    BY <1>1, <2>3, Zenon
  <2>4. ASSUME NEW j \in h + 1 .. (g - k) - 1 PROVE r[j] = Keepalive
    <3>1. j + k \in (h + k) + 1 .. g - 1 /\ j \in 1 .. n - k
      BY <1>1, <2>2
    <3> QED  BY <1>1, <2>2, <3>1, Zenon
  <2> QED  BY <2>2, <2>3, <2>4, <2>5
<1> QED  BY <1>1, <1>3, Zenon DEF Firsts, r

(* An empty queue holds nothing. *)
LEMMA HoldsEmpty == \A a \in Nat : Holds(<<>>, a, a)
BY DEF Holds, Units

(* The next unit is appended. *)
LEMMA HoldsData ==
    ASSUME NEW q \in Seq(Int), NEW a \in Nat, NEW b \in Nat, Holds(q, a, b)
    PROVE  Holds(Append(q, b + 1), a, b + 1)
<1> DEFINE r == Append(q, b + 1)
           n == Len(q)
<1>1. /\ n \in Nat /\ Len(r) = n + 1 /\ q \in [1 .. n -> Int] /\ r \in [1 .. n + 1 -> Int]
      /\ \A i \in 1 .. n : r[i] = q[i]
      /\ r[n + 1] = b + 1
  BY AppendFacts
<1>2. Units(q, n, a, b)  BY DEF Holds
<1> HIDE DEF r, n
<1>3. Units(r, n + 1, a, b + 1)  BY <1>1, <1>2, UnitsData, Zenon
<1>4. Units(r, Len(r), a, b + 1)  BY <1>1, <1>3
<1> QED  BY <1>4 DEF Holds, r

(* A control message is appended. *)
LEMMA HoldsControl ==
    ASSUME NEW q \in Seq(Int), NEW a \in Nat, NEW b \in Nat, Holds(q, a, b),
           NEW m \in {Fin, Keepalive}
    PROVE  Holds(Append(q, m), a, b)
<1> DEFINE r == Append(q, m)
           n == Len(q)
<1>1. /\ n \in Nat /\ Len(r) = n + 1 /\ q \in [1 .. n -> Int] /\ r \in [1 .. n + 1 -> Int]
      /\ \A i \in 1 .. n : r[i] = q[i]
      /\ r[n + 1] = m
  BY AppendFacts DEF Fin, Keepalive
<1>2. Units(q, n, a, b)  BY DEF Holds
<1> HIDE DEF r, n
<1>3. Units(r, n + 1, a, b)  BY <1>1, <1>2, UnitsControl, ZenonT(30)
<1>4. Units(r, Len(r), a, b)  BY <1>1, <1>3
<1> QED  BY <1>4 DEF Holds, r

(* What is left of a queue after its first unit, control messages included. *)
LEMMA HoldsSuffix ==
    ASSUME NEW q \in Seq(Int), NEW a \in Nat, NEW b \in Nat, Holds(q, a, b),
           NEW k \in 1 .. Len(q), \A j \in 1 .. k - 1 : q[j] = Keepalive
    PROVE  LET r == SubSeq(q, k + 1, Len(q))
           IN  /\ q[k] = Fin \/ q[k] = Keepalive => Holds(r, a, b)
               /\ q[k] # Fin /\ q[k] # Keepalive =>
                     q[k] = a + 1 /\ a + 1 <= b /\ Holds(r, a + 1, b)
<1> DEFINE r == SubSeq(q, k + 1, Len(q))
           n == Len(q)
<1>1. /\ n \in Nat /\ Len(r) = n - k /\ q \in [1 .. n -> Int] /\ r \in [1 .. n - k -> Int]
      /\ \A i \in 1 .. n - k : r[i] = q[i + k]
  BY SuffixFacts
<1>2. Units(q, n, a, b)  BY DEF Holds
<1>3. k \in 1 .. n  OBVIOUS
<1> HIDE DEF r, n
<1>4. /\ q[k] = Fin \/ q[k] = Keepalive => Units(r, n - k, a, b)
      /\ q[k] # Fin /\ q[k] # Keepalive =>
            q[k] = a + 1 /\ a + 1 <= b /\ Units(r, n - k, a + 1, b)
  BY <1>1, <1>2, <1>3, UnitsSuffix, ZenonT(30)
<1>5. /\ q[k] = Fin \/ q[k] = Keepalive => Holds(r, a, b)
      /\ q[k] # Fin /\ q[k] # Keepalive =>
            q[k] = a + 1 /\ a + 1 <= b /\ Holds(r, a + 1, b)
  BY <1>1, <1>4 DEF Holds
<1> QED  BY <1>5 DEF r

(* A queue of control messages holds no unit. *)
LEMMA HoldsNone ==
    ASSUME NEW q \in Seq(Int), NEW a \in Nat, NEW b \in Nat, Holds(q, a, b),
           \A j \in 1 .. Len(q) : q[j] <= 0
    PROVE  a = b
<1> SUFFICES ASSUME a < b PROVE FALSE
  BY DEF Holds, Units
<1>1. b \in a + 1 .. b  OBVIOUS
<1>2. PICK i \in 1 .. Len(q) : q[i] = b  BY <1>1 DEF Holds, Units
<1> QED  BY <1>2

(* Appending keeps the FIN last if there was none or no data is appended. *)
LEMMA FinAppend ==
    ASSUME NEW q \in Seq(Int), NEW m \in Int
    PROVE  /\ HasFin(Append(q, m)) => HasFin(q) \/ m = Fin
           /\ FinLast(q) /\ (m <= 0 \/ ~HasFin(q)) => FinLast(Append(q, m))
<1> DEFINE r == Append(q, m)
<1>1. /\ Len(q) \in Nat /\ Len(r) = Len(q) + 1 /\ r[Len(q) + 1] = m
      /\ \A i \in 1 .. Len(q) : r[i] = q[i]
  OBVIOUS
<1> HIDE DEF r
<1>2. HasFin(r) => HasFin(q) \/ m = Fin
  BY <1>1 DEF HasFin
<1>3. FinLast(q) /\ (m <= 0 \/ ~HasFin(q)) => FinLast(r)
  BY <1>1, SMTT(20) DEF HasFin, FinLast
<1> QED  BY <1>2, <1>3 DEF r

(* A suffix of a queue keeps the FIN last. *)
LEMMA FinSuffix ==
    ASSUME NEW q \in Seq(Int), NEW k \in 1 .. Len(q)
    PROVE  /\ HasFin(SubSeq(q, k + 1, Len(q))) => HasFin(q)
           /\ FinLast(q) => FinLast(SubSeq(q, k + 1, Len(q)))
<1> DEFINE r == SubSeq(q, k + 1, Len(q))
           n == Len(q)
<1>1. /\ n \in Nat /\ k \in 1 .. n /\ Len(r) = n - k
      /\ \A i \in 1 .. n - k : r[i] = q[i + k]
  BY SuffixFacts, Zenon
<1> HIDE DEF r, n
<1>2. \A i \in 1 .. n - k : i + k \in 1 .. n
  BY <1>1
<1>3. HasFin(r) => HasFin(q)
  BY <1>1, <1>2, Zenon DEF HasFin, n
<1>4. ASSUME FinLast(q) PROVE FinLast(r)
  <2> SUFFICES ASSUME NEW i \in 1 .. n - k, NEW j \in 1 .. n - k, i < j, r[i] = Fin
               PROVE  r[j] <= 0
    BY <1>1 DEF FinLast
  <2>1. r[i] = q[i + k] /\ r[j] = q[j + k]
    BY <1>1, ZenonT(30)
  <2>2. i + k \in 1 .. Len(q) /\ j + k \in 1 .. Len(q)
    BY <1>2 DEF n
  <2>3. i + k < j + k
    BY <1>1
  <2> QED  BY <2>1, <2>2, <2>3, <1>4 DEF FinLast
<1> QED  BY <1>3, <1>4 DEF r

(* Behind an end of stream that comes last there is no unit. *)
LEMMA FinHead ==
    ASSUME NEW q \in Seq(Int), NEW a \in Nat, NEW b \in Nat, Holds(q, a, b), FinLast(q),
           NEW k \in 1 .. Len(q), \A j \in 1 .. k - 1 : q[j] = Keepalive, q[k] = Fin
    PROVE  a = b
<1>1. \A j \in 1 .. Len(q) : q[j] <= 0
  BY SMTT(20) DEF FinLast, Fin, Keepalive
<1> QED  BY <1>1, HoldsNone

-----------------------------------------------------------------------------
(* The steps of one direction. *)

(* What the lemmas about streams need of the types of an end. *)
Typed(x) ==
    /\ x.out \in Seq(Int) /\ x.inq \in Seq(Int) /\ x.got \in Seq(Nat)
    /\ x.read \in Nat /\ x.held \in Nat /\ x.unacked \in Nat /\ x.beats \in Nat
    /\ x.kcpRead \in KcpRead
    /\ x.active \in BOOLEAN /\ x.finSent \in BOOLEAN /\ x.peerFin \in BOOLEAN

(* Both kinds of end have it. *)
LEMMA EndTyped == \A x : x \in ServerEnd \/ x \in ClientEnd => Typed(x)
BY DEF ServerEnd, ClientEnd, Typed

(* Taken counts the unit in hand. *)
LEMMA TakenFacts ==
    ASSUME NEW y, Typed(y)
    PROVE  /\ Len(y.got) \in Nat /\ Taken(y) \in Nat
           /\ y.kcpRead \in {"data", "writing"} => Taken(y) = Len(y.got) + 1
           /\ y.kcpRead \notin {"data", "writing"} => Taken(y) = Len(y.got)
<1>1. Len(y.got) \in Nat
  BY DEF Typed
<1>2. CASE y.kcpRead \in {"data", "writing"}
  BY <1>1, <1>2 DEF Taken
<1>3. CASE y.kcpRead \notin {"data", "writing"}
  BY <1>1, <1>3 DEF Taken
<1> QED  BY <1>2, <1>3

(* The handler leaves what x sends alone, though x may have stopped. *)
SameSending(x, x1) ==
    /\ x1.out = x.out /\ x1.read = x.read /\ x1.finSent = x.finSent
    /\ x1.active => x.active

(* The handler leaves what y has received alone. *)
SameReceiving(y, y1) ==
    /\ y1.inq = y.inq /\ y1.got = y.got /\ y1.peerFin = y.peerFin /\ y1.held = y.held
    /\ y1.kcpRead \in {"data", "writing"} <=> y.kcpRead \in {"data", "writing"}

(* A step that touches neither queue nor history of a direction keeps it, and  *)
(* a weaker claim about it follows.                                            *)
LEMMA FlowSame ==
    ASSUME NEW x, NEW y, NEW e, NEW l, Flow(x, y, e, l), Typed(x), Typed(y),
           NEW x1, NEW y1, NEW e1, NEW l1, Typed(x1), Typed(y1),
           SameSending(x, x1), SameReceiving(y, y1), e1 => e, l => l1
    PROVE  Flow(x1, y1, e1, l1)
<1>1. Taken(y1) = Taken(y)
  BY Zenon DEF Taken, SameReceiving
<1>2. ASSUME NEW p, NEW m, Between(x, y, e, p, m) PROVE Between(x1, y1, e1, p, m)
  BY <1>1, <1>2 DEF Between, SameSending, SameReceiving
<1>3. Stream(x, y, e) => Stream(x1, y1, e1)
  BY <1>2 DEF Stream, SameSending
<1> QED  BY <1>3 DEF Flow, SameSending, SameReceiving

(* x reads one more unit from TCP and queues it, unless it has stopped. *)
LEMMA FlowData ==
    ASSUME NEW x, NEW y, NEW e, NEW l, Flow(x, y, e, l), ~e, Typed(x), Typed(y),
           NEW x1, NEW e1, ~e1, Typed(x1), x1.read = x.read + 1, x1.finSent = x.finSent,
           x1.active = x.active,
           x.active => x1.out = Append(x.out, x1.read),
           ~x.active => x1.out = x.out
    PROVE  Flow(x1, y, e1, l)
<1>1. ASSUME Stream(x, y, e) PROVE Stream(x1, y, e1)
  <2>1. PICK p \in 0 .. x.read, m \in 0 .. x.read : Between(x, y, e, p, m)
    BY <1>1 DEF Stream
  <2>0. x.read \in Nat /\ x1.read \in Nat /\ x.out \in Seq(Int)
    BY DEF Typed
  <2>2. /\ p \in Nat /\ m \in Nat /\ x1.read \in 0 .. x1.read
        /\ p \in 0 .. x1.read /\ m \in 0 .. x1.read
    BY <2>0
  <2>3. CASE x.active
    <3>1. m = x.read /\ Holds(x.out, p, m)
      BY <2>1, <2>3 DEF Between
    <3>2. Holds(x1.out, p, x1.read)
      BY <2>0, <2>2, <2>3, <3>1, HoldsData, Zenon
    <3>3. HasFin(x1.out) => HasFin(x.out)
      <4>1. x1.read \in Int /\ x1.read # Fin /\ x1.out = Append(x.out, x1.read)
        BY <2>0, <2>3 DEF Fin
      <4> QED  BY <2>0, <4>1, FinAppend, Zenon
    <3>4. Between(x1, y, e1, p, x1.read)
      BY <2>1, <3>2, <3>3 DEF Between
    <3> QED  BY <2>2, <3>4 DEF Stream
  <2>4. CASE ~x.active
    <3>1. Between(x1, y, e1, p, m)
      BY <2>1, <2>4 DEF Between
    <3> QED  BY <2>2, <3>1 DEF Stream
  <2> QED  BY <2>3, <2>4
<1> QED  BY <1>1 DEF Flow

(* A running x queues its end of stream behind its data. *)
LEMMA FlowFin ==
    ASSUME NEW x, NEW y, NEW e, NEW l, Flow(x, y, e, l), Typed(x), Typed(y),
           x.active, ~x.finSent,
           NEW x1, NEW e1, Typed(x1), x1.read = x.read, x1.finSent = TRUE,
           x1.out = Append(x.out, Fin), x1.active => x.active
    PROVE  Flow(x1, y, e1, l)
<1>1. ASSUME Stream(x, y, e) PROVE Stream(x1, y, e1)
  <2>1. PICK p \in 0 .. x.read, m \in 0 .. x.read : Between(x, y, e, p, m)
    BY <1>1 DEF Stream
  <2>2. p \in Nat /\ m \in Nat /\ p \in 0 .. x1.read /\ m \in 0 .. x1.read
    BY DEF Typed
  <2>3. m = x.read /\ Holds(x.out, p, m) /\ ~HasFin(x.out) /\ ~HasFin(y.inq)
    BY <2>1 DEF Between
  <2>4. Holds(x1.out, p, m)
    BY <2>2, <2>3, HoldsControl DEF Typed
  <2>5. FinLast(x.out) /\ FinLast(y.inq)
    BY <2>3, ZenonT(30) DEF FinLast, HasFin
  <2>6. FinLast(x1.out)
    BY <2>5, FinAppend DEF Typed, Fin
  <2>7. Between(x1, y, e1, p, m)
    BY <2>1, <2>3, <2>4, <2>5, <2>6 DEF Between
  <2> QED  BY <2>2, <2>7 DEF Stream
<1> QED  BY <1>1 DEF Flow

(* A heartbeat is queued. *)
LEMMA FlowBeat ==
    ASSUME NEW x, NEW y, NEW e, NEW l, Flow(x, y, e, l), Typed(x), Typed(y),
           NEW x1, Typed(x1), x1.read = x.read, x1.finSent = x.finSent,
           x1.out = Append(x.out, Keepalive), x1.active = x.active
    PROVE  Flow(x1, y, e, l)
<1>1. ASSUME Stream(x, y, e) PROVE Stream(x1, y, e)
  <2>1. PICK p \in 0 .. x.read, m \in 0 .. x.read : Between(x, y, e, p, m)
    BY <1>1 DEF Stream
  <2>2. p \in Nat /\ m \in Nat /\ p \in 0 .. x1.read /\ m \in 0 .. x1.read
    BY DEF Typed
  <2>3. Holds(x1.out, p, m)
    BY <2>1, <2>2, HoldsControl, SMTT(20) DEF Typed, Between
  <2>4. /\ HasFin(x1.out) => HasFin(x.out)
        /\ FinLast(x.out) => FinLast(x1.out)
    <3>1. x.out \in Seq(Int) /\ Keepalive \in Int /\ Keepalive # Fin /\ Keepalive <= 0
      BY DEF Typed, Fin, Keepalive
    <3> QED  BY <3>1, FinAppend, ZenonT(30)
  <2>5. Between(x1, y, e, p, m)
    BY <2>1, <2>3, <2>4 DEF Between
  <2> QED  BY <2>2, <2>5 DEF Stream
<1> QED  BY <1>1 DEF Flow

(* KCP delivers the first message of x's queue to y. *)
LEMMA FlowArrive ==
    ASSUME NEW x, NEW y, NEW e, NEW l, Flow(x, y, e, l), Typed(x), Typed(y), x.out # <<>>,
           NEW x1, NEW y1, Typed(x1), Typed(y1),
           x1.read = x.read, x1.finSent = x.finSent, x1.active = x.active,
           x1.out = Tail(x.out), y1.inq = Append(y.inq, Head(x.out)),
           y1.got = y.got, y1.peerFin = y.peerFin, y1.held = y.held, y1.kcpRead = y.kcpRead
    PROVE  Flow(x1, y1, e, l)
<1>1. ASSUME Stream(x, y, e) PROVE Stream(x1, y1, e)
  <2>1. PICK p \in 0 .. x.read, m \in 0 .. x.read : Between(x, y, e, p, m)
    BY <1>1 DEF Stream
  <2> DEFINE q == x.out
             h == x.out[1]
             t == Taken(y)
  <2>0. x.out \in Seq(Int) /\ y.inq \in Seq(Int) /\ x.read \in Nat
    BY DEF Typed
  <2>2. p \in Nat /\ m \in Nat /\ t \in Nat
    <3>1. t \in Nat  BY TakenFacts
    <3> QED  BY <2>0, <3>1
  <2>3. /\ q \in Seq(Int) /\ 1 \in 1 .. Len(q) /\ h \in Int
        /\ Tail(q) = SubSeq(q, 1 + 1, Len(q)) /\ Head(q) = h
    BY <2>0, HeadTail
  <2>4. /\ Holds(y.inq, t, p) /\ Holds(q, p, m)
        /\ x.active \/ e => m = x.read
        /\ HasFin(y.inq) \/ HasFin(q) => x.finSent
        /\ e => FinLast(y.inq) /\ FinLast(q) /\ (HasFin(y.inq) => p = m)
        /\ y.kcpRead \in {"data", "writing"} => y.held = Len(y.got) + 1
        /\ Firsts(y.inq)
    BY <2>1 DEF Between
  <2>5. x1.out = SubSeq(q, 1 + 1, Len(q)) /\ y1.inq = Append(y.inq, h) /\ Taken(y1) = t
    BY <2>3 DEF Taken
  <2> HIDE DEF q, h, t
  <2>6. /\ h = Fin \/ h = Keepalive => Holds(x1.out, p, m)
        /\ h # Fin /\ h # Keepalive => h = p + 1 /\ p + 1 <= m /\ Holds(x1.out, p + 1, m)
    <3>1. \A j \in 1 .. 1 - 1 : q[j] = Keepalive
      OBVIOUS
    <3>2. Holds(q, p, m)
      BY <2>4
    <3>3. /\ q[1] = Fin \/ q[1] = Keepalive => Holds(SubSeq(q, 1 + 1, Len(q)), p, m)
          /\ q[1] # Fin /\ q[1] # Keepalive =>
                q[1] = p + 1 /\ p + 1 <= m /\ Holds(SubSeq(q, 1 + 1, Len(q)), p + 1, m)
      BY <2>2, <2>3, <3>1, <3>2, HoldsSuffix
    <3>4. h = q[1]
      BY DEF h, q
    <3> QED  BY <2>5, <3>3, <3>4, Zenon
  <2>7. /\ HasFin(x1.out) => HasFin(q)
        /\ FinLast(q) => FinLast(x1.out)
        /\ h = Fin => HasFin(q)
    BY <2>3, <2>5, FinSuffix, Zenon DEF HasFin, h, q
  <2>8. /\ HasFin(y1.inq) => HasFin(y.inq) \/ h = Fin
        /\ FinLast(y.inq) /\ (h <= 0 \/ ~HasFin(y.inq)) => FinLast(y1.inq)
    BY <2>0, <2>3, <2>5, FinAppend, ZenonT(30)
  <2>11. Firsts(y1.inq)
    BY <2>0, <2>3, <2>4, <2>5, FirstsAppend, Zenon
  <2>9. CASE h = Fin \/ h = Keepalive
    <3>1. Holds(y1.inq, t, p)
      BY <2>2, <2>4, <2>5, <2>9, HoldsControl, SMTT(20) DEF Typed
    <3>2. e /\ h = Fin => p = m
      BY <2>2, <2>3, <2>4, FinHead, SMTT(20) DEF h, q
    <3>3. h <= 0
      BY <2>9 DEF Fin, Keepalive
    <3>4. Between(x1, y1, e, p, m)
      BY <2>4, <2>5, <2>6, <2>7, <2>8, <2>9, <2>11, <3>1, <3>2, <3>3, ZenonT(30) DEF Between, q
    <3> QED  BY <3>4 DEF Stream
  <2>10. CASE h # Fin /\ h # Keepalive
    <3>1. h = p + 1 /\ p + 1 <= m /\ Holds(x1.out, p + 1, m) /\ p + 1 \in 0 .. x.read
      BY <2>0, <2>2, <2>6, <2>10, SMTT(20)
    <3>2. Holds(y1.inq, t, p + 1)
      BY <2>2, <2>4, <2>5, <3>1, HoldsData, SMTT(20) DEF Typed
    <3>3. e => ~HasFin(y.inq)
      BY <2>2, <2>4, <3>1
    <3>4. Between(x1, y1, e, p + 1, m)
      BY <2>4, <2>5, <2>7, <2>8, <2>10, <2>11, <3>1, <3>2, <3>3, ZenonT(30) DEF Between, q
    <3> QED  BY <3>1, <3>4 DEF Stream
  <2> QED  BY <2>9, <2>10
<1> QED  BY <1>1 DEF Flow

(* The unit y was writing to TCP is written. *)
LEMMA FlowWritten ==
    ASSUME NEW x, NEW y, NEW e, NEW l, Flow(x, y, e, l), ~l, Typed(x), Typed(y),
           y.kcpRead = "writing",
           NEW y1, Typed(y1), y1.inq = y.inq, y1.got = Append(y.got, y.held),
           y1.peerFin = y.peerFin, y1.kcpRead \notin {"data", "writing"}
    PROVE  Flow(x, y1, e, l)
<1>1. PICK p \in 0 .. x.read, m \in 0 .. x.read : Between(x, y, e, p, m)
  BY DEF Flow, Stream
<1>2. y.held = Len(y.got) + 1 /\ Len(y.got) \in Nat /\ Taken(y) = y.held
  BY <1>1, TakenFacts DEF Between
<1>3. /\ Len(y1.got) = Len(y.got) + 1 /\ y1.got[Len(y.got) + 1] = y.held
      /\ \A i \in 1 .. Len(y.got) : y1.got[i] = y.got[i]
  <2>1. y.got \in Seq(Nat) /\ y.held \in Nat
    BY DEF Typed
  <2> QED  BY <2>1
<1>4. \A i \in 1 .. Len(y1.got) : y1.got[i] = i
  BY <1>2, <1>3 DEF Flow
<1>5. Taken(y1) = Taken(y)
  BY <1>2, <1>3, TakenFacts, ZenonT(30)
<1>6. Between(x, y1, e, p, m)
  BY <1>1, <1>5, ZenonT(30) DEF Between
<1>7. ~(e /\ y1.peerFin)
  <2> SUFFICES ASSUME e, y1.peerFin PROVE FALSE
    OBVIOUS
  <2>1. Len(y.got) = x.read  BY ZenonT(30) DEF Flow
  <2>2. Len(y.got) + 1 <= p  BY <1>1, <1>2 DEF Between, Holds, Units
  <2> QED  BY <1>1, <1>2, <2>1, <2>2 DEF Typed
<1> QED  BY <1>4, <1>6, <1>7, ZenonT(30) DEF Flow, Stream

(* y gives up reading. *)
LEMMA FlowLost ==
    ASSUME NEW x, NEW y, NEW e, NEW l, Flow(x, y, e, l),
           NEW y1, NEW l1, l1, y1.got = y.got, y1.peerFin = y.peerFin
    PROVE  Flow(x, y1, e, l1)
BY DEF Flow

(* While y reads there is a first message to complete the read with. *)
LEMMA FlowFirsts ==
    ASSUME NEW x, NEW y, NEW e, NEW l, Flow(x, y, e, l), ~l
    PROVE  Firsts(y.inq)
BY DEF Flow, Stream, Between

(* What completing a read may do to y. *)
Took(y, y1) ==
    \/ y.kcpRead # "pending" /\ y1 = y
    \/ /\ y.kcpRead = "pending" /\ \A i \in 1 .. Len(y.inq) : y.inq[i] = Keepalive
       /\ y1.inq = <<>> /\ y1.kcpRead = "pending" /\ y1.peerFin = y.peerFin /\ y1.held = y.held
    \/ /\ y.kcpRead = "pending"
       /\ \E k \in 1 .. Len(y.inq) :
             /\ \A j \in 1 .. k - 1 : y.inq[j] = Keepalive
             /\ y.inq[k] # Keepalive
             /\ y1.inq = SubSeq(y.inq, k + 1, Len(y.inq))
             /\ \/ /\ y.inq[k] = Fin /\ y1.peerFin = TRUE /\ y1.kcpRead = "eof"
                   /\ y1.held = y.held
                \/ /\ y.inq[k] # Fin /\ y1.peerFin = y.peerFin /\ y1.kcpRead = "data"
                   /\ y1.held = y.inq[k]

(* Completing a read takes the next unit, or the FIN when nothing is left. *)
LEMMA FlowTook ==
    ASSUME NEW x, NEW y, NEW e, NEW l, Flow(x, y, e, l), Typed(x), Typed(y),
           y.kcpRead = "pending" => ~l,
           NEW y1, y1.got = y.got, Took(y, y1)
    PROVE  /\ Flow(x, y1, e, l)
           /\ y1.inq \in Seq(Int) /\ y1.held \in Nat
<1>1. CASE y.kcpRead # "pending"
  BY <1>1 DEF Took, Typed
<1>2. CASE y.kcpRead = "pending"
  <2>1. PICK p \in 0 .. x.read, m \in 0 .. x.read : Between(x, y, e, p, m)
    BY <1>2 DEF Flow, Stream
  <2> DEFINE q == y.inq
             g == Len(y.got)
  <2>2. x.read \in Nat /\ q \in Seq(Int) /\ y.held \in Nat
    BY DEF Typed
  <2>3. g \in Nat /\ Taken(y) = g
    BY <1>2, TakenFacts
  <2>4. p \in Nat /\ m \in Nat
    BY <2>2, SMTT(20)
  <2>5. /\ Holds(q, g, p) /\ Holds(x.out, p, m)
        /\ x.active \/ e => m = x.read
        /\ HasFin(q) \/ HasFin(x.out) => x.finSent
        /\ e => FinLast(q) /\ FinLast(x.out) /\ (HasFin(q) => p = m)
        /\ Firsts(q)
    BY <2>1, <2>3, ZenonT(30) DEF Between
  <2>6. /\ \A i \in 1 .. Len(y1.got) : y1.got[i] = i
        /\ y.peerFin => x.finSent
        /\ e /\ y.peerFin => Len(y1.got) = x.read
        /\ Len(y1.got) = g
    BY DEF Flow
  <2> HIDE DEF q, g
  <2>7. CASE /\ \A i \in 1 .. Len(q) : q[i] = Keepalive
             /\ y1.inq = <<>> /\ y1.kcpRead = "pending" /\ y1.peerFin = y.peerFin
             /\ y1.held = y.held
    <3>1. g = p
      <4>1. Holds(q, g, p)  BY <2>5
      <4>2. \A j \in 1 .. Len(q) : q[j] <= 0  BY <2>7 DEF Keepalive
      <4> QED  BY <2>2, <2>3, <2>4, <4>1, <4>2, HoldsNone, ZenonT(30)
    <3>2. Taken(y1) = g
      BY <2>3, <2>6, <2>7 DEF Taken
    <3>3. Holds(y1.inq, Taken(y1), p)
      BY <2>3, <2>7, <3>1, <3>2, HoldsEmpty
    <3>4. ~HasFin(y1.inq) /\ FinLast(y1.inq) /\ Firsts(y1.inq)
      BY <2>7, SMTT(20) DEF HasFin, FinLast, Firsts
    <3>5. Between(x, y1, e, p, m)
      BY <2>5, <2>7, <3>3, <3>4 DEF Between
    <3>6. y1.inq \in Seq(Int) /\ y1.held \in Nat
      BY <2>2, <2>7
    <3> QED  BY <2>6, <2>7, <3>5, <3>6 DEF Flow, Stream
  <2>8. ASSUME NEW k \in 1 .. Len(q), \A j \in 1 .. k - 1 : q[j] = Keepalive,
               q[k] # Keepalive, y1.inq = SubSeq(q, k + 1, Len(q)),
               \/ /\ q[k] = Fin /\ y1.peerFin = TRUE /\ y1.kcpRead = "eof"
                  /\ y1.held = y.held
               \/ /\ q[k] # Fin /\ y1.peerFin = y.peerFin /\ y1.kcpRead = "data"
                  /\ y1.held = q[k]
        PROVE  Flow(x, y1, e, l) /\ y1.inq \in Seq(Int) /\ y1.held \in Nat
    <3>1. /\ q[k] = Fin => Holds(y1.inq, g, p)
          /\ q[k] # Fin => q[k] = g + 1 /\ g + 1 <= p /\ Holds(y1.inq, g + 1, p)
      <4>1. Holds(q, g, p)  BY <2>5
      <4>2. \A j \in 1 .. k - 1 : q[j] = Keepalive  BY <2>8
      <4>3. /\ q[k] = Fin \/ q[k] = Keepalive => Holds(SubSeq(q, k + 1, Len(q)), g, p)
            /\ q[k] # Fin /\ q[k] # Keepalive =>
                  q[k] = g + 1 /\ g + 1 <= p /\ Holds(SubSeq(q, k + 1, Len(q)), g + 1, p)
        BY <2>2, <2>3, <2>4, <4>1, <4>2, HoldsSuffix, SMTT(20)
      <4> QED  BY <2>8, <4>3
    <3>2. /\ HasFin(y1.inq) => HasFin(q)
          /\ FinLast(q) => FinLast(y1.inq)
      BY <2>2, <2>8, FinSuffix, SMTT(20)
    <3>3. y1.inq \in Seq(Int) /\ Firsts(y1.inq)
      BY <2>2, <2>5, <2>8, SuffixFacts, FirstsSuffix, ZenonT(30)
    <3>4. CASE q[k] = Fin
      <4>1. HasFin(q)  BY <2>8, <3>4, ZenonT(30) DEF HasFin
      <4>2. e => g = p
        <5>1. Holds(q, g, p)  BY <2>5
        <5> QED  BY <2>2, <2>3, <2>4, <2>5, <2>8, <3>4, <5>1, FinHead, ZenonT(30)
      <4>3. Taken(y1) = g /\ y1.peerFin = TRUE /\ y1.kcpRead = "eof" /\ y1.held = y.held
        BY <2>3, <2>6, <2>8, <3>4, SMTT(20) DEF Taken
      <4>4. Between(x, y1, e, p, m)
        BY <2>5, <3>1, <3>2, <3>3, <3>4, <4>1, <4>3, ZenonT(30) DEF Between
      <4>5. x.finSent /\ (e => g = x.read)
        BY <2>5, <4>1, <4>2, ZenonT(30)
      <4>6. Stream(x, y1, e)
        BY <4>4 DEF Stream
      <4> QED  BY <2>2, <2>6, <3>3, <4>3, <4>5, <4>6, ZenonT(30) DEF Flow
    <3>5. CASE q[k] # Fin
      <4>1. q[k] = g + 1 /\ Holds(y1.inq, g + 1, p)
        BY <3>1, <3>5
      <4>2. y1.peerFin = y.peerFin /\ y1.kcpRead = "data" /\ y1.held = g + 1
        BY <2>8, <3>5, <4>1
      <4>3. Taken(y1) = g + 1
        BY <2>6, <4>2, ZenonT(30) DEF Taken
      <4>4. Between(x, y1, e, p, m)
        BY <2>5, <2>6, <3>2, <3>3, <4>1, <4>2, <4>3, ZenonT(30) DEF Between
      <4>5. y1.held \in Nat
        BY <2>3, <4>2
      <4>6. Stream(x, y1, e)
        BY <4>4 DEF Stream
      <4> QED  BY <2>6, <3>3, <4>2, <4>5, <4>6 DEF Flow
    <3> QED  BY <3>4, <3>5, ZenonT(30)
  <2>9. \/ /\ \A i \in 1 .. Len(q) : q[i] = Keepalive
           /\ y1.inq = <<>> /\ y1.kcpRead = "pending" /\ y1.peerFin = y.peerFin
           /\ y1.held = y.held
        \/ \E k \in 1 .. Len(q) :
             /\ \A j \in 1 .. k - 1 : q[j] = Keepalive
             /\ q[k] # Keepalive
             /\ y1.inq = SubSeq(q, k + 1, Len(q))
             /\ \/ /\ q[k] = Fin /\ y1.peerFin = TRUE /\ y1.kcpRead = "eof"
                   /\ y1.held = y.held
                \/ /\ q[k] # Fin /\ y1.peerFin = y.peerFin /\ y1.kcpRead = "data"
                   /\ y1.held = q[k]
    BY <1>2, Zenon DEF Took, q
  <2> QED  BY <2>7, <2>8, <2>9, ZenonT(30)
<1> QED  BY <1>1, <1>2, ZenonT(30)

-----------------------------------------------------------------------------
(* Completing a read. *)

(* A read completes with the first message that is no heartbeat. *)
LEMMA TryFulfillReadCases ==
    ASSUME NEW x, x.inq \in Seq(Int), x.kcpRead = "pending", Firsts(x.inq)
    PROVE  \/ /\ \A i \in 1 .. Len(x.inq) : x.inq[i] = Keepalive
              /\ TryFulfillRead(x) = [x EXCEPT !.inq = <<>>]
           \/ \E k \in 1 .. Len(x.inq) :
                 /\ \A j \in 1 .. k - 1 : x.inq[j] = Keepalive
                 /\ x.inq[k] # Keepalive
                 /\ LET y == [x EXCEPT !.inq = SubSeq(@, k + 1, Len(@))]
                    IN  \/ /\ x.inq[k] = Fin
                           /\ TryFulfillRead(x)
                                = [y EXCEPT !.peerFin = TRUE, !.kcpRead = "eof"]
                        \/ /\ x.inq[k] # Fin
                           /\ TryFulfillRead(x)
                                = [y EXCEPT !.held = x.inq[k], !.kcpRead = "data"]
<1> DEFINE others == {i \in 1 .. Len(x.inq) : x.inq[i] # Keepalive}
           first == CHOOSE i \in others : \A j \in others : i <= j
           y == [x EXCEPT !.inq = SubSeq(@, first + 1, Len(@))]
<1>1. TryFulfillRead(x) =
          IF others = {} THEN [x EXCEPT !.inq = <<>>]
          ELSE IF x.inq[first] = Fin THEN [y EXCEPT !.peerFin = TRUE, !.kcpRead = "eof"]
          ELSE [y EXCEPT !.held = x.inq[first], !.kcpRead = "data"]
  BY DEF TryFulfillRead
<1>2. CASE others = {}
  <2>1. \A i \in 1 .. Len(x.inq) : x.inq[i] = Keepalive
    BY <1>2
  <2> QED  BY <1>1, <1>2, <2>1, Zenon
<1>3. CASE others # {}
  <2>0. Len(x.inq) \in Nat
    OBVIOUS
  <2>1. PICK i \in 1 .. Len(x.inq) :
            x.inq[i] # Keepalive /\ \A j \in 1 .. i - 1 : x.inq[j] = Keepalive
    <3>1. 0 \in 0 .. Len(x.inq) /\ \E i \in 0 + 1 .. Len(x.inq) : x.inq[i] # Keepalive
      BY <1>3, <2>0
    <3>2. \E i \in 0 + 1 .. Len(x.inq) :
              x.inq[i] # Keepalive /\ \A j \in 0 + 1 .. i - 1 : x.inq[j] = Keepalive
      BY <3>1, Zenon DEF Firsts
    <3> QED  BY <3>2
  <2>2. \E k \in others : \A j \in others : k <= j
    <3>1. i \in others
      BY <2>1
    <3>2. ASSUME NEW j \in others PROVE i <= j
      BY <2>0, <2>1
    <3> QED  BY <3>1, <3>2
  <2> HIDE DEF others
  <2>3. first \in others /\ \A j \in others : first <= j
    BY <2>2
  <2> HIDE DEF first
  <2>4. first \in 1 .. Len(x.inq) /\ x.inq[first] # Keepalive
    BY <2>3 DEF others
  <2>5. \A j \in 1 .. first - 1 : x.inq[j] = Keepalive
    BY <2>3, <2>4, SMTT(20) DEF others
  <2>6. \/ /\ x.inq[first] = Fin
           /\ TryFulfillRead(x) = [y EXCEPT !.peerFin = TRUE, !.kcpRead = "eof"]
        \/ /\ x.inq[first] # Fin
           /\ TryFulfillRead(x) = [y EXCEPT !.held = x.inq[first], !.kcpRead = "data"]
    BY <1>1, <1>3
  <2> QED  BY <2>4, <2>5, <2>6, Zenon
<1> QED  BY <1>2, <1>3, Zenon

-----------------------------------------------------------------------------
(* Handlers that move no data, and the limits. *)

(* A handler that moves no data: it may park, stop or close. *)
Quiet(x, r) ==
    /\ SameSending(x, r) /\ SameReceiving(x, r)
    /\ r.unacked = x.unacked /\ r.beats = x.beats
    /\ r.tcpRead = "armed" => x.tcpRead = "armed" \/ WaitSend(r) < Threshold
    /\ r.kcpRead = "idle" <=> x.kcpRead = "idle"

(* The same on the server. *)
ServerQuiet(s, r) ==
    Quiet(s, r) /\ r.targetClosed = s.targetClosed /\ r.targetEnded = s.targetEnded

(* Quiet handlers compose. *)
LEMMA QuietTransitive ==
    ASSUME NEW x, NEW r, NEW z, Quiet(x, r), Quiet(r, z)
    PROVE  Quiet(x, z)
BY DEF Quiet, SameSending, SameReceiving, WaitSend

(* A quiet handler keeps the bound on the send queue. *)
LEMMA QuietThrottled ==
    ASSUME NEW x, NEW r, Typed(x), Quiet(x, r), Throttled(x)
    PROVE  Throttled(r)
<1>1. WaitSend(r) = WaitSend(x) /\ Extra(r) = Extra(x)
  BY DEF Quiet, SameSending, WaitSend, Extra
<1>2. WaitSend(x) \in Nat /\ Extra(x) \in Nat
  BY SMTT(20) DEF Typed, WaitSend, Extra
<1>3. r.tcpRead = "armed" => x.tcpRead = "armed" \/ WaitSend(r) < Threshold
  BY DEF Quiet
<1> HIDE DEF Throttled
<1>4. WaitSend(x) < Threshold => WaitSend(x) <= Threshold - 1 + Extra(x)
  BY <1>2, TunnelAssumption
<1> QED  BY <1>1, <1>3, <1>4 DEF Throttled

(* After the watermark is looked at, the queue is throttled again. *)
LEMMA ForwardedThrottled ==
    ASSUME NEW x, NEW r, Typed(x), Quiet(x, r), WaitSend(x) <= Threshold + Extra(x),
           r.tcpRead = "armed" => WaitSend(r) < Threshold
    PROVE  Throttled(r)
<1>1. WaitSend(r) = WaitSend(x) /\ Extra(r) = Extra(x)
  BY DEF Quiet, SameSending, WaitSend, Extra
<1>2. WaitSend(x) \in Nat /\ Extra(x) \in Nat
  BY SMTT(20) DEF Typed, WaitSend, Extra
<1>3. WaitSend(x) < Threshold => WaitSend(x) <= Threshold - 1 + Extra(x)
  BY <1>2, TunnelAssumption
<1> QED  BY <1>1, <1>3 DEF Throttled

(* Doing nothing is quiet. *)
LEMMA QuietReflexive == \A x : Quiet(x, x) /\ ServerQuiet(x, x)
BY DEF ServerQuiet, Quiet, SameSending, SameReceiving

(* The bound depends on the queue and the TCP read only. *)
LEMMA SameQueueThrottled ==
    ASSUME NEW x, NEW r, Throttled(x), r.out = x.out, r.unacked = x.unacked,
           r.finSent = x.finSent, r.beats = x.beats, r.tcpRead = x.tcpRead
    PROVE  Throttled(r)
BY DEF Throttled, WaitSend, Extra

(* One message less waits for an acknowledgement. *)
LEMMA AckThrottled ==
    ASSUME NEW x, NEW r, Throttled(x), Typed(x), NEW n \in Nat, n <= x.unacked,
           r.out = x.out, r.unacked = n, r.finSent = x.finSent, r.beats = x.beats,
           r.tcpRead = x.tcpRead
    PROVE  Throttled(r)
<1> DEFINE k == Len(x.out)
<1>1. k \in Nat
  BY DEF Typed
<1>2. x.unacked \in Nat /\ x.beats \in Nat
  BY DEF Typed
<1>3. WaitSend(x) = k + x.unacked /\ WaitSend(r) = k + n /\ Extra(r) = Extra(x)
  BY DEF WaitSend, Extra
<1>4. Extra(x) \in Nat
  BY <1>2 DEF Extra
<1> HIDE DEF k
<1> QED  BY <1>1, <1>2, <1>3, <1>4, TunnelAssumption DEF Throttled

(* One more message that the allowance covers. *)
LEMMA QueueThrottled ==
    ASSUME NEW x, NEW r, NEW m, Typed(x), Typed(r), Throttled(x), m \in Int,
           r.out = Append(x.out, m), r.unacked = x.unacked, Extra(r) = Extra(x) + 1,
           r.tcpRead = "armed" => x.tcpRead = "armed"
    PROVE  Throttled(r)
<1>1. x.out \in Seq(Int) /\ x.unacked \in Nat
  BY DEF Typed
<1>2. Len(r.out) = Len(x.out) + 1 /\ Len(x.out) \in Nat
  BY <1>1
<1>3. WaitSend(x) \in Nat /\ WaitSend(r) = WaitSend(x) + 1
  BY <1>1, <1>2, SMTT(20) DEF WaitSend
<1>4. Extra(x) \in Nat
  BY SMTT(20) DEF Extra, Typed
<1> QED  BY <1>3, <1>4, TunnelAssumption, SMTT(20) DEF Throttled

(* The types that Ends gives. *)
LEMMA EndsTyped ==
    ASSUME NEW c, NEW s, NEW lS, NEW lC, Ends(c, s, lS, lC)
    PROVE  /\ c \in ClientEnd /\ s \in ServerEnd /\ ClientInv(c) /\ ServerInv(s)
           /\ Typed(c) /\ Typed(s)
BY EndTyped DEF Ends, ClientInv, ServerInv

(* A quiet handler of the server keeps both streams. *)
LEMMA ServerQuietEnds ==
    ASSUME NEW c, NEW s, NEW lS, NEW lC, Ends(c, s, lS, lC), NEW r, ServerInv(r),
           ServerQuiet(s, r)
    PROVE  Ends(c, r, lS, lC) /\ (ServerLost(s) => ServerLost(r))
<1>1. Typed(c) /\ Typed(s) /\ Typed(r)
  BY EndTyped DEF Ends, ServerInv, ClientInv
<1>2. SameSending(s, r) /\ SameReceiving(s, r) /\ r.beats = s.beats
  BY DEF ServerQuiet, Quiet
<1>3. SameSending(c, c) /\ SameReceiving(c, c)
  BY DEF SameSending, SameReceiving
<1>4. Flow(c, r, c.finSent, lS)
  BY <1>1, <1>2, <1>3, FlowSame DEF Ends
<1>5. ServerEnded(r) => ServerEnded(s)
  BY <1>2 DEF ServerEnded, ServerQuiet, SameSending
<1>6. Flow(r, c, ServerEnded(r), lC)
  BY <1>1, <1>2, <1>3, <1>5, FlowSame, SMTT(20) DEF Ends
<1>7. ServerLost(s) => ServerLost(r)
  BY ZenonT(30) DEF ServerLost, ServerQuiet, Quiet
<1> QED  BY <1>2, <1>4, <1>6, <1>7 DEF Ends

(* A weaker condition for having given up on the server. *)
LEMMA LoseServer ==
    ASSUME NEW c, NEW s, NEW lS, NEW lC, Ends(c, s, lS, lC), NEW l, lS => l
    PROVE  Ends(c, s, l, lC)
BY DEF Ends, Flow

(* Stopping the server session is quiet. *)
LEMMA StopServerQuiet ==
    ASSUME NEW s, ServerInv(s)
    PROVE  ServerInv(StopServer(s)) /\ ServerQuiet(s, StopServer(s))
<1> DEFINE r == StopServer(s)
<1>0. s \in ServerEnd  BY DEF ServerInv
<1>1. CASE ~s.active
  <2>1. r = [s EXCEPT !.claim = FALSE]
    BY <1>1 DEF StopServer, Stop
  <2> HIDE DEF r
  <2>2. ServerInv(r)
    BY <1>0, <1>1, <2>1, ZenonT(30) DEF ServerInv, ServerEnd
  <2>3. ServerQuiet(s, r)
    BY <1>0, <2>1 DEF ServerEnd, ServerQuiet, Quiet, SameSending, SameReceiving
  <2> QED  BY <2>2, <2>3 DEF r
<1>2. CASE s.active
  <2> DEFINE t == IF s.tcpRead = "parked" THEN "off" ELSE s.tcpRead
             k == IF s.kcpRead = "pending" THEN "aborted" ELSE s.kcpRead
  <2>1. r = [s EXCEPT !.tcpRead = t, !.active = FALSE, !.kcpRead = k, !.claim = FALSE]
    BY <1>0, <1>2 DEF StopServer, Stop, UnparkWrite, ServerEnd
  <2>2. t \in TcpRead /\ (t = "armed" => s.tcpRead = "armed") /\ (s.tcpRead = "off" => t = "off")
    BY <1>0 DEF ServerEnd, TcpRead
  <2>3. k \in KcpRead /\ (k = "idle" <=> s.kcpRead = "idle") /\ (k = "eof" <=> s.kcpRead = "eof")
        /\ (k \in {"data", "writing"} <=> s.kcpRead \in {"data", "writing"})
    BY <1>0 DEF ServerEnd, KcpRead
  <2> HIDE DEF r, t, k
  <2>4. ServerInv(r)
    BY <1>0, <2>1, <2>2, <2>3, ZenonT(30) DEF ServerInv, ServerEnd
  <2>5. ServerQuiet(s, r)
    BY <1>0, <2>1, <2>2, <2>3 DEF ServerEnd, ServerQuiet, Quiet, SameSending, SameReceiving
  <2> QED  BY <2>4, <2>5 DEF r
<1> QED  BY <1>0, <1>1, <1>2 DEF ServerEnd

(* A quiet handler as a step of the server. *)
LEMMA ServerQuietStep ==
    ASSUME NEW c, NEW s, NEW lC, Ends(c, s, ServerLost(s), lC), Throttled(s),
           NEW r, ServerInv(r), ServerQuiet(s, r)
    PROVE  Ends(c, r, ServerLost(r), lC) /\ Throttled(r)
<1>1. Typed(s)
  BY EndsTyped
<1>2. Throttled(r)
  BY <1>1, QuietThrottled DEF ServerQuiet
<1>3. Ends(c, r, ServerLost(s), lC) /\ (ServerLost(s) => ServerLost(r))
  BY ServerQuietEnds
<1> QED  BY <1>2, <1>3, LoseServer

(* A step of the server alone. *)
LEMMA ServerStep ==
    ASSUME TunnelInv, UNCHANGED client, link' \in BOOLEAN, faulted' \in BOOLEAN,
           NEW r, server' = r,
           Ends(client, r, ServerLost(r), ClientLost(client)), Throttled(r)
    PROVE  TunnelInv'
BY DEF TunnelInv

(* What a read leaves alone. *)
ServerKeeps(s, r) ==
    /\ r.fin = s.fin /\ r.active = s.active /\ r.sock = s.sock /\ r.tcpRead = s.tcpRead
    /\ r.out = s.out /\ r.unacked = s.unacked /\ r.finSent = s.finSent /\ r.beats = s.beats
    /\ r.read = s.read /\ r.got = s.got /\ r.stacked = s.stacked
    /\ r.targetClosed = s.targetClosed /\ r.targetEnded = s.targetEnded
    /\ r.drainCb = s.drainCb /\ r.claim = s.claim /\ r.inTable = s.inTable

-----------------------------------------------------------------------------
(* The server. *)

(* The actions of the server, and the arrivals at it, keep the invariant: a    *)
(* fact about each helper that moves data, then one about each action.         *)
LEMMA ServerActions ==
    TunnelInv =>
        /\ \A outcome : TargetRead(outcome) => TunnelInv'
        /\ ServerKcpRead => TunnelInv'
        /\ \A ok \in BOOLEAN : TargetWritten(ok) => TunnelInv'
        /\ \A due : ServerTick(due) => TunnelInv'
        /\ ServerSwept => TunnelInv'
        /\ AckToServer => TunnelInv'
        /\ ToServer => TunnelInv'

(* TryFulfillRead on the server takes one message and leaves the rest alone. *)
<1>ServerTook.
    ASSUME NEW s \in ServerEnd, s.kcpRead = "pending" => Firsts(s.inq)
    PROVE  LET r == TryFulfillRead(s)
           IN  /\ Took(s, r) /\ ServerKeeps(s, r)
               /\ r.inq \in Seq(Int) /\ r.held \in Nat => r \in ServerEnd
  <2> USE <1>ServerTook
  <2> DEFINE r == TryFulfillRead(s)
  <2>1. CASE s.kcpRead # "pending"
    <3>1. r = s  BY <2>1 DEF TryFulfillRead
    <3> QED  BY <2>1, <3>1 DEF Took, ServerKeeps
  <2>2. CASE s.kcpRead = "pending"
    <3>1. s.inq \in Seq(Int) /\ Firsts(s.inq)  BY <2>2 DEF ServerEnd
    <3> HIDE DEF r
    <3>2. CASE /\ \A i \in 1 .. Len(s.inq) : s.inq[i] = Keepalive
               /\ r = [s EXCEPT !.inq = <<>>]
      <4>1. r.inq = <<>> /\ r.kcpRead = s.kcpRead /\ r.peerFin = s.peerFin /\ r.held = s.held
        BY <3>2 DEF ServerEnd
      <4>2. ServerKeeps(s, r)  BY <3>2 DEF ServerEnd, ServerKeeps
      <4>3. r \in ServerEnd
        <5> DEFINE q == <<>>
        <5>1. q \in Seq(Int) /\ r = [s EXCEPT !.inq = q]  BY <3>2
        <5> HIDE DEF q
        <5> QED  BY <5>1, ZenonT(30) DEF ServerEnd
      <4> QED  BY <2>2, <3>2, <4>1, <4>2, <4>3 DEF Took, r
    <3>3. ASSUME NEW k \in 1 .. Len(s.inq), NEW y,
                 \A j \in 1 .. k - 1 : s.inq[j] = Keepalive,
                 s.inq[k] # Keepalive,
                 y = [s EXCEPT !.inq = SubSeq(@, k + 1, Len(@))],
                 \/ s.inq[k] = Fin /\ r = [y EXCEPT !.peerFin = TRUE, !.kcpRead = "eof"]
                 \/ s.inq[k] # Fin /\ r = [y EXCEPT !.held = s.inq[k], !.kcpRead = "data"]
          PROVE  Took(s, r) /\ ServerKeeps(s, r)
                 /\ (r.inq \in Seq(Int) /\ r.held \in Nat => r \in ServerEnd)
      <4> DEFINE q == SubSeq(s.inq, k + 1, Len(s.inq))
      <4>0. y = [s EXCEPT !.inq = q]  BY <3>3
      <4>00. q \in Seq(Int)  BY <3>1, SuffixFacts
      <4> HIDE DEF q
      <4>1. y \in ServerEnd /\ y.inq = q /\ ServerKeeps(s, y)
            /\ y.peerFin = s.peerFin /\ y.held = s.held /\ y.kcpRead = s.kcpRead
        BY <4>0, <4>00, ZenonT(30) DEF ServerEnd, ServerKeeps
      <4>2. CASE s.inq[k] = Fin
        <5>1. r = [y EXCEPT !.peerFin = TRUE, !.kcpRead = "eof"]
          BY <3>3, <4>2
        <5>2. r \in ServerEnd /\ ServerKeeps(y, r) /\ r.inq = y.inq /\ r.peerFin = TRUE
              /\ r.kcpRead = "eof" /\ r.held = y.held
          BY <4>1, <5>1, ZenonT(30) DEF ServerEnd, ServerKeeps, KcpRead
        <5>3. ServerKeeps(s, r)
          BY <4>1, <5>2 DEF ServerKeeps
        <5>4. Took(s, r)
          BY <2>2, <3>3, <4>1, <4>2, <5>2, ZenonT(30) DEF Took, q
        <5> QED  BY <5>2, <5>3, <5>4
      <4>3. CASE s.inq[k] # Fin
        <5>1. r = [y EXCEPT !.held = s.inq[k], !.kcpRead = "data"]
          BY <3>3, <4>3
        <5>2. ServerKeeps(y, r) /\ r.inq = y.inq /\ r.peerFin = y.peerFin
              /\ r.kcpRead = "data" /\ r.held = s.inq[k]
              /\ (r.held \in Nat => r \in ServerEnd)
          BY <4>1, <5>1, ZenonT(30) DEF ServerEnd, ServerKeeps, KcpRead
        <5>3. ServerKeeps(s, r)
          BY <4>1, <5>2 DEF ServerKeeps
        <5>4. Took(s, r)
          BY <2>2, <3>3, <4>1, <4>3, <5>2, ZenonT(30) DEF Took, q
        <5> QED  BY <5>2, <5>3, <5>4
      <4> QED  BY <4>2, <4>3
    <3>4. \/ /\ \A i \in 1 .. Len(s.inq) : s.inq[i] = Keepalive
             /\ r = [s EXCEPT !.inq = <<>>]
          \/ \E k \in 1 .. Len(s.inq) :
                /\ \A j \in 1 .. k - 1 : s.inq[j] = Keepalive
                /\ s.inq[k] # Keepalive
                /\ LET y == [s EXCEPT !.inq = SubSeq(@, k + 1, Len(@))]
                   IN  \/ /\ s.inq[k] = Fin
                          /\ r = [y EXCEPT !.peerFin = TRUE, !.kcpRead = "eof"]
                       \/ /\ s.inq[k] # Fin
                          /\ r = [y EXCEPT !.held = s.inq[k], !.kcpRead = "data"]
      BY <2>2, <3>1, TryFulfillReadCases, Zenon DEF r
    <3> QED  BY <3>2, <3>3, <3>4, Zenon DEF r
  <2> QED  BY <2>1, <2>2, ZenonT(30)

(* Quiet handlers of the server compose. *)
<1>ServerQuietTransitive.
    ASSUME NEW x, NEW r, NEW z, ServerQuiet(x, r), ServerQuiet(r, z)
    PROVE  ServerQuiet(x, z)
  BY <1>ServerQuietTransitive, QuietTransitive DEF ServerQuiet

(* Closing the connection of the server is quiet. *)
<1>CloseConnectionQuiet.
    ASSUME NEW s, ServerInv(s)
    PROVE  ServerInv(CloseConnection(s)) /\ ServerQuiet(s, CloseConnection(s))
  <2> USE <1>CloseConnectionQuiet
  <2>0. s \in ServerEnd  BY DEF ServerInv
  <2>1. CASE ~s.inTable
    BY <2>0, <2>1 DEF CloseConnection, ServerQuiet, Quiet, SameSending, SameReceiving
  <2>2. CASE s.inTable
    <3> DEFINE u == [s EXCEPT !.inTable = FALSE, !.sock = "closed"]
    <3>1. ServerInv(u)
      BY <2>0, ZenonT(30) DEF ServerInv, ServerEnd, Sock
    <3>2. ServerQuiet(s, u)
      BY <2>0 DEF ServerEnd, ServerQuiet, Quiet, SameSending, SameReceiving
    <3>3. CloseConnection(s) = StopServer(u)
      BY <2>2 DEF CloseConnection
    <3> HIDE DEF u
    <3> QED  BY <3>1, <3>2, <3>3, StopServerQuiet, <1>ServerQuietTransitive
  <2> QED  BY <2>0, <2>1, <2>2 DEF ServerEnd

(* The server arms its TCP read only below the watermark, or parks, or closes. *)
<1>ForwardTcpToKcpQuiet.
    ASSUME NEW s, ServerInv(s), s.tcpRead # "off"
    PROVE  LET r == ForwardTcpToKcp(s)
           IN  /\ ServerInv(r) /\ ServerQuiet(s, r)
               /\ r.tcpRead = "armed" => WaitSend(r) < Threshold
  <2> USE <1>ForwardTcpToKcpQuiet
  <2> DEFINE r == ForwardTcpToKcp(s)
             off == [s EXCEPT !.tcpRead = "off"]
  <2>0. s \in ServerEnd  BY DEF ServerInv
  <2>1. ServerInv(off) /\ ServerQuiet(s, off) /\ off.tcpRead = "off"
    <3>1. off \in ServerEnd /\ off.tcpRead = "off"
      BY <2>0, Zenon DEF ServerEnd, TcpRead
    <3>2. ServerInv(off)
      BY <2>0, <3>1 DEF ServerInv, ServerEnd
    <3>3. ServerQuiet(s, off)
      BY <2>0 DEF ServerEnd, ServerQuiet, Quiet, SameSending, SameReceiving
    <3> QED  BY <3>1, <3>2, <3>3
  <2>2. CASE s.targetClosed
    BY <2>1, <2>2 DEF ForwardTcpToKcp
  <2>3. CASE ~s.targetClosed /\ (s.sock = "closed" \/ ~s.active)
    <3>1. r = CloseConnection(off)
      BY <2>3 DEF ForwardTcpToKcp
    <3> HIDE DEF off, r
    <3>2. ServerInv(r) /\ ServerQuiet(off, r)
      BY <2>1, <3>1, <1>CloseConnectionQuiet
    <3>3. ServerQuiet(s, r)
      BY <2>1, <3>2, <1>ServerQuietTransitive
    <3>4. r.tcpRead = "armed" => WaitSend(r) < Threshold
      BY <2>1, <3>2 DEF ServerQuiet, Quiet
    <3> QED  BY <3>2, <3>3, <3>4 DEF r
  <2>4. CASE ~s.targetClosed /\ ~(s.sock = "closed" \/ ~s.active)
    <3> DEFINE t == IF WaitSend(s) >= Threshold THEN "parked" ELSE "armed"
    <3>1. r = [s EXCEPT !.tcpRead = t]
      BY <2>4 DEF ForwardTcpToKcp
    <3>2. WaitSend(s) \in Nat
      BY <2>0 DEF ServerEnd, WaitSend
    <3>3. t \in TcpRead /\ (t = "armed" => WaitSend(s) < Threshold)
      BY <3>2, TunnelAssumption DEF TcpRead
    <3> HIDE DEF t, r
    <3>4. r \in ServerEnd /\ r.tcpRead = t /\ r.out = s.out /\ r.unacked = s.unacked
      BY <2>0, <3>1, <3>3, Zenon DEF ServerEnd
    <3>5. WaitSend(r) = WaitSend(s)
      BY <3>4 DEF WaitSend
    <3>6. ServerInv(r)
      BY <2>0, <3>1, <3>4 DEF ServerInv, ServerEnd
    <3>7. ServerQuiet(s, r)
      BY <2>0, <3>1, <3>3, <3>4, <3>5 DEF ServerEnd, ServerQuiet, Quiet, SameSending, SameReceiving
    <3> QED  BY <3>3, <3>4, <3>5, <3>6, <3>7 DEF r
  <2> QED  BY <2>0, <2>2, <2>3, <2>4 DEF ServerEnd

(* Resuming a parked loop of the server is quiet. *)
<1>ResumeServerQuiet.
    ASSUME NEW s, ServerInv(s)
    PROVE  ServerInv(ResumeServer(s)) /\ ServerQuiet(s, ResumeServer(s))
  <2> USE <1>ResumeServerQuiet
  <2>1. CASE s.tcpRead = "parked" /\ WaitSend(s) <= Resume
    BY <2>1, <1>ForwardTcpToKcpQuiet DEF ResumeServer
  <2>2. CASE ~(s.tcpRead = "parked" /\ WaitSend(s) <= Resume)
    BY <2>2, QuietReflexive DEF ResumeServer
  <2> QED  BY <2>1, <2>2

(* The drained callback is quiet. *)
<1>CheckDrainedQuiet.
    ASSUME NEW s, ServerInv(s)
    PROVE  ServerInv(CheckDrained(s)) /\ ServerQuiet(s, CheckDrained(s))
  <2> USE <1>CheckDrainedQuiet
  <2>0. s \in ServerEnd  BY DEF ServerInv
  <2> DEFINE u == [s EXCEPT !.drainCb = FALSE]
  <2>1. ServerInv(u)
    BY <2>0, ZenonT(30) DEF ServerInv, ServerEnd
  <2>2. ServerQuiet(s, u)
    BY <2>0 DEF ServerEnd, ServerQuiet, Quiet, SameSending, SameReceiving
  <2>3. CheckDrained(s) = CloseConnection(u) \/ CheckDrained(s) = s
    BY DEF CheckDrained
  <2> HIDE DEF u
  <2> QED  BY <2>1, <2>2, <2>3, <1>CloseConnectionQuiet, <1>ServerQuietTransitive, QuietReflexive

(* The server's end completes a read. *)
<1>ServerTakes.
    ASSUME NEW c, NEW s, NEW lS, NEW lC, Ends(c, s, lS, lC), s.kcpRead = "pending" => ~lS
    PROVE  LET r == TryFulfillRead(s)
           IN  /\ Ends(c, r, lS, lC) /\ ServerKeeps(s, r)
               /\ ServerLost(s) => ServerLost(r)
  <2> USE <1>ServerTakes
  <2> DEFINE r == TryFulfillRead(s)
  <2>0. s \in ServerEnd  BY DEF Ends, ServerInv
  <2>1. /\ Took(s, r) /\ ServerKeeps(s, r)
        /\ r.inq \in Seq(Int) /\ r.held \in Nat => r \in ServerEnd
    <3>1. s.kcpRead = "pending" => Firsts(s.inq)
      BY FlowFirsts DEF Ends
    <3> QED  BY <2>0, <3>1, <1>ServerTook
  <2> HIDE DEF r
  <2>2. Typed(c) /\ Typed(s)
    BY EndTyped DEF Ends, ServerInv, ClientInv
  <2>3. Flow(c, r, c.finSent, lS) /\ r.inq \in Seq(Int) /\ r.held \in Nat
    BY <2>1, <2>2, FlowTook DEF Ends, ServerKeeps
  <2>4. r \in ServerEnd /\ Typed(r)
    BY <2>1, <2>3, EndTyped, ZenonT(30)
  <2>5. SameSending(s, r) /\ r.beats = s.beats /\ (ServerEnded(r) => ServerEnded(s))
    BY <2>1 DEF ServerKeeps, SameSending, ServerEnded
  <2>6. SameReceiving(c, c)
    BY DEF SameReceiving
  <2>7. Flow(r, c, ServerEnded(r), lC)
    BY <2>2, <2>4, <2>5, <2>6, FlowSame, SMTT(20) DEF Ends
  <2>8. \/ r = s
        \/ /\ s.kcpRead = "pending"
           /\ \/ r.kcpRead = "pending" /\ r.peerFin = s.peerFin
              \/ r.kcpRead = "eof" /\ r.peerFin = TRUE
              \/ r.kcpRead = "data" /\ r.peerFin = s.peerFin
    BY <2>1 DEF Took
  <2>9. ServerInv(r)
    <3>1. CASE r = s  BY <3>1, ZenonT(30) DEF Ends
    <3>2. CASE r # s
      BY <2>1, <2>4, <2>8, <3>2 DEF Ends, ServerInv, ServerKeeps
    <3> QED  BY <3>1, <3>2
  <2>10. ServerLost(s) => ServerLost(r)
    BY <2>8, ZenonT(30) DEF ServerLost
  <2> QED  BY <2>1, <2>3, <2>5, <2>7, <2>9, <2>10 DEF Ends, r

(* The server starts a read: never beside an outstanding one, thanks to the    *)
(* claim.                                                                      *)
<1>ServerReads.
    ASSUME NEW c, NEW s, NEW lS, NEW lC, Ends(c, s, lS, lC), lS => s.targetClosed
    PROVE  LET r == ForwardKcpToTcp(s)
           IN  /\ Ends(c, r, lS, lC)
               /\ ServerLost(s) => ServerLost(r)
               /\ r.out = s.out /\ r.unacked = s.unacked /\ r.finSent = s.finSent
               /\ r.beats = s.beats /\ r.tcpRead = s.tcpRead
  <2> USE <1>ServerReads
  <2> DEFINE r == ForwardKcpToTcp(s)
             w == [s EXCEPT !.claim = FALSE]
             u == [s EXCEPT !.claim = TRUE]
             v == [u EXCEPT !.kcpRead = "pending"]
  <2>0. s \in ServerEnd /\ ServerInv(s)  BY DEF Ends, ServerInv
  <2>1. CASE s.targetClosed \/ s.peerFin
    <3>1. r = w
      BY <2>1 DEF ForwardKcpToTcp
    <3>2. ServerInv(w)
      BY <2>0, <2>1, ZenonT(30) DEF ServerInv, ServerEnd
    <3>3. ServerQuiet(s, w)
      BY <2>0 DEF ServerEnd, ServerQuiet, Quiet, SameSending, SameReceiving
    <3>4. /\ w.out = s.out /\ w.unacked = s.unacked /\ w.finSent = s.finSent
          /\ w.beats = s.beats /\ w.tcpRead = s.tcpRead
      BY <2>0 DEF ServerEnd
    <3> HIDE DEF r, w
    <3>5. Ends(c, w, lS, lC) /\ (ServerLost(s) => ServerLost(w))
      BY <3>2, <3>3, ServerQuietEnds
    <3> QED  BY <3>1, <3>4, <3>5 DEF r
  <2>2. CASE /\ ~(s.targetClosed \/ s.peerFin)
             /\ s.claim \/ ~s.active \/ ~s.inTable \/ s.sock = "closed"
    BY <2>2, ZenonT(30) DEF ForwardKcpToTcp
  <2>3. CASE /\ ~(s.targetClosed \/ s.peerFin)
             /\ ~(s.claim \/ ~s.active \/ ~s.inTable \/ s.sock = "closed")
    <3>1. s.kcpRead = "idle"
      BY <2>0, <2>3 DEF ServerInv
    <3>2. u.active = s.active /\ u.kcpRead = s.kcpRead
      BY <2>0 DEF ServerEnd
    <3>3. r = TryFulfillRead(v)
      BY <2>3, <3>1, <3>2 DEF ForwardKcpToTcp, AsyncReadSome
    <3>4. v = [s EXCEPT !.claim = TRUE, !.kcpRead = "pending"]
      BY <2>0 DEF ServerEnd
    <3> HIDE DEF u, v
    <3>5. v \in ServerEnd
      BY <2>0, <3>4, ZenonT(30) DEF ServerEnd, KcpRead
    <3>6. ServerInv(v)
      BY <2>0, <2>3, <3>4, <3>5 DEF ServerInv, ServerEnd
    <3>7. /\ SameSending(s, v) /\ SameReceiving(s, v) /\ v.beats = s.beats
          /\ v.out = s.out /\ v.unacked = s.unacked /\ v.finSent = s.finSent
          /\ v.tcpRead = s.tcpRead /\ v.targetEnded = s.targetEnded
          /\ v.kcpRead = "pending" /\ v.targetClosed = s.targetClosed
      BY <2>0, <3>1, <3>4 DEF ServerEnd, SameSending, SameReceiving
    <3>8. Ends(c, v, lS, lC)
      <4>1. Typed(c) /\ Typed(s) /\ Typed(v)
        BY <2>0, <3>5, EndTyped DEF Ends, ClientInv
      <4>2. SameSending(c, c) /\ SameReceiving(c, c)
        BY ZenonT(30) DEF SameSending, SameReceiving
      <4>3. Flow(c, v, c.finSent, lS)
        BY <3>7, <4>1, <4>2, FlowSame, SMTT(20) DEF Ends
      <4>4. ServerEnded(v) => ServerEnded(s)
        BY <3>7, ZenonT(30) DEF ServerEnded
      <4>5. Flow(v, c, ServerEnded(v), lC)
        BY <3>7, <4>1, <4>2, <4>4, FlowSame DEF Ends
      <4> QED  BY <3>6, <3>7, <4>3, <4>5 DEF Ends
    <3>9. ~lS /\ ~ServerLost(s)
      BY <2>3 DEF ServerLost
    <3>10. Ends(c, r, lS, lC) /\ ServerKeeps(v, r)
      BY <3>3, <3>8, <3>9, <1>ServerTakes, ZenonT(30)
    <3> HIDE DEF r
    <3> QED  BY <3>7, <3>9, <3>10 DEF ServerKeeps, r
  <2> QED  BY <2>1, <2>2, <2>3, ZenonT(30)

(* The end of the target queues the FIN behind all data. *)
<1>HandleTargetClosedEnds.
    ASSUME NEW c, NEW s, NEW lS, NEW lC, Ends(c, s, lS, lC), Throttled(s)
    PROVE  LET r == HandleTargetClosed(s)
           IN  /\ Ends(c, r, lS, lC) /\ Throttled(r)
               /\ r.targetClosed /\ r.kcpRead = s.kcpRead
  <2> USE <1>HandleTargetClosedEnds
  <2> DEFINE r == HandleTargetClosed(s)
             t == IF s.tcpRead = "parked" THEN "off" ELSE s.tcpRead
  <2>0. s \in ServerEnd /\ ServerInv(s)  BY DEF Ends, ServerInv
  <2>1. t \in TcpRead /\ (t = "armed" => s.tcpRead = "armed") /\ (s.tcpRead = "off" => t = "off")
    BY <2>0, ZenonT(30) DEF ServerEnd, TcpRead
  <2> HIDE DEF t
  <2>2. Typed(c) /\ Typed(s)
    BY EndTyped DEF Ends, ServerInv, ClientInv
  <2>3. SameSending(c, c) /\ SameReceiving(c, c)
    BY ZenonT(30) DEF SameSending, SameReceiving
  <2>4. CASE s.targetClosed
    <3>1. r = [s EXCEPT !.sock = "closed", !.claim = FALSE]
      BY <2>4 DEF HandleTargetClosed
    <3> HIDE DEF r
    <3>2. r \in ServerEnd
      BY <2>0, <3>1, ZenonT(30) DEF ServerEnd, Sock
    <3>3. ServerInv(r)
      BY <2>0, <2>4, <3>1, <3>2 DEF ServerInv, ServerEnd
    <3>4. ServerQuiet(s, r) /\ r.targetClosed /\ r.kcpRead = s.kcpRead
      BY <2>0, <2>4, <3>1, ZenonT(30) DEF ServerEnd, ServerQuiet, Quiet, SameSending, SameReceiving
    <3> QED  BY <2>2, <3>3, <3>4, ServerQuietEnds, QuietThrottled DEF r, ServerQuiet
  <2>5. CASE ~s.targetClosed /\ ~(s.fin /\ s.active /\ ~s.finSent)
    <3>1. r = [s EXCEPT !.targetClosed = TRUE, !.tcpRead = t, !.sock = "closed", !.claim = FALSE]
      BY <2>0, <2>5, Zenon DEF HandleTargetClosed, UnparkWrite, SendFin, ServerEnd, t
    <3> HIDE DEF r
    <3>2. r \in ServerEnd
      BY <2>0, <2>1, <3>1, ZenonT(30) DEF ServerEnd, Sock
    <3>3. ServerInv(r)
      BY <2>0, <2>1, <2>5, <3>1, <3>2, SMTT(20) DEF ServerInv, ServerEnd
    <3>4. Quiet(s, r) /\ r.targetClosed /\ r.kcpRead = s.kcpRead /\ r.targetEnded = s.targetEnded
      BY <2>0, <2>1, <3>1 DEF ServerEnd, Quiet, SameSending, SameReceiving
    <3>5. SameSending(s, r) /\ SameReceiving(s, r) /\ Typed(r) /\ r.beats = s.beats
      BY <3>2, <3>4, EndTyped, ZenonT(30) DEF Quiet
    <3>6. Flow(c, r, c.finSent, lS)
      BY <2>2, <2>3, <3>5, FlowSame, SMTT(20) DEF Ends
    <3>7. ServerEnded(r) => ServerEnded(s)
      BY <3>4, <3>5 DEF ServerEnded, SameSending
    <3>8. Flow(r, c, ServerEnded(r), lC)
      BY <2>2, <2>3, <3>5, <3>7, FlowSame DEF Ends
    <3>9. Throttled(r)
      BY <2>2, <3>4, QuietThrottled, ZenonT(30)
    <3> QED  BY <3>3, <3>4, <3>5, <3>6, <3>8, <3>9 DEF Ends, r
  <2>6. CASE ~s.targetClosed /\ s.fin /\ s.active /\ ~s.finSent
    <3> DEFINE o == Append(s.out, Fin)
    <3>1. r = [s EXCEPT !.targetClosed = TRUE, !.tcpRead = t, !.out = o, !.finSent = TRUE,
                        !.sock = "closed", !.claim = FALSE]
      BY <2>0, <2>6 DEF HandleTargetClosed, UnparkWrite, SendFin, Queue, ServerEnd, t
    <3>2. o \in Seq(Int)
      BY <2>0 DEF ServerEnd, Fin
    <3> HIDE DEF r, o
    <3>3. r \in ServerEnd
      <4> DEFINE z == [s EXCEPT !.targetClosed = TRUE, !.tcpRead = t, !.out = o]
      <4>1. z \in ServerEnd
        BY <2>0, <2>1, <3>2, Zenon DEF ServerEnd
      <4>2. r = [z EXCEPT !.finSent = TRUE, !.sock = "closed", !.claim = FALSE]
        BY <2>0, <3>1 DEF ServerEnd
      <4> HIDE DEF z
      <4> QED  BY <4>1, <4>2, ZenonT(30) DEF ServerEnd, Sock
    <3>4. /\ r.targetClosed = TRUE /\ r.tcpRead = t /\ r.out = o /\ r.finSent = TRUE
          /\ r.sock = "closed" /\ r.stacked = s.stacked /\ r.targetEnded = s.targetEnded
          /\ r.kcpRead = s.kcpRead /\ r.peerFin = s.peerFin /\ r.active = s.active
          /\ r.beats = s.beats /\ r.read = s.read /\ r.inq = s.inq /\ r.got = s.got
          /\ r.held = s.held /\ r.unacked = s.unacked
      BY <2>0, <3>1, ZenonT(30) DEF ServerEnd
    <3>5. ServerInv(r)
      BY <2>0, <2>1, <3>3, <3>4, ZenonT(30) DEF ServerInv
    <3>6. SameReceiving(s, r) /\ Typed(r)
      BY <3>3, <3>4, EndTyped, ZenonT(30) DEF SameReceiving
    <3>7. Flow(c, r, c.finSent, lS)
      BY <2>2, <2>3, <3>6, FlowSame DEF Ends
    <3>8. Flow(r, c, ServerEnded(r), lC)
      BY <2>2, <2>6, <3>4, <3>6, FlowFin, ZenonT(30) DEF Ends, o
    <3>9. Extra(s) \in Nat /\ Extra(r) = Extra(s) + 1
      BY <2>2, <2>6, <3>4, SMTT(20) DEF Extra, Typed
    <3>10. Throttled(r)
      BY <2>1, <2>2, <3>4, <3>6, <3>9, QueueThrottled, SMTT(20) DEF o, Fin
    <3> QED  BY <3>4, <3>5, <3>7, <3>8, <3>10 DEF Ends, r
  <2> QED  BY <2>0, <2>4, <2>5, <2>6, ZenonT(30) DEF ServerEnd

(* A heartbeat of the server. *)
<1>ServerBeats.
    ASSUME NEW c, NEW s, NEW lS, NEW lC, Ends(c, s, lS, lC), Throttled(s),
           c.beats + s.beats < MaxKeepalives,
           NEW r, r = [Queue(s, Keepalive) EXCEPT !.beats = @ + 1]
    PROVE  Ends(c, r, lS, lC) /\ Throttled(r) /\ (ServerLost(s) => ServerLost(r))
  <2> USE <1>ServerBeats
  <2> DEFINE o == Append(s.out, Keepalive)
  <2>0. s \in ServerEnd /\ c \in ClientEnd /\ ServerInv(s)  BY DEF Ends, ServerInv, ClientInv
  <2>1. s.beats \in Nat /\ c.beats \in Nat /\ s.out \in Seq(Int)
    BY <2>0 DEF ServerEnd, ClientEnd
  <2>2. r = [s EXCEPT !.out = o, !.beats = s.beats + 1]
    BY <2>0 DEF Queue, ServerEnd
  <2>3. o \in Seq(Int) /\ s.beats + 1 \in Nat
    BY <2>1 DEF Keepalive
  <2> HIDE DEF o
  <2>4. r \in ServerEnd
    BY <2>0, <2>2, <2>3, ZenonT(30) DEF ServerEnd
  <2>5. /\ r.targetClosed = s.targetClosed /\ r.tcpRead = s.tcpRead /\ r.out = o
        /\ r.finSent = s.finSent /\ r.claim = s.claim
        /\ r.sock = s.sock /\ r.stacked = s.stacked /\ r.targetEnded = s.targetEnded
        /\ r.kcpRead = s.kcpRead /\ r.peerFin = s.peerFin /\ r.active = s.active
        /\ r.beats = s.beats + 1 /\ r.read = s.read /\ r.inq = s.inq /\ r.got = s.got
        /\ r.held = s.held /\ r.unacked = s.unacked
    BY <2>0, <2>2, ZenonT(30) DEF ServerEnd
  <2>6. ServerInv(r)
    BY <2>0, <2>4, <2>5 DEF ServerInv
  <2>7. Typed(c) /\ Typed(s) /\ Typed(r)
    BY <2>0, <2>4, EndTyped
  <2>8. SameReceiving(s, r) /\ SameSending(c, c)
    BY <2>5 DEF SameReceiving, SameSending
  <2>9. Flow(c, r, c.finSent, lS)
    BY <2>7, <2>8, FlowSame DEF Ends
  <2>10. Flow(r, c, ServerEnded(r), lC)
    <3>1. Flow(r, c, ServerEnded(s), lC)
      BY <2>5, <2>7, FlowBeat, Zenon DEF Ends, o
    <3>2. SameSending(r, r) /\ SameReceiving(c, c) /\ (ServerEnded(r) => ServerEnded(s))
      BY <2>5 DEF SameReceiving, SameSending, ServerEnded
    <3> QED  BY <2>7, <3>1, <3>2, FlowSame
  <2>11. c.beats + r.beats <= MaxKeepalives
    BY <2>1, <2>5, TunnelAssumption, SMTT(20)
  <2>12. Extra(r) = Extra(s) + 1
    BY <2>1, <2>5 DEF Extra
  <2>13. Throttled(r)
    <3>1. Keepalive \in Int /\ r.out = Append(s.out, Keepalive)
      BY <2>5 DEF o, Keepalive
    <3>2. r.tcpRead = "armed" => s.tcpRead = "armed"
      BY <2>5
    <3>3. r.unacked = s.unacked
      BY <2>5
    <3> QED  BY <2>7, <2>12, <3>1, <3>2, <3>3, QueueThrottled, ZenonT(30)
  <2> QED  BY <2>5, <2>6, <2>9, <2>10, <2>11, <2>13, ZenonT(30) DEF Ends, ServerLost

(* The unit read from the target is queued. *)
<1>ServerSends.
    ASSUME NEW c, NEW s, NEW lS, NEW lC, Ends(c, s, lS, lC), Throttled(s), s.tcpRead = "armed"
    PROVE  LET u == [s EXCEPT !.read = @ + 1]
               r == SendData(u, u.read)
           IN  /\ Ends(c, r, lS, lC) /\ (ServerLost(s) => ServerLost(r))
               /\ WaitSend(r) <= Threshold + Extra(r)
               /\ r.tcpRead = "armed"
  <2> USE <1>ServerSends
  <2> DEFINE n == s.read + 1
             u == [s EXCEPT !.read = @ + 1]
             o == IF s.active THEN Append(s.out, n) ELSE s.out
             r == SendData(u, u.read)
  <2>0. s \in ServerEnd /\ c \in ClientEnd /\ ServerInv(s)  BY DEF Ends, ServerInv, ClientInv
  <2>1. s.read \in Nat /\ s.beats \in Nat /\ c.beats \in Nat /\ s.out \in Seq(Int) /\ n \in Nat
    BY <2>0, SMTT(20) DEF ServerEnd, ClientEnd
  <2>2. r = [s EXCEPT !.read = n, !.out = o]
    BY <2>0, Zenon DEF SendData, Queue, ServerEnd
  <2>3. o \in Seq(Int)
    BY <2>1
  <2> HIDE DEF r, o, u
  <2>4. r \in ServerEnd
    BY <2>0, <2>1, <2>2, <2>3, ZenonT(30) DEF ServerEnd
  <2>5. /\ r.targetClosed = s.targetClosed /\ r.tcpRead = s.tcpRead /\ r.out = o
        /\ r.finSent = s.finSent /\ r.claim = s.claim
        /\ r.sock = s.sock /\ r.stacked = s.stacked /\ r.targetEnded = s.targetEnded
        /\ r.kcpRead = s.kcpRead /\ r.peerFin = s.peerFin /\ r.active = s.active
        /\ r.beats = s.beats /\ r.read = n /\ r.inq = s.inq /\ r.got = s.got
        /\ r.held = s.held /\ r.unacked = s.unacked
    BY <2>0, <2>2, ZenonT(30) DEF ServerEnd
  <2>6. ServerInv(r)
    BY <2>0, <2>4, <2>5 DEF ServerInv
  <2>7. Typed(c) /\ Typed(s) /\ Typed(r)
    BY <2>0, <2>4, EndTyped, ZenonT(30)
  <2>8. SameReceiving(s, r) /\ SameSending(c, c) /\ SameSending(s, s) /\ SameReceiving(c, c)
    BY <2>5 DEF SameReceiving, SameSending
  <2>9. Flow(c, r, c.finSent, lS)
    BY <2>7, <2>8, FlowSame, SMTT(20) DEF Ends
  <2>10. ~ServerEnded(s) /\ ~ServerEnded(r)
    BY <2>0, <2>5, ZenonT(30) DEF ServerInv, ServerEnded
  <2>13. Flow(r, c, ServerEnded(r), lC)
    <3>1. s.active => r.out = Append(s.out, r.read)
      BY <2>5, ZenonT(30) DEF o
    <3>2. ~s.active => r.out = s.out
      BY <2>5 DEF o
    <3> QED  BY <2>5, <2>7, <2>10, <3>1, <3>2, FlowData, SMTT(20) DEF Ends
  <2>14. WaitSend(r) <= Threshold + Extra(r)
    <3>1. Extra(s) \in Nat /\ Extra(r) = Extra(s)
      BY <2>1, <2>5 DEF Extra
    <3>2. Len(o) <= Len(s.out) + 1 /\ Len(s.out) \in Nat /\ Len(o) \in Nat /\ s.unacked \in Nat
      BY <2>0, <2>1, SMTT(20) DEF o, ServerEnd
    <3>3. WaitSend(s) <= Threshold - 1 + Extra(s)
      BY DEF Throttled
    <3> QED  BY <2>5, <3>1, <3>2, <3>3, TunnelAssumption, SMTT(20) DEF WaitSend
  <2> QED  BY <2>5, <2>6, <2>9, <2>13, <2>14, ZenonT(30) DEF Ends, ServerLost, r, u

(* Completing a read as a step of the server. *)
<1>ServerTakeStep.
    ASSUME NEW c, NEW s, NEW lC, Ends(c, s, ServerLost(s), lC), Throttled(s)
    PROVE  LET r == TryFulfillRead(s)
           IN  Ends(c, r, ServerLost(r), lC) /\ Throttled(r) /\ r.beats = s.beats
  <2> USE <1>ServerTakeStep
  <2> DEFINE r == TryFulfillRead(s)
  <2>1. s.kcpRead = "pending" => ~ServerLost(s)
    BY DEF ServerLost
  <2>2. Ends(c, r, ServerLost(s), lC) /\ ServerKeeps(s, r) /\ (ServerLost(s) => ServerLost(r))
    BY <2>1, <1>ServerTakes
  <2> HIDE DEF r
  <2>3. Throttled(r)
    BY <2>2, SameQueueThrottled DEF ServerKeeps
  <2>4. Ends(c, r, ServerLost(r), lC)
    BY <2>2, LoseServer
  <2> QED  BY <2>2, <2>3, <2>4 DEF r, ServerKeeps

(* Starting a read as a step of the server. *)
<1>ServerReadStep.
    ASSUME NEW c, NEW s, NEW lC, Ends(c, s, ServerLost(s), lC), Throttled(s)
    PROVE  LET r == ForwardKcpToTcp(s)
           IN  Ends(c, r, ServerLost(r), lC) /\ Throttled(r)
  <2> USE <1>ServerReadStep
  <2> DEFINE r == ForwardKcpToTcp(s)
  <2>1. ServerLost(s) => s.targetClosed
    BY DEF ServerLost
  <2>2. /\ Ends(c, r, ServerLost(s), lC) /\ (ServerLost(s) => ServerLost(r))
        /\ r.out = s.out /\ r.unacked = s.unacked /\ r.finSent = s.finSent
        /\ r.beats = s.beats /\ r.tcpRead = s.tcpRead
    BY <2>1, <1>ServerReads
  <2> HIDE DEF r
  <2>3. Throttled(r)
    BY <2>2, SameQueueThrottled
  <2>4. Ends(c, r, ServerLost(r), lC)
    BY <2>2, LoseServer
  <2> QED  BY <2>3, <2>4 DEF r

(* on_receive and handle_kcp_data as a step of the server. *)
<1>ServerReceivedStep.
    ASSUME NEW c, NEW s, NEW lC, Ends(c, s, ServerLost(s), lC), Throttled(s)
    PROVE  LET r == ServerReceived(s)
           IN  Ends(c, r, ServerLost(r), lC) /\ Throttled(r)
  <2> USE <1>ServerReceivedStep
  <2> DEFINE t == TryFulfillRead(s)
             u == ResumeServer(t)
  <2>1. Ends(c, t, ServerLost(t), lC) /\ Throttled(t)
    BY <1>ServerTakeStep
  <2> HIDE DEF t
  <2>2. ServerInv(t)
    BY <2>1, EndsTyped
  <2>3. ServerInv(u) /\ ServerQuiet(t, u)
    BY <2>2, <1>ResumeServerQuiet
  <2> HIDE DEF u
  <2>4. Ends(c, u, ServerLost(u), lC) /\ Throttled(u)
    BY <2>1, <2>3, ServerQuietStep
  <2>5. ServerReceived(s) = ForwardKcpToTcp(u) \/ ServerReceived(s) = u
    BY DEF ServerReceived, u, t
  <2> QED  BY <2>4, <2>5, <1>ServerReadStep

(* The read on the target completes. *)
<1>TargetReadStep.
    ASSUME TunnelInv, NEW outcome, TargetRead(outcome)
    PROVE  TunnelInv'
  <2> USE <1>TargetReadStep
  <2> DEFINE c == client
             s == server
             lC == ClientLost(client)
  <2>0. /\ Ends(c, s, ServerLost(s), lC) /\ Throttled(s) /\ s.tcpRead = "armed"
        /\ UNCHANGED client /\ link' \in BOOLEAN /\ faulted' \in BOOLEAN
    BY DEF TunnelInv, TargetRead
  <2>1. CASE server' = LET u == [server EXCEPT !.read = @ + 1]
                       IN  ForwardTcpToKcp(SendData(u, u.read))
    <3> DEFINE u == [s EXCEPT !.read = @ + 1]
               v == SendData(u, u.read)
               r == ForwardTcpToKcp(v)
    <3>1. /\ Ends(c, v, ServerLost(s), lC) /\ (ServerLost(s) => ServerLost(v))
          /\ WaitSend(v) <= Threshold + Extra(v) /\ v.tcpRead = "armed"
      BY <2>0, <1>ServerSends
    <3>2. server' = r
      BY <2>1
    <3> HIDE DEF v
    <3>3. Ends(c, v, ServerLost(v), lC) /\ ServerInv(v) /\ Typed(v)
      BY <3>1, LoseServer, EndsTyped, SMTT(20)
    <3>4. ServerInv(r) /\ ServerQuiet(v, r) /\ (r.tcpRead = "armed" => WaitSend(r) < Threshold)
      BY <3>1, <3>3, <1>ForwardTcpToKcpQuiet
    <3> HIDE DEF r
    <3>5. Ends(c, r, ServerLost(v), lC) /\ (ServerLost(v) => ServerLost(r))
      BY <3>3, <3>4, ServerQuietEnds
    <3>6. Ends(c, r, ServerLost(r), lC)
      BY <3>5, LoseServer
    <3>7. Throttled(r)
      BY <3>1, <3>3, <3>4, ForwardedThrottled, ZenonT(30) DEF ServerQuiet
    <3> QED  BY <2>0, <3>2, <3>6, <3>7, ServerStep
  <2>2. CASE server' = HandleTargetClosed([server EXCEPT !.tcpRead = "off",
                                                         !.targetEnded = server.sock # "closed"])
    <3> DEFINE u == [s EXCEPT !.tcpRead = "off", !.targetEnded = s.sock # "closed"]
               r == HandleTargetClosed(u)
    <3>0. s \in ServerEnd /\ ServerInv(s) /\ Typed(s) /\ Typed(c)
      BY <2>0, EndsTyped
    <3>1. u \in ServerEnd
      BY <3>0, ZenonT(30) DEF ServerEnd, TcpRead
    <3>2. ServerInv(u)
      BY <3>0, <3>1 DEF ServerInv, ServerEnd
    <3>3. /\ Quiet(s, u) /\ u.targetClosed = s.targetClosed /\ u.kcpRead = s.kcpRead
          /\ u.finSent => s.finSent
          /\ u.targetEnded => s.sock # "closed"
      BY <3>0, Zenon DEF ServerEnd, Quiet, SameSending, SameReceiving
    <3> HIDE DEF u
    <3>4. ~ServerEnded(u)
      BY <3>0, <3>3 DEF ServerEnded, ServerInv
    <3>5. SameSending(s, u) /\ SameReceiving(s, u) /\ Typed(u) /\ u.beats = s.beats
      BY <3>1, <3>3, EndTyped DEF Quiet
    <3>6. SameSending(c, c) /\ SameReceiving(c, c)
      BY DEF SameSending, SameReceiving
    <3>7. Flow(c, u, c.finSent, ServerLost(s))
      BY <2>0, <3>0, <3>5, <3>6, FlowSame, SMTT(20) DEF Ends
    <3>8. Flow(u, c, ServerEnded(u), lC)
      BY <2>0, <3>0, <3>4, <3>5, <3>6, FlowSame, SMTT(20) DEF Ends
    <3>9. Ends(c, u, ServerLost(s), lC)
      BY <2>0, <3>2, <3>5, <3>7, <3>8, ZenonT(30) DEF Ends
    <3>10. Throttled(u)
      BY <2>0, <3>0, <3>3, QuietThrottled
    <3>11. /\ Ends(c, r, ServerLost(s), lC) /\ Throttled(r)
           /\ r.targetClosed /\ r.kcpRead = u.kcpRead
      BY <3>9, <3>10, <1>HandleTargetClosedEnds
    <3>12. server' = r
      BY <2>2, ZenonT(30) DEF u
    <3> HIDE DEF r
    <3>13. Ends(c, r, ServerLost(r), lC)
      <4>1. ServerLost(s) => ServerLost(r)
        BY <3>3, <3>11 DEF ServerLost
      <4> QED  BY <3>11, <4>1, LoseServer, ZenonT(30)
    <3> QED  BY <2>0, <3>11, <3>12, <3>13, ServerStep
  <2> QED  BY <2>1, <2>2 DEF TargetRead

(* The server's read on KCP completes. *)
<1>ServerKcpReadStep.
    ASSUME TunnelInv, ServerKcpRead
    PROVE  TunnelInv'
  <2> USE <1>ServerKcpReadStep
  <2> DEFINE c == client
             s == server
             lC == ClientLost(client)
             u == [s EXCEPT !.kcpRead = "idle"]
  <2>0. /\ Ends(c, s, ServerLost(s), lC) /\ Throttled(s)
        /\ UNCHANGED client /\ link' \in BOOLEAN /\ faulted' \in BOOLEAN
        /\ s.kcpRead \in {"eof", "aborted", "data"}
    BY DEF TunnelInv, ServerKcpRead
  <2>1. s \in ServerEnd /\ ServerInv(s) /\ Typed(s) /\ Typed(c)
    BY <2>0, EndsTyped
  <2>2. ~ServerLost(s)
    BY <2>0 DEF ServerLost
  <2>3. SameSending(c, c) /\ SameReceiving(c, c)
    BY ZenonT(30) DEF SameSending, SameReceiving
  <2>4. ASSUME NEW r, ServerInv(r), SameSending(s, r), SameReceiving(s, r), r.beats = s.beats,
               r.unacked = s.unacked, r.tcpRead = s.tcpRead, r.targetEnded = s.targetEnded
        PROVE  Ends(c, r, ServerLost(r), lC) /\ Throttled(r)
    <3>1. Typed(r)
      BY <2>4, EndTyped, ZenonT(30) DEF ServerInv
    <3>2. Flow(c, r, c.finSent, ServerLost(r))
      BY <2>0, <2>1, <2>2, <2>3, <2>4, <3>1, FlowSame, SMTT(20) DEF Ends
    <3>3. ServerEnded(r) => ServerEnded(s)
      BY <2>4, ZenonT(30) DEF ServerEnded, SameSending
    <3>4. Flow(r, c, ServerEnded(r), lC)
      BY <2>0, <2>1, <2>3, <2>4, <3>1, <3>3, FlowSame, SMTT(20) DEF Ends
    <3>5. Throttled(r)
      BY <2>0, <2>4, SameQueueThrottled, ZenonT(30) DEF SameSending
    <3> QED  BY <2>0, <2>4, <3>2, <3>4, <3>5, ZenonT(30) DEF Ends
  <2>5. CASE s.kcpRead = "eof"
    <3> DEFINE k == IF s.sock = "open" THEN "shut" ELSE s.sock
               r == [s EXCEPT !.kcpRead = "idle", !.claim = FALSE, !.sock = k]
    <3>1. server' = r
      BY <2>0, <2>1, <2>5, ZenonT(30) DEF ServerKcpRead, ServerEnd
    <3>2. k \in Sock /\ (k = "shut" => s.peerFin) /\ (s.sock = "closed" => k = "closed") /\ s.peerFin
      BY <2>1, <2>5 DEF ServerInv, ServerEnd, Sock
    <3> HIDE DEF k
    <3>3. r \in ServerEnd
      BY <2>1, <3>2, ZenonT(30) DEF ServerEnd, KcpRead
    <3>4. /\ r.targetClosed = s.targetClosed /\ r.finSent = s.finSent /\ r.stacked = s.stacked
          /\ r.sock = k /\ r.peerFin = s.peerFin /\ r.kcpRead = "idle"
          /\ r.targetEnded = s.targetEnded /\ r.tcpRead = s.tcpRead
          /\ r.beats = s.beats /\ r.unacked = s.unacked
          /\ SameSending(s, r) /\ SameReceiving(s, r)
      BY <2>1, <2>5 DEF ServerEnd, SameSending, SameReceiving
    <3> HIDE DEF r
    <3>5. ServerInv(r)
      BY <2>1, <3>2, <3>3, <3>4, ZenonT(30) DEF ServerInv
    <3>6. Ends(c, r, ServerLost(r), lC) /\ Throttled(r)
      BY <2>4, <3>4, <3>5, ZenonT(30)
    <3> QED  BY <2>0, <3>1, <3>6, ServerStep
  <2>6. CASE s.kcpRead = "aborted"
    <3> DEFINE r == CloseConnection(u)
    <3>1. server' = r
      BY <2>0, <2>6 DEF ServerKcpRead
    <3>2. u \in ServerEnd
      BY <2>1, Zenon DEF ServerEnd, KcpRead
    <3>3. ServerInv(u)
      BY <2>1, <3>2 DEF ServerInv, ServerEnd
    <3>4. /\ u.targetEnded = s.targetEnded /\ u.tcpRead = s.tcpRead
          /\ u.beats = s.beats /\ u.unacked = s.unacked
          /\ SameSending(s, u) /\ SameReceiving(s, u)
      BY <2>1, <2>6, ZenonT(30) DEF ServerEnd, SameSending, SameReceiving
    <3> HIDE DEF u
    <3>5. Ends(c, u, ServerLost(u), lC) /\ Throttled(u)
      BY <2>4, <3>3, <3>4
    <3>6. ServerInv(r) /\ ServerQuiet(u, r)
      BY <3>3, <1>CloseConnectionQuiet
    <3> HIDE DEF r
    <3>7. Ends(c, r, ServerLost(r), lC) /\ Throttled(r)
      BY <3>5, <3>6, ServerQuietStep, ZenonT(30)
    <3> QED  BY <2>0, <3>1, <3>7, ServerStep
  <2>7. CASE s.kcpRead = "data" /\ s.targetClosed
    <3> DEFINE r == [s EXCEPT !.kcpRead = "idle", !.claim = FALSE]
    <3>1. server' = r
      BY <2>0, <2>1, <2>7 DEF ServerKcpRead, ServerEnd
    <3>2. r \in ServerEnd
      BY <2>1, ZenonT(30) DEF ServerEnd, KcpRead
    <3>3. ServerInv(r)
      BY <2>1, <2>7, <3>2 DEF ServerInv, ServerEnd
    <3>4. /\ r.targetEnded = s.targetEnded /\ r.tcpRead = s.tcpRead
          /\ r.beats = s.beats /\ r.unacked = s.unacked
          /\ r.out = s.out /\ r.finSent = s.finSent
          /\ r.got = s.got /\ r.peerFin = s.peerFin
          /\ r.kcpRead = "idle" /\ r.targetClosed = s.targetClosed
          /\ SameSending(s, r)
      BY <2>1 DEF ServerEnd, SameSending
    <3> HIDE DEF r
    <3>5. Typed(r)
      BY <3>2, EndTyped
    <3>6. Flow(c, r, c.finSent, ServerLost(r))
      <4>1. ServerLost(r)
        BY <2>7, <3>4, ZenonT(30) DEF ServerLost
      <4> QED  BY <2>0, <3>4, <4>1, FlowLost, ZenonT(30) DEF Ends
    <3>7. ServerEnded(r) => ServerEnded(s)
      BY <3>4 DEF ServerEnded
    <3>8. Flow(r, c, ServerEnded(r), lC)
      BY <2>0, <2>1, <2>3, <3>4, <3>5, <3>7, FlowSame, SMTT(20) DEF Ends
    <3>9. Throttled(r)
      BY <2>0, <3>4, SameQueueThrottled, ZenonT(30)
    <3>10. Ends(c, r, ServerLost(r), lC)
      BY <2>0, <3>3, <3>4, <3>6, <3>8, ZenonT(30) DEF Ends
    <3> QED  BY <2>0, <3>1, <3>9, <3>10, ServerStep
  <2>8. CASE s.kcpRead = "data" /\ ~s.targetClosed
    <3> DEFINE r == [s EXCEPT !.kcpRead = "writing"]
    <3>1. server' = r
      BY <2>0, <2>1, <2>8, Zenon DEF ServerKcpRead, ServerEnd
    <3>2. r \in ServerEnd
      BY <2>1, Zenon DEF ServerEnd, KcpRead
    <3>3. ServerInv(r)
      BY <2>1, <2>8, <3>2 DEF ServerInv, ServerEnd
    <3>4. /\ r.targetEnded = s.targetEnded /\ r.tcpRead = s.tcpRead
          /\ r.beats = s.beats /\ r.unacked = s.unacked
          /\ SameSending(s, r) /\ SameReceiving(s, r)
      BY <2>1, <2>8, ZenonT(30) DEF ServerEnd, SameSending, SameReceiving
    <3> HIDE DEF r
    <3>5. Ends(c, r, ServerLost(r), lC) /\ Throttled(r)
      BY <2>4, <3>3, <3>4
    <3> QED  BY <2>0, <3>1, <3>5, ServerStep
  <2> QED  BY <2>0, <2>1, <2>5, <2>6, <2>7, <2>8 DEF ServerEnd

(* The write to the target completes. *)
<1>TargetWrittenStep.
    ASSUME TunnelInv, NEW ok \in BOOLEAN, TargetWritten(ok)
    PROVE  TunnelInv'
  <2> USE <1>TargetWrittenStep
  <2> DEFINE c == client
             s == server
             lC == ClientLost(client)
             u == [s EXCEPT !.kcpRead = "idle"]
             g == Append(s.got, s.held)
             w == [u EXCEPT !.got = Append(@, u.held), !.claim = FALSE]
  <2>0. /\ Ends(c, s, ServerLost(s), lC) /\ Throttled(s)
        /\ UNCHANGED client /\ link' \in BOOLEAN /\ faulted' \in BOOLEAN
        /\ s.kcpRead = "writing"
    BY DEF TunnelInv, TargetWritten
  <2>1. s \in ServerEnd /\ ServerInv(s) /\ Typed(s) /\ Typed(c)
    BY <2>0, EndsTyped
  <2>2. ~ServerLost(s)
    BY <2>0 DEF ServerLost
  <2>3. SameSending(c, c) /\ SameReceiving(c, c)
    BY DEF SameSending, SameReceiving
  <2>4. CASE ~ok
    <3> DEFINE r == HandleTargetClosed(u)
    <3>1. server' = r
      BY <2>4 DEF TargetWritten
    <3>2. u \in ServerEnd
      BY <2>1, Zenon DEF ServerEnd, KcpRead
    <3>3. ServerInv(u)
      BY <2>1, <3>2 DEF ServerInv, ServerEnd
    <3>4. /\ u.targetEnded = s.targetEnded /\ u.tcpRead = s.tcpRead
          /\ u.beats = s.beats /\ u.unacked = s.unacked /\ u.out = s.out
          /\ u.finSent = s.finSent /\ u.got = s.got /\ u.peerFin = s.peerFin
          /\ u.kcpRead = "idle" /\ SameSending(s, u)
      BY <2>1 DEF ServerEnd, SameSending
    <3> HIDE DEF u
    <3>5. Typed(u)
      BY <3>2, EndTyped
    <3> DEFINE l == u.kcpRead = "idle"
    <3>6. Flow(c, u, c.finSent, l)
      BY <2>0, <3>4, FlowLost, Zenon DEF Ends
    <3>7. ServerEnded(u) => ServerEnded(s)
      BY <3>4, ZenonT(30) DEF ServerEnded
    <3>8. Flow(u, c, ServerEnded(u), lC)
      BY <2>0, <2>1, <2>3, <3>4, <3>5, <3>7, FlowSame, SMTT(20) DEF Ends
    <3>9. Ends(c, u, l, lC)
      BY <2>0, <3>3, <3>4, <3>6, <3>8, ZenonT(30) DEF Ends
    <3>10. Throttled(u)
      BY <2>0, <3>4, SameQueueThrottled, ZenonT(30)
    <3>11. Ends(c, r, l, lC) /\ Throttled(r) /\ r.targetClosed /\ r.kcpRead = u.kcpRead
      BY <3>9, <3>10, <1>HandleTargetClosedEnds, ZenonT(30)
    <3> HIDE DEF r, l
    <3>12. Ends(c, r, ServerLost(r), lC)
      <4>1. l => ServerLost(r)
        BY <3>4, <3>11, ZenonT(30) DEF ServerLost
      <4> QED  BY <3>11, <4>1, LoseServer, ZenonT(30)
    <3> QED  BY <2>0, <3>1, <3>11, <3>12, ServerStep
  <2>5. CASE ok
    <3>1. w = [s EXCEPT !.kcpRead = "idle", !.got = g, !.claim = FALSE]
      BY <2>1 DEF ServerEnd
    <3>2. g \in Seq(Nat)
      BY <2>1 DEF Typed
    <3>3. server' = ForwardKcpToTcp(w) \/ server' = w
      BY <2>5 DEF TargetWritten
    <3> HIDE DEF w, u, g
    <3>4. w \in ServerEnd
      BY <2>1, <3>1, <3>2, ZenonT(30) DEF ServerEnd, KcpRead
    <3>5. /\ w.targetEnded = s.targetEnded /\ w.tcpRead = s.tcpRead
          /\ w.beats = s.beats /\ w.unacked = s.unacked /\ w.out = s.out
          /\ w.finSent = s.finSent /\ w.got = g /\ w.peerFin = s.peerFin
          /\ w.inq = s.inq /\ w.kcpRead = "idle" /\ SameSending(s, w)
          /\ w.targetClosed = s.targetClosed /\ w.sock = s.sock /\ w.stacked = s.stacked
      BY <2>1, <3>1 DEF ServerEnd, SameSending
    <3>6. ServerInv(w) /\ Typed(w)
      BY <2>1, <3>4, <3>5, EndTyped, ZenonT(30) DEF ServerInv
    <3>7. Flow(c, w, c.finSent, ServerLost(s))
      BY <2>0, <2>1, <2>2, <3>5, <3>6, FlowWritten, ZenonT(30) DEF Ends, g
    <3>8. ServerEnded(w) => ServerEnded(s)
      BY <3>5, ZenonT(30) DEF ServerEnded
    <3>9. Flow(w, c, ServerEnded(w), lC)
      BY <2>0, <2>1, <2>3, <3>5, <3>6, <3>8, FlowSame, SMTT(20) DEF Ends
    <3>10. Ends(c, w, ServerLost(s), lC)
      BY <2>0, <3>5, <3>6, <3>7, <3>9, ZenonT(30) DEF Ends
    <3>11. Ends(c, w, ServerLost(w), lC) /\ Throttled(w)
      BY <2>0, <2>2, <3>5, <3>10, LoseServer, SameQueueThrottled, SMTT(20)
    <3>12. Ends(c, ForwardKcpToTcp(w), ServerLost(ForwardKcpToTcp(w)), lC)
           /\ Throttled(ForwardKcpToTcp(w))
      BY <3>11, <1>ServerReadStep
    <3> QED  BY <2>0, <3>3, <3>11, <3>12, ServerStep
  <2> QED  BY <2>4, <2>5

(* The server's tick. *)
<1>ServerTickStep.
    ASSUME TunnelInv, NEW due, ServerTick(due)
    PROVE  TunnelInv'
  <2> USE <1>ServerTickStep
  <2> DEFINE c == client
             s == server
             lC == ClientLost(client)
             t == TryFulfillRead(s)
             u == ResumeServer(t)
             k == IF u.targetClosed THEN u ELSE MaybeSendKeepalive(u, due)
             r == CheckDrained(k)
  <2>0. /\ Ends(c, s, ServerLost(s), lC) /\ Throttled(s) /\ server' = r
        /\ UNCHANGED client /\ link' \in BOOLEAN /\ faulted' \in BOOLEAN
    BY DEF TunnelInv, ServerTick
  <2>1. Ends(c, t, ServerLost(t), lC) /\ Throttled(t) /\ t.beats = s.beats
    BY <2>0, <1>ServerTakeStep, ZenonT(30)
  <2> HIDE DEF t, k, r
  <2>2. ServerInv(u) /\ ServerQuiet(t, u)
    BY <2>1, EndsTyped, <1>ResumeServerQuiet, ZenonT(30)
  <2> HIDE DEF u
  <2>3. Ends(c, u, ServerLost(u), lC) /\ Throttled(u)
    BY <2>1, <2>2, ServerQuietStep, SMTT(20)
  <2>4. u.beats = s.beats
    BY <2>1, <2>2 DEF ServerQuiet, Quiet
  <2>5. Ends(c, k, ServerLost(k), lC) /\ Throttled(k)
    <3>1. CASE k = u
      BY <2>3, <3>1
    <3>2. CASE k # u
      <4>1. /\ c.beats + u.beats < MaxKeepalives
            /\ k = [Queue(u, Keepalive) EXCEPT !.beats = @ + 1]
        BY <2>4, <3>2 DEF k, MaybeSendKeepalive
      <4>2. Ends(c, k, ServerLost(u), lC) /\ Throttled(k) /\ (ServerLost(u) => ServerLost(k))
        BY <2>3, <4>1, <1>ServerBeats, ZenonT(30)
      <4> QED  BY <4>2, LoseServer
    <3> QED  BY <3>1, <3>2
  <2>6. ServerInv(r) /\ ServerQuiet(k, r)
    BY <2>5, EndsTyped, <1>CheckDrainedQuiet DEF r
  <2>7. Ends(c, r, ServerLost(r), lC) /\ Throttled(r)
    BY <2>5, <2>6, ServerQuietStep, ZenonT(30)
  <2> QED  BY <2>0, <2>7, ServerStep, ZenonT(30)

(* The cleanup sweep. *)
<1>ServerSweptStep.
    ASSUME TunnelInv, ServerSwept
    PROVE  TunnelInv'
  <2> USE <1>ServerSweptStep
  <2> DEFINE r == CloseConnection(server)
  <2>1. /\ Ends(client, server, ServerLost(server), ClientLost(client)) /\ Throttled(server)
        /\ server' = r /\ UNCHANGED client /\ link' \in BOOLEAN /\ faulted' \in BOOLEAN
    BY DEF TunnelInv, ServerSwept
  <2>2. ServerInv(r) /\ ServerQuiet(server, r)
    BY <2>1, EndsTyped, <1>CloseConnectionQuiet, ZenonT(30)
  <2> HIDE DEF r
  <2>3. Ends(client, r, ServerLost(r), ClientLost(client)) /\ Throttled(r)
    BY <2>1, <2>2, ServerQuietStep, ZenonT(30)
  <2> QED  BY <2>1, <2>3, ServerStep, ZenonT(30)

(* An acknowledgement arrives at the server. *)
<1>AckToServerStep.
    ASSUME TunnelInv, AckToServer
    PROVE  TunnelInv'
  <2> USE <1>AckToServerStep
  <2> DEFINE c == client
             s == server
             lC == ClientLost(client)
             n == s.unacked - 1
             u == [s EXCEPT !.unacked = n]
             r == ServerReceived(u)
  <2>0. /\ Ends(c, s, ServerLost(s), lC) /\ Throttled(s) /\ s.unacked > 0
        /\ UNCHANGED client /\ link' \in BOOLEAN /\ faulted' \in BOOLEAN
    BY DEF TunnelInv, AckToServer
  <2>00. server' = ServerReceived([server EXCEPT !.unacked = @ - 1])
    BY DEF AckToServer
  <2>1. s \in ServerEnd /\ ServerInv(s) /\ Typed(s) /\ Typed(c)
    BY <2>0, EndsTyped
  <2>2. server' = r
    BY <2>00
  <2>3. n \in Nat /\ n <= s.unacked
    <3>1. s.unacked \in Nat
      BY <2>1 DEF Typed
    <3> QED  BY <2>0, <3>1, SMTT(20)
  <2> HIDE DEF n, r
  <2>4. u \in ServerEnd
    BY <2>1, <2>3, Zenon DEF ServerEnd
  <2>5. /\ u.targetEnded = s.targetEnded /\ u.tcpRead = s.tcpRead /\ u.claim = s.claim
        /\ u.beats = s.beats /\ u.unacked = n /\ u.out = s.out /\ u.active = s.active
        /\ u.finSent = s.finSent /\ u.got = s.got /\ u.peerFin = s.peerFin
        /\ u.inq = s.inq /\ u.kcpRead = s.kcpRead
        /\ SameSending(s, u) /\ SameReceiving(s, u)
        /\ u.targetClosed = s.targetClosed /\ u.sock = s.sock /\ u.stacked = s.stacked
    BY <2>1, ZenonT(30) DEF ServerEnd, SameSending, SameReceiving
  <2> HIDE DEF u
  <2>6. ServerInv(u) /\ Typed(u)
    BY <2>1, <2>4, <2>5, EndTyped, ZenonT(30) DEF ServerInv
  <2>7. SameSending(c, c) /\ SameReceiving(c, c)
    BY DEF SameSending, SameReceiving
  <2>8. Flow(c, u, c.finSent, ServerLost(u))
    <3>1. ServerLost(s) => ServerLost(u)
      BY <2>5, ZenonT(30) DEF ServerLost
    <3> QED  BY <2>0, <2>1, <2>5, <2>6, <2>7, <3>1, FlowSame, SMTT(20) DEF Ends
  <2>9. Flow(u, c, ServerEnded(u), lC)
    <3>1. ServerEnded(u) => ServerEnded(s)
      BY <2>5, ZenonT(30) DEF ServerEnded
    <3> QED  BY <2>0, <2>1, <2>5, <2>6, <2>7, <3>1, FlowSame, SMTT(20) DEF Ends
  <2>10. Ends(c, u, ServerLost(u), lC)
    BY <2>0, <2>5, <2>6, <2>8, <2>9, ZenonT(30) DEF Ends
  <2>11. Throttled(u)
    BY <2>0, <2>1, <2>3, <2>5, AckThrottled, ZenonT(30)
  <2>12. Ends(c, r, ServerLost(r), lC) /\ Throttled(r)
    BY <2>10, <2>11, <1>ServerReceivedStep, ZenonT(30) DEF r
  <2> QED  BY <2>0, <2>2, <2>12, ServerStep

(* A message arrives at the server. *)
<1>ToServerStep.
    ASSUME TunnelInv, ToServer
    PROVE  TunnelInv'
  <2> USE <1>ToServerStep
  <2> DEFINE c == client
             s == server
             o == Tail(c.out)
             q == Append(s.inq, Head(c.out))
             d == [c EXCEPT !.out = o, !.unacked = c.unacked + 1]
             u == [s EXCEPT !.inq = q]
             r == ServerReceived(u)
  <2>0. /\ Ends(c, s, ServerLost(s), ClientLost(c)) /\ Throttled(s) /\ Throttled(c)
        /\ link' \in BOOLEAN /\ faulted' \in BOOLEAN /\ c.out # <<>>
        /\ client' = d /\ server' = r
    BY DEF TunnelInv, ToServer
  <2>1. /\ s \in ServerEnd /\ ServerInv(s) /\ Typed(s)
        /\ c \in ClientEnd /\ ClientInv(c) /\ Typed(c)
    BY <2>0, EndsTyped, ZenonT(30)
  <2>2. c.out \in Seq(Int) /\ s.inq \in Seq(Int) /\ c.unacked \in Nat /\ c.unacked + 1 \in Nat
    BY <2>1, SMTT(20) DEF Typed
  <2>3. o \in Seq(Int) /\ q \in Seq(Int) /\ Len(o) + 1 = Len(c.out) /\ Len(o) \in Nat
    BY <2>0, <2>2
  <2> HIDE DEF o, q, r
  <2>4. d \in ClientEnd /\ u \in ServerEnd
    BY <2>1, <2>2, <2>3, ZenonT(30) DEF ClientEnd, ServerEnd
  <2>5. /\ d.read = c.read /\ d.finSent = c.finSent /\ d.active = c.active /\ d.out = o
        /\ d.tcpRead = c.tcpRead /\ d.kcpRead = c.kcpRead /\ d.beats = c.beats
        /\ d.unacked = c.unacked + 1 /\ d.stacked = c.stacked /\ d.guardFin = c.guardFin
        /\ d.peerFin = c.peerFin /\ SameReceiving(c, d)
    BY <2>1 DEF ClientEnd, SameReceiving
  <2>6. /\ u.targetEnded = s.targetEnded /\ u.tcpRead = s.tcpRead /\ u.claim = s.claim
        /\ u.beats = s.beats /\ u.unacked = s.unacked /\ u.out = s.out /\ u.active = s.active
        /\ u.finSent = s.finSent /\ u.got = s.got /\ u.peerFin = s.peerFin
        /\ u.inq = q /\ u.kcpRead = s.kcpRead /\ u.held = s.held /\ SameSending(s, u)
        /\ u.targetClosed = s.targetClosed /\ u.sock = s.sock /\ u.stacked = s.stacked
    BY <2>1, ZenonT(30) DEF ServerEnd, SameSending
  <2> HIDE DEF d, u
  <2>7. ServerInv(u) /\ ClientInv(d) /\ Typed(u) /\ Typed(d)
    BY <2>1, <2>4, <2>5, <2>6, EndTyped, SMTT(20) DEF ServerInv, ClientInv
  <2>8. Flow(d, u, d.finSent, ServerLost(u))
    <3>1. Flow(d, u, c.finSent, ServerLost(s))
      <4>1. Flow(c, s, c.finSent, ServerLost(s))
        BY <2>0, ZenonT(30) DEF Ends
      <4>2. d.out = Tail(c.out) /\ u.inq = Append(s.inq, Head(c.out))
        BY <2>5, <2>6, ZenonT(30) DEF o, q
      <4> QED  BY <2>0, <2>1, <2>5, <2>6, <2>7, <4>1, <4>2, FlowArrive, ZenonT(30)
    <3>2. (d.finSent => c.finSent) /\ (ServerLost(s) => ServerLost(u))
      BY <2>5, <2>6 DEF ServerLost
    <3>3. SameSending(d, d) /\ SameReceiving(u, u)
      BY ZenonT(30) DEF SameSending, SameReceiving
    <3> QED  BY <2>7, <3>1, <3>2, <3>3, FlowSame
  <2>9. Flow(u, d, ServerEnded(u), ClientLost(d))
    <3>1. (ServerEnded(u) => ServerEnded(s)) /\ (ClientLost(c) => ClientLost(d))
      BY <2>5, <2>6, ZenonT(30) DEF ServerEnded, ClientLost
    <3>2. Flow(s, c, ServerEnded(s), ClientLost(c))
      BY <2>0 DEF Ends
    <3>3. SameSending(s, u) /\ SameReceiving(c, d)
      BY <2>5, <2>6, Zenon
    <3> QED  BY <2>1, <2>7, <3>1, <3>2, <3>3, FlowSame, SMTT(20)
  <2>10. Ends(d, u, ServerLost(u), ClientLost(d))
    BY <2>0, <2>5, <2>6, <2>7, <2>8, <2>9, ZenonT(30) DEF Ends
  <2>11. Throttled(u)
    BY <2>0, <2>6, SameQueueThrottled, ZenonT(30)
  <2>12. Throttled(d)
    <3>1. WaitSend(d) = WaitSend(c)
      <4> DEFINE n == Len(o)
      <4>1. WaitSend(d) = n + (c.unacked + 1) /\ WaitSend(c) = Len(c.out) + c.unacked
        BY <2>5 DEF WaitSend
      <4>2. n \in Nat /\ c.unacked \in Nat /\ Len(c.out) = n + 1
        BY <2>2, <2>3, ZenonT(30)
      <4> HIDE DEF n
      <4> QED  BY <4>1, <4>2, SMTT(20)
    <3>2. Extra(d) = Extra(c)
      BY <2>5 DEF Extra
    <3> QED  BY <2>0, <2>5, <3>1, <3>2, ZenonT(30) DEF Throttled
  <2>13. Ends(d, r, ServerLost(r), ClientLost(d)) /\ Throttled(r)
    BY <2>10, <2>11, <1>ServerReceivedStep DEF r
  <2> QED  BY <2>0, <2>12, <2>13 DEF TunnelInv

<1> QED
  BY <1>TargetReadStep, <1>ServerKcpReadStep, <1>TargetWrittenStep,
     <1>ServerTickStep, <1>ServerSweptStep, <1>AckToServerStep, <1>ToServerStep,
     ZenonT(30)

(* What completing a read leaves alone on the client. *)
ClientKeeps(c, r) ==
    /\ r.fin = c.fin /\ r.active = c.active /\ r.sock = c.sock /\ r.tcpRead = c.tcpRead
    /\ r.out = c.out /\ r.unacked = c.unacked /\ r.finSent = c.finSent /\ r.beats = c.beats
    /\ r.read = c.read /\ r.got = c.got /\ r.stacked = c.stacked
    /\ r.appEof = c.appEof /\ r.guardFin = c.guardFin /\ r.grace = c.grace
    /\ r.progress = c.progress /\ r.appStalled = c.appStalled

-----------------------------------------------------------------------------
(* The client. *)

(* The actions of the client, the arrivals at it and a refused encryption keep *)
(* the invariant: a fact about each helper, then one about each action.        *)
LEMMA ClientActions ==
    TunnelInv =>
        /\ \A outcome : AppRead(outcome) => TunnelInv'
        /\ ClientKcpRead => TunnelInv'
        /\ \A ok \in BOOLEAN : AppWritten(ok) => TunnelInv'
        /\ \A due : ClientTick(due) => TunnelInv'
        /\ ClientIdleTimeout => TunnelInv'
        /\ GraceExpires => TunnelInv'
        /\ AckToClient => TunnelInv'
        /\ ToClient => TunnelInv'
        /\ EncryptFails => TunnelInv'

(* TryFulfillRead on the client takes one message and leaves the rest alone. *)
<1>ClientTook.
    ASSUME NEW c \in ClientEnd, c.kcpRead = "pending" => Firsts(c.inq)
    PROVE  LET r == TryFulfillRead(c)
           IN  /\ Took(c, r) /\ ClientKeeps(c, r)
               /\ r.inq \in Seq(Int) /\ r.held \in Nat => r \in ClientEnd
  <2> USE <1>ClientTook
  <2> DEFINE r == TryFulfillRead(c)
  <2>1. CASE c.kcpRead # "pending"
    <3>1. r = c  BY <2>1 DEF TryFulfillRead
    <3> QED  BY <2>1, <3>1, ZenonT(30) DEF Took, ClientKeeps
  <2>2. CASE c.kcpRead = "pending"
    <3>1. c.inq \in Seq(Int) /\ Firsts(c.inq)  BY <2>2 DEF ClientEnd
    <3> HIDE DEF r
    <3>2. CASE /\ \A i \in 1 .. Len(c.inq) : c.inq[i] = Keepalive
               /\ r = [c EXCEPT !.inq = <<>>]
      <4>1. r.inq = <<>> /\ r.kcpRead = c.kcpRead /\ r.peerFin = c.peerFin /\ r.held = c.held
        BY <3>2 DEF ClientEnd
      <4>2. ClientKeeps(c, r)  BY <3>2 DEF ClientEnd, ClientKeeps
      <4>3. r \in ClientEnd
        <5> DEFINE q == <<>>
        <5>1. q \in Seq(Int) /\ r = [c EXCEPT !.inq = q]  BY <3>2
        <5> HIDE DEF q
        <5> QED  BY <5>1, Zenon DEF ClientEnd
      <4> QED  BY <2>2, <3>2, <4>1, <4>2, <4>3 DEF Took, r
    <3>3. ASSUME NEW k \in 1 .. Len(c.inq), NEW y,
                 \A j \in 1 .. k - 1 : c.inq[j] = Keepalive,
                 c.inq[k] # Keepalive,
                 y = [c EXCEPT !.inq = SubSeq(@, k + 1, Len(@))],
                 \/ c.inq[k] = Fin /\ r = [y EXCEPT !.peerFin = TRUE, !.kcpRead = "eof"]
                 \/ c.inq[k] # Fin /\ r = [y EXCEPT !.held = c.inq[k], !.kcpRead = "data"]
          PROVE  Took(c, r) /\ ClientKeeps(c, r)
                 /\ (r.inq \in Seq(Int) /\ r.held \in Nat => r \in ClientEnd)
      <4> DEFINE q == SubSeq(c.inq, k + 1, Len(c.inq))
      <4>0. y = [c EXCEPT !.inq = q]  BY <3>3
      <4>00. q \in Seq(Int)  BY <3>1, SuffixFacts
      <4> HIDE DEF q
      <4>1. y \in ClientEnd /\ y.inq = q /\ ClientKeeps(c, y)
            /\ y.peerFin = c.peerFin /\ y.held = c.held /\ y.kcpRead = c.kcpRead
        BY <4>0, <4>00, ZenonT(30) DEF ClientEnd, ClientKeeps
      <4>2. CASE c.inq[k] = Fin
        <5>1. r = [y EXCEPT !.peerFin = TRUE, !.kcpRead = "eof"]
          BY <3>3, <4>2
        <5>2. r \in ClientEnd /\ ClientKeeps(y, r) /\ r.inq = y.inq /\ r.peerFin = TRUE
              /\ r.kcpRead = "eof" /\ r.held = y.held
          BY <4>1, <5>1, ZenonT(30) DEF ClientEnd, ClientKeeps, KcpRead
        <5>3. ClientKeeps(c, r)
          BY <4>1, <5>2, ZenonT(30) DEF ClientKeeps
        <5>4. Took(c, r)
          BY <2>2, <3>3, <4>1, <4>2, <5>2, Zenon DEF Took, q
        <5> QED  BY <5>2, <5>3, <5>4
      <4>3. CASE c.inq[k] # Fin
        <5>1. r = [y EXCEPT !.held = c.inq[k], !.kcpRead = "data"]
          BY <3>3, <4>3
        <5>2. ClientKeeps(y, r) /\ r.inq = y.inq /\ r.peerFin = y.peerFin
              /\ r.kcpRead = "data" /\ r.held = c.inq[k]
              /\ (r.held \in Nat => r \in ClientEnd)
          BY <4>1, <5>1, ZenonT(30) DEF ClientEnd, ClientKeeps, KcpRead
        <5>3. ClientKeeps(c, r)
          BY <4>1, <5>2, ZenonT(30) DEF ClientKeeps
        <5>4. Took(c, r)
          BY <2>2, <3>3, <4>1, <4>3, <5>2, Zenon DEF Took, q
        <5> QED  BY <5>2, <5>3, <5>4
      <4> QED  BY <4>2, <4>3
    <3>4. \/ /\ \A i \in 1 .. Len(c.inq) : c.inq[i] = Keepalive
             /\ r = [c EXCEPT !.inq = <<>>]
          \/ \E k \in 1 .. Len(c.inq) :
                /\ \A j \in 1 .. k - 1 : c.inq[j] = Keepalive
                /\ c.inq[k] # Keepalive
                /\ LET y == [c EXCEPT !.inq = SubSeq(@, k + 1, Len(@))]
                   IN  \/ /\ c.inq[k] = Fin
                          /\ r = [y EXCEPT !.peerFin = TRUE, !.kcpRead = "eof"]
                       \/ /\ c.inq[k] # Fin
                          /\ r = [y EXCEPT !.held = c.inq[k], !.kcpRead = "data"]
      BY <2>2, <3>1, TryFulfillReadCases, Zenon DEF r
    <3> QED  BY <3>2, <3>3, <3>4, Zenon DEF r
  <2> QED  BY <2>1, <2>2

(* A quiet handler of the client keeps both streams. *)
<1>ClientQuietEnds.
    ASSUME NEW c, NEW s, NEW lS, NEW lC, Ends(c, s, lS, lC), NEW r, ClientInv(r),
           Quiet(c, r)
    PROVE  Ends(r, s, lS, lC) /\ (ClientLost(c) => ClientLost(r))
  <2> USE <1>ClientQuietEnds
  <2>1. Typed(c) /\ Typed(s) /\ Typed(r)
    BY EndTyped, ZenonT(30) DEF Ends, ServerInv, ClientInv
  <2>2. SameSending(c, r) /\ SameReceiving(c, r) /\ r.beats = c.beats
    BY DEF Quiet
  <2>3. SameSending(s, s) /\ SameReceiving(s, s)
    BY DEF SameSending, SameReceiving
  <2>4. Flow(s, r, ServerEnded(s), lC)
    BY <2>1, <2>2, <2>3, FlowSame, SMTT(20) DEF Ends
  <2>5. r.finSent => c.finSent
    BY <2>2, ZenonT(30) DEF SameSending
  <2>6. Flow(r, s, r.finSent, lS)
    BY <2>1, <2>2, <2>3, <2>5, FlowSame, SMTT(20) DEF Ends
  <2>7. ClientLost(c) => ClientLost(r)
    BY ZenonT(30) DEF ClientLost, Quiet
  <2> QED  BY <2>2, <2>4, <2>6, <2>7, ZenonT(30) DEF Ends

(* A weaker condition for having given up on the client. *)
<1>LoseClient.
    ASSUME NEW c, NEW s, NEW lS, NEW lC, Ends(c, s, lS, lC), NEW l, lC => l
    PROVE  Ends(c, s, lS, l)
  BY <1>LoseClient DEF Ends, Flow

(* Stopping the client session is quiet. *)
<1>StopQuiet.
    ASSUME NEW c, ClientInv(c)
    PROVE  ClientInv(Stop(c)) /\ Quiet(c, Stop(c))
  <2> USE <1>StopQuiet
  <2> DEFINE r == Stop(c)
  <2>0. c \in ClientEnd  BY DEF ClientInv
  <2>1. CASE ~c.active
    BY <2>1, QuietReflexive DEF Stop
  <2>2. CASE c.active
    <3> DEFINE t == IF c.tcpRead = "parked" THEN "off" ELSE c.tcpRead
               k == IF c.kcpRead = "pending" THEN "aborted" ELSE c.kcpRead
    <3>1. r = [c EXCEPT !.tcpRead = t, !.active = FALSE, !.kcpRead = k]
      BY <2>0, <2>2 DEF Stop, UnparkWrite, ClientEnd
    <3>2. t \in TcpRead /\ (t = "armed" => c.tcpRead = "armed") /\ (c.tcpRead = "off" => t = "off")
      BY <2>0 DEF ClientEnd, TcpRead
    <3>3. k \in KcpRead /\ (k = "idle" <=> c.kcpRead = "idle") /\ (k = "eof" <=> c.kcpRead = "eof")
          /\ (k \in {"data", "writing"} <=> c.kcpRead \in {"data", "writing"})
      BY <2>0 DEF ClientEnd, KcpRead
    <3> HIDE DEF r, t, k
    <3>4. ClientInv(r)
      BY <2>0, <3>1, <3>2, <3>3, ZenonT(30) DEF ClientInv, ClientEnd
    <3>5. Quiet(c, r)
      BY <2>0, <3>1, <3>2, <3>3 DEF ClientEnd, Quiet, SameSending, SameReceiving
    <3> QED  BY <3>4, <3>5 DEF r
  <2> QED  BY <2>0, <2>1, <2>2 DEF ClientEnd

(* Closing both sides on the client is quiet. *)
<1>CloseBothQuiet.
    ASSUME NEW c, ClientInv(c)
    PROVE  ClientInv(CloseBoth(c)) /\ Quiet(c, CloseBoth(c))
  <2> USE <1>CloseBothQuiet
  <2> DEFINE u == [c EXCEPT !.sock = "closed"]
  <2>0. c \in ClientEnd  BY DEF ClientInv
  <2>1. ClientInv(u)
    BY <2>0, ZenonT(30) DEF ClientInv, ClientEnd, Sock
  <2>2. Quiet(c, u)
    BY <2>0 DEF ClientEnd, Quiet, SameSending, SameReceiving
  <2>3. CloseBoth(c) = Stop(u)
    BY DEF CloseBoth
  <2> HIDE DEF u
  <2> QED  BY <2>1, <2>2, <2>3, <1>StopQuiet, QuietTransitive

(* The client arms its TCP read only below the watermark, or parks. *)
<1>ForwardClientToKcpQuiet.
    ASSUME NEW c, ClientInv(c), c.tcpRead # "off"
    PROVE  LET r == ForwardClientToKcp(c)
           IN  /\ ClientInv(r) /\ Quiet(c, r)
               /\ r.tcpRead = "armed" => WaitSend(r) < Threshold
  <2> USE <1>ForwardClientToKcpQuiet
  <2> DEFINE r == ForwardClientToKcp(c)
             t == IF WaitSend(c) >= Threshold THEN "parked" ELSE "armed"
  <2>0. c \in ClientEnd  BY DEF ClientInv
  <2>1. r = [c EXCEPT !.tcpRead = t]
    BY DEF ForwardClientToKcp
  <2>2. WaitSend(c) \in Nat
    BY <2>0 DEF ClientEnd, WaitSend
  <2>3. t \in TcpRead /\ (t = "armed" => WaitSend(c) < Threshold)
    BY <2>2, TunnelAssumption DEF TcpRead
  <2> HIDE DEF t, r
  <2>4. r \in ClientEnd /\ r.tcpRead = t /\ r.out = c.out /\ r.unacked = c.unacked
    BY <2>0, <2>1, <2>3, ZenonT(30) DEF ClientEnd
  <2>5. WaitSend(r) = WaitSend(c)
    BY <2>4 DEF WaitSend
  <2>6. ClientInv(r)
    BY <2>0, <2>1, <2>4 DEF ClientInv, ClientEnd
  <2>7. Quiet(c, r)
    BY <2>0, <2>1, <2>3, <2>4, <2>5, ZenonT(30) DEF ClientEnd, Quiet, SameSending, SameReceiving
  <2> QED  BY <2>3, <2>4, <2>5, <2>6, <2>7 DEF r

(* Resuming a parked loop of the client is quiet. *)
<1>ResumeClientQuiet.
    ASSUME NEW c, ClientInv(c)
    PROVE  ClientInv(ResumeClient(c)) /\ Quiet(c, ResumeClient(c))
  <2> USE <1>ResumeClientQuiet
  <2>1. CASE c.tcpRead = "parked" /\ WaitSend(c) <= Resume
    BY <2>1, <1>ForwardClientToKcpQuiet DEF ResumeClient
  <2>2. CASE ~(c.tcpRead = "parked" /\ WaitSend(c) <= Resume)
    BY <2>2, QuietReflexive, ZenonT(30) DEF ResumeClient
  <2> QED  BY <2>1, <2>2

(* The client's end completes a read. *)
<1>ClientTakes.
    ASSUME NEW c, NEW s, NEW lS, NEW lC, Ends(c, s, lS, lC), c.kcpRead = "pending" => ~lC
    PROVE  LET r == TryFulfillRead(c)
           IN  /\ Ends(r, s, lS, lC) /\ ClientKeeps(c, r)
               /\ ClientLost(c) => ClientLost(r)
  <2> USE <1>ClientTakes
  <2> DEFINE r == TryFulfillRead(c)
  <2>0. c \in ClientEnd  BY DEF Ends, ClientInv
  <2>1. /\ Took(c, r) /\ ClientKeeps(c, r)
        /\ r.inq \in Seq(Int) /\ r.held \in Nat => r \in ClientEnd
    <3>1. c.kcpRead = "pending" => Firsts(c.inq)
      BY FlowFirsts DEF Ends
    <3> QED  BY <2>0, <3>1, <1>ClientTook
  <2> HIDE DEF r
  <2>2. Typed(c) /\ Typed(s)
    BY EndsTyped, ZenonT(30)
  <2>3. Flow(s, r, ServerEnded(s), lC) /\ r.inq \in Seq(Int) /\ r.held \in Nat
    BY <2>1, <2>2, FlowTook DEF Ends, ClientKeeps
  <2>4. r \in ClientEnd /\ Typed(r)
    BY <2>1, <2>3, EndTyped, ZenonT(30)
  <2>5. SameSending(c, r) /\ r.beats = c.beats /\ (r.finSent => c.finSent)
    BY <2>1 DEF ClientKeeps, SameSending
  <2>6. SameReceiving(s, s)
    BY DEF SameReceiving
  <2>7. Flow(r, s, r.finSent, lS)
    BY <2>2, <2>4, <2>5, <2>6, FlowSame, SMTT(20) DEF Ends
  <2>8. \/ r = c
        \/ /\ c.kcpRead = "pending"
           /\ \/ r.kcpRead = "pending" /\ r.peerFin = c.peerFin
              \/ r.kcpRead = "eof" /\ r.peerFin = TRUE
              \/ r.kcpRead = "data" /\ r.peerFin = c.peerFin
    BY <2>1 DEF Took
  <2>9. ClientInv(r)
    <3>1. CASE r = c  BY <3>1, ZenonT(30) DEF Ends
    <3>2. CASE r # c
      BY <2>1, <2>4, <2>8, <3>2 DEF Ends, ClientInv, ClientKeeps
    <3> QED  BY <3>1, <3>2
  <2>10. ClientLost(c) => ClientLost(r)
    BY <2>8, ZenonT(30) DEF ClientLost
  <2> QED  BY <2>1, <2>3, <2>5, <2>7, <2>9, <2>10, ZenonT(30) DEF Ends, r

(* A step that leaves both streams of the client alone. *)
<1>ClientSameEnds.
    ASSUME NEW c, NEW s, NEW lS, NEW lC, Ends(c, s, lS, lC), NEW r, ClientInv(r),
           SameSending(c, r), SameReceiving(c, r), r.beats = c.beats
    PROVE  Ends(r, s, lS, lC)
  <2> USE <1>ClientSameEnds
  <2>1. Typed(c) /\ Typed(s) /\ Typed(r)
    BY EndsTyped, EndTyped, ZenonT(30) DEF ClientInv
  <2>2. SameSending(s, s) /\ SameReceiving(s, s)
    BY ZenonT(30) DEF SameSending, SameReceiving
  <2>3. Flow(s, r, ServerEnded(s), lC)
    BY <2>1, <2>2, FlowSame, SMTT(20) DEF Ends
  <2>4. r.finSent => c.finSent
    BY ZenonT(30) DEF SameSending
  <2>5. Flow(r, s, r.finSent, lS)
    BY <2>1, <2>2, <2>4, FlowSame DEF Ends
  <2> QED  BY <2>3, <2>5, ZenonT(30) DEF Ends

(* The client starts a read when none is outstanding. *)
<1>ClientReads.
    ASSUME NEW c, NEW s, NEW lS, NEW lC, Ends(c, s, lS, lC), ~lC, c.kcpRead = "idle",
           Throttled(c)
    PROVE  LET r == AsyncReadSome(c)
           IN  Ends(r, s, lS, lC) /\ Throttled(r)
  <2> USE <1>ClientReads
  <2> DEFINE r == AsyncReadSome(c)
             k == IF c.active THEN "pending" ELSE "aborted"
             v == [c EXCEPT !.kcpRead = k]
  <2>0. c \in ClientEnd /\ ClientInv(c)  BY EndsTyped
  <2>1. r = IF c.active THEN TryFulfillRead(v) ELSE v
    BY DEF AsyncReadSome
  <2>2. k \in {"pending", "aborted"}
    OBVIOUS
  <2> HIDE DEF k, r
  <2>3. v \in ClientEnd
    BY <2>0, <2>2, ZenonT(30) DEF ClientEnd, KcpRead
  <2>4. /\ v.out = c.out /\ v.unacked = c.unacked /\ v.finSent = c.finSent /\ v.beats = c.beats
        /\ v.tcpRead = c.tcpRead /\ v.kcpRead = k /\ v.peerFin = c.peerFin
        /\ v.guardFin = c.guardFin /\ v.stacked = c.stacked
        /\ SameSending(c, v) /\ SameReceiving(c, v)
    BY <2>0, <2>2, ZenonT(30) DEF ClientEnd, SameSending, SameReceiving
  <2> HIDE DEF v
  <2>5. ClientInv(v)
    BY <2>0, <2>2, <2>3, <2>4, ZenonT(30) DEF ClientInv
  <2>6. Ends(v, s, lS, lC)
    BY <2>4, <2>5, <1>ClientSameEnds, ZenonT(30)
  <2>7. Throttled(v)
    BY <2>4, SameQueueThrottled, ZenonT(30)
  <2>8. Ends(TryFulfillRead(v), s, lS, lC) /\ ClientKeeps(v, TryFulfillRead(v))
    BY <2>6, <1>ClientTakes, ZenonT(30)
  <2>9. Throttled(TryFulfillRead(v))
    BY <2>7, <2>8, SameQueueThrottled DEF ClientKeeps
  <2>10. r = v \/ r = TryFulfillRead(v)
    BY <2>1
  <2> QED  BY <2>6, <2>7, <2>8, <2>9, <2>10 DEF r

(* A quiet handler of the client keeps the streams and the bound. *)
<1>ClientQuietKeeps.
    ASSUME NEW c, NEW s, NEW lS, NEW lC, Ends(c, s, lS, lC), Throttled(c),
           NEW r, ClientInv(r), Quiet(c, r)
    PROVE  Ends(r, s, lS, lC) /\ Throttled(r) /\ (ClientLost(c) => ClientLost(r))
  <2> USE <1>ClientQuietKeeps
  <2>1. Typed(c)
    BY EndsTyped
  <2> QED  BY <2>1, <1>ClientQuietEnds, QuietThrottled, ZenonT(30)

(* The server's end of stream has arrived. *)
<1>HandleServerFinEnds.
    ASSUME NEW c, NEW s, NEW lS, NEW lC, Ends(c, s, lS, lC), ~lC, c.kcpRead = "idle",
           Throttled(c), c.peerFin
    PROVE  LET r == HandleServerFin(c)
           IN  Ends(r, s, lS, lC) /\ Throttled(r)
  <2> USE <1>HandleServerFinEnds
  <2> DEFINE r == HandleServerFin(c)
             f == [c EXCEPT !.guardFin = TRUE, !.grace = FALSE]
             k == IF f.sock = "open" THEN "shut" ELSE f.sock
             g == [f EXCEPT !.sock = k]
  <2>0. c \in ClientEnd /\ ClientInv(c)  BY EndsTyped
  <2>1. r = CloseBoth(f) \/ r = AsyncReadSome(g)
    BY DEF HandleServerFin
  <2>2. f \in ClientEnd
    BY <2>0, Zenon DEF ClientEnd
  <2>3. ClientInv(f)
    BY <2>0, <2>2 DEF ClientInv, ClientEnd
  <2>4. Quiet(c, f) /\ f.kcpRead = c.kcpRead
    BY <2>0, Zenon DEF ClientEnd, Quiet, SameSending, SameReceiving
  <2>5. k \in Sock
    BY <2>2, Zenon DEF ClientEnd, Sock
  <2> HIDE DEF f, k
  <2>6. g \in ClientEnd
    BY <2>2, <2>5, Zenon DEF ClientEnd
  <2>7. ClientInv(g)
    BY <2>2, <2>3, <2>6 DEF ClientInv, ClientEnd
  <2>8. Quiet(f, g) /\ g.kcpRead = f.kcpRead
    BY <2>2 DEF ClientEnd, Quiet, SameSending, SameReceiving
  <2> HIDE DEF g, r
  <2>9. Ends(f, s, lS, lC) /\ Throttled(f)
    BY <2>3, <2>4, <1>ClientQuietKeeps, ZenonT(30)
  <2>10. Ends(g, s, lS, lC) /\ Throttled(g)
    BY <2>7, <2>8, <2>9, <1>ClientQuietKeeps, ZenonT(30)
  <2>11. Ends(CloseBoth(f), s, lS, lC) /\ Throttled(CloseBoth(f))
    BY <2>3, <2>9, <1>CloseBothQuiet, <1>ClientQuietKeeps, ZenonT(30)
  <2>12. Ends(AsyncReadSome(g), s, lS, lC) /\ Throttled(AsyncReadSome(g))
    BY <2>4, <2>8, <2>10, <1>ClientReads, SMTT(20)
  <2> QED  BY <2>1, <2>11, <2>12, ZenonT(30) DEF r

(* The app's end of stream. *)
<1>ClientSendFin.
    ASSUME NEW c, NEW s, NEW lS, NEW lC, Ends(c, s, lS, lC), Throttled(c), c.tcpRead = "off"
    PROVE  LET r == SendFin(c)
           IN  Ends(r, s, lS, lC) /\ Throttled(r) /\ (ClientLost(c) => ClientLost(r))
  <2> USE <1>ClientSendFin
  <2> DEFINE r == SendFin(c)
             o == Append(c.out, Fin)
  <2>0. c \in ClientEnd /\ ClientInv(c) /\ Typed(c) /\ Typed(s)  BY EndsTyped
  <2>1. CASE ~(c.fin /\ c.active /\ ~c.finSent)
    BY <2>1, ZenonT(30) DEF SendFin
  <2>2. CASE c.fin /\ c.active /\ ~c.finSent
    <3>1. r = [c EXCEPT !.out = o, !.finSent = TRUE]
      BY <2>0, <2>2 DEF SendFin, Queue, ClientEnd
    <3>2. o \in Seq(Int)
      BY <2>0 DEF ClientEnd, Fin
    <3> HIDE DEF r, o
    <3>3. r \in ClientEnd
      BY <2>0, <3>1, <3>2, ZenonT(30) DEF ClientEnd
    <3>4. /\ r.out = o /\ r.finSent = TRUE /\ r.tcpRead = c.tcpRead /\ r.kcpRead = c.kcpRead
          /\ r.peerFin = c.peerFin /\ r.guardFin = c.guardFin /\ r.stacked = c.stacked
          /\ r.active = c.active /\ r.beats = c.beats /\ r.read = c.read /\ r.unacked = c.unacked
          /\ SameReceiving(c, r)
      BY <2>0, <3>1 DEF ClientEnd, SameReceiving
    <3>5. ClientInv(r) /\ Typed(r)
      BY <2>0, <3>3, <3>4, EndTyped DEF ClientInv
    <3>6. SameSending(s, s)
      BY ZenonT(30) DEF SameSending
    <3>7. Flow(s, r, ServerEnded(s), lC)
      BY <2>0, <3>4, <3>5, <3>6, FlowSame, SMTT(20) DEF Ends
    <3>8. Flow(r, s, r.finSent, lS)
      BY <2>0, <2>2, <3>4, <3>5, FlowFin, ZenonT(30) DEF Ends, o
    <3>9. Extra(c) \in Nat /\ Extra(r) = Extra(c) + 1
      <4>1. c.beats \in Nat
        BY <2>0, ZenonT(30) DEF Typed
      <4>2. ~c.finSent /\ r.finSent /\ r.beats = c.beats
        BY <2>2, <3>4
      <4> QED  BY <4>1, <4>2, SMTT(20) DEF Extra
    <3>10. Throttled(r)
      <4>1. Fin \in Int /\ r.out = Append(c.out, Fin)
        BY <3>4, SMTT(20) DEF o, Fin
      <4> QED  BY <2>0, <3>4, <3>5, <3>9, <4>1, QueueThrottled, ZenonT(30)
    <3> QED  BY <3>4, <3>5, <3>7, <3>8, <3>10 DEF Ends, ClientLost, r
  <2> QED  BY <2>1, <2>2, ZenonT(30)

(* The end of the app's stream: the FIN is queued behind all data, or both     *)
(* close.                                                                      *)
<1>ArmHalfCloseGraceEnds.
    ASSUME NEW c, NEW s, NEW lS, NEW lC, Ends(c, s, lS, lC), Throttled(c), c.tcpRead = "off"
    PROVE  LET r == ArmHalfCloseGrace(c)
           IN  Ends(r, s, lS, lC) /\ Throttled(r) /\ (ClientLost(c) => ClientLost(r))
  <2> USE <1>ArmHalfCloseGraceEnds
  <2> DEFINE r == ArmHalfCloseGrace(c)
             e == [c EXCEPT !.appEof = TRUE, !.progress = FALSE]
             f == SendFin(e)
             g == [f EXCEPT !.grace = TRUE]
  <2>0. c \in ClientEnd /\ ClientInv(c)  BY EndsTyped
  <2>1. r = CloseBoth(e) \/ r = g
    BY DEF ArmHalfCloseGrace
  <2>2. e \in ClientEnd
    BY <2>0, Zenon DEF ClientEnd
  <2>3. ClientInv(e)
    BY <2>0, <2>2 DEF ClientInv, ClientEnd
  <2>4. Quiet(c, e) /\ e.tcpRead = c.tcpRead
    BY <2>0, ZenonT(30) DEF ClientEnd, Quiet, SameSending, SameReceiving
  <2> HIDE DEF e, r
  <2>5. Ends(e, s, lS, lC) /\ Throttled(e) /\ (ClientLost(c) => ClientLost(e))
    BY <2>3, <2>4, <1>ClientQuietKeeps, ZenonT(30)
  <2>6. /\ Ends(CloseBoth(e), s, lS, lC) /\ Throttled(CloseBoth(e))
        /\ ClientLost(e) => ClientLost(CloseBoth(e))
    BY <2>3, <2>5, <1>CloseBothQuiet, <1>ClientQuietKeeps, ZenonT(30)
  <2>7. Ends(f, s, lS, lC) /\ Throttled(f) /\ (ClientLost(e) => ClientLost(f))
    BY <2>4, <2>5, <1>ClientSendFin, ZenonT(30)
  <2> HIDE DEF f
  <2>8. f \in ClientEnd /\ ClientInv(f)
    BY <2>7, EndsTyped
  <2>9. g \in ClientEnd
    BY <2>8, Zenon DEF ClientEnd
  <2>10. ClientInv(g)
    BY <2>8, <2>9 DEF ClientInv, ClientEnd
  <2>11. Quiet(f, g)
    BY <2>8, ZenonT(30) DEF ClientEnd, Quiet, SameSending, SameReceiving
  <2> HIDE DEF g
  <2>12. Ends(g, s, lS, lC) /\ Throttled(g) /\ (ClientLost(f) => ClientLost(g))
    BY <2>7, <2>10, <2>11, <1>ClientQuietKeeps, ZenonT(30)
  <2> QED  BY <2>1, <2>5, <2>6, <2>7, <2>12, ZenonT(30) DEF r

(* The client queues a heartbeat. *)
<1>ClientBeats.
    ASSUME NEW c, NEW s, NEW lS, NEW lC, Ends(c, s, lS, lC), Throttled(c),
           c.beats + s.beats < MaxKeepalives,
           NEW r, r = [Queue(c, Keepalive) EXCEPT !.beats = @ + 1]
    PROVE  Ends(r, s, lS, lC) /\ Throttled(r) /\ (ClientLost(c) => ClientLost(r))
  <2> USE <1>ClientBeats
  <2> DEFINE o == Append(c.out, Keepalive)
  <2>0. c \in ClientEnd /\ ClientInv(c) /\ s \in ServerEnd  BY EndsTyped
  <2>1. s.beats \in Nat /\ c.beats \in Nat /\ c.out \in Seq(Int)
    BY <2>0 DEF ServerEnd, ClientEnd
  <2>2. r = [c EXCEPT !.out = o, !.beats = c.beats + 1]
    BY <2>0 DEF Queue, ClientEnd
  <2>3. o \in Seq(Int) /\ c.beats + 1 \in Nat
    BY <2>1 DEF Keepalive
  <2> HIDE DEF o
  <2>4. r \in ClientEnd
    BY <2>0, <2>2, <2>3, ZenonT(30) DEF ClientEnd
  <2>5. /\ r.tcpRead = c.tcpRead /\ r.out = o /\ r.finSent = c.finSent /\ r.stacked = c.stacked
        /\ r.kcpRead = c.kcpRead /\ r.peerFin = c.peerFin /\ r.active = c.active
        /\ r.guardFin = c.guardFin /\ r.beats = c.beats + 1 /\ r.read = c.read
        /\ r.unacked = c.unacked /\ SameReceiving(c, r)
    BY <2>0, <2>2, ZenonT(30) DEF ClientEnd, SameReceiving
  <2>6. ClientInv(r)
    BY <2>0, <2>4, <2>5 DEF ClientInv
  <2>7. Typed(c) /\ Typed(s) /\ Typed(r)
    BY <2>0, <2>4, EndTyped
  <2>8. SameSending(s, s)
    BY DEF SameSending
  <2>9. Flow(s, r, ServerEnded(s), lC)
    BY <2>5, <2>7, <2>8, FlowSame DEF Ends
  <2>10. Flow(r, s, r.finSent, lS)
    <3>1. Flow(r, s, c.finSent, lS)
      BY <2>5, <2>7, FlowBeat, ZenonT(30) DEF Ends, o
    <3>2. SameSending(r, r) /\ SameReceiving(s, s) /\ (r.finSent => c.finSent)
      BY <2>5 DEF SameReceiving, SameSending
    <3> QED  BY <2>7, <3>1, <3>2, FlowSame
  <2>11. r.beats + s.beats <= MaxKeepalives
    BY <2>1, <2>5, TunnelAssumption, SMTT(20)
  <2>12. Extra(r) = Extra(c) + 1
    BY <2>1, <2>5 DEF Extra
  <2>13. Throttled(r)
    <3>1. Keepalive \in Int /\ r.out = Append(c.out, Keepalive)
      BY <2>5 DEF o, Keepalive
    <3>2. r.tcpRead = "armed" => c.tcpRead = "armed"
      BY <2>5
    <3>3. r.unacked = c.unacked
      BY <2>5
    <3> QED  BY <2>7, <2>12, <3>1, <3>2, <3>3, QueueThrottled, Zenon
  <2> QED  BY <2>5, <2>6, <2>9, <2>10, <2>11, <2>13, ZenonT(30) DEF Ends, ClientLost

(* The unit read from the app is queued. *)
<1>ClientSends.
    ASSUME NEW c, NEW s, NEW lS, NEW lC, Ends(c, s, lS, lC), Throttled(c), c.tcpRead = "armed"
    PROVE  LET u == [c EXCEPT !.read = @ + 1]
               r == SendData(u, u.read)
           IN  /\ Ends(r, s, lS, lC) /\ (ClientLost(c) => ClientLost(r))
               /\ WaitSend(r) <= Threshold + Extra(r)
               /\ r.tcpRead = "armed"
  <2> USE <1>ClientSends
  <2> DEFINE n == c.read + 1
             u == [c EXCEPT !.read = @ + 1]
             o == IF c.active THEN Append(c.out, n) ELSE c.out
             r == SendData(u, u.read)
  <2>0. c \in ClientEnd /\ ClientInv(c) /\ s \in ServerEnd  BY EndsTyped
  <2>1. c.read \in Nat /\ s.beats \in Nat /\ c.beats \in Nat /\ c.out \in Seq(Int) /\ n \in Nat
    BY <2>0, SMTT(20) DEF ServerEnd, ClientEnd
  <2>2. r = [c EXCEPT !.read = n, !.out = o]
    BY <2>0, Zenon DEF SendData, Queue, ClientEnd
  <2>3. o \in Seq(Int)
    BY <2>1
  <2> HIDE DEF r, o, u
  <2>4. r \in ClientEnd
    BY <2>0, <2>1, <2>2, <2>3, ZenonT(30) DEF ClientEnd
  <2>5. /\ r.tcpRead = c.tcpRead /\ r.out = o /\ r.finSent = c.finSent /\ r.stacked = c.stacked
        /\ r.kcpRead = c.kcpRead /\ r.peerFin = c.peerFin /\ r.active = c.active
        /\ r.guardFin = c.guardFin /\ r.beats = c.beats /\ r.read = n
        /\ r.unacked = c.unacked /\ SameReceiving(c, r)
    BY <2>0, <2>2 DEF ClientEnd, SameReceiving
  <2>6. ClientInv(r)
    BY <2>0, <2>4, <2>5 DEF ClientInv
  <2>7. Typed(c) /\ Typed(s) /\ Typed(r)
    BY <2>0, <2>4, EndTyped
  <2>8. SameSending(s, s)
    BY ZenonT(30) DEF SameSending
  <2>9. Flow(s, r, ServerEnded(s), lC)
    BY <2>5, <2>7, <2>8, FlowSame, SMTT(20) DEF Ends
  <2>10. ~c.finSent /\ ~r.finSent
    BY <2>0, <2>5, ZenonT(30) DEF ClientInv
  <2>13. Flow(r, s, r.finSent, lS)
    <3>1. c.active => r.out = Append(c.out, r.read)
      BY <2>5, ZenonT(30) DEF o
    <3>2. ~c.active => r.out = c.out
      BY <2>5, ZenonT(30) DEF o
    <3> QED  BY <2>5, <2>7, <2>10, <3>1, <3>2, FlowData, SMTT(20) DEF Ends
  <2>14. WaitSend(r) <= Threshold + Extra(r)
    <3>1. Extra(c) \in Nat /\ Extra(r) = Extra(c)
      BY <2>1, <2>5 DEF Extra
    <3>2. Len(o) <= Len(c.out) + 1 /\ Len(c.out) \in Nat /\ Len(o) \in Nat /\ c.unacked \in Nat
      BY <2>0, <2>1, SMTT(20) DEF o, ClientEnd
    <3>3. WaitSend(c) <= Threshold - 1 + Extra(c)
      BY DEF Throttled
    <3> QED  BY <2>5, <3>1, <3>2, <3>3, TunnelAssumption, SMTT(20) DEF WaitSend
  <2> QED  BY <2>5, <2>6, <2>9, <2>13, <2>14, ZenonT(30) DEF Ends, ClientLost, r, u

(* What an arriving datagram and a tick do first on the client. *)
<1>ClientResumeStep.
    ASSUME NEW c, NEW s, NEW lS, Ends(c, s, lS, ClientLost(c)), Throttled(c)
    PROVE  LET r == ClientReceived(c)
           IN  Ends(r, s, lS, ClientLost(r)) /\ Throttled(r) /\ r.beats = c.beats
  <2> USE <1>ClientResumeStep
  <2> DEFINE t == TryFulfillRead(c)
             r == ResumeClient(t)
  <2>1. c.kcpRead = "pending" => ~ClientLost(c)
    BY DEF ClientLost
  <2>2. Ends(t, s, lS, ClientLost(c)) /\ ClientKeeps(c, t) /\ (ClientLost(c) => ClientLost(t))
    BY <2>1, <1>ClientTakes, ZenonT(30)
  <2> HIDE DEF t
  <2>3. Throttled(t) /\ t.beats = c.beats
    BY <2>2, SameQueueThrottled DEF ClientKeeps
  <2>4. ClientInv(r) /\ Quiet(t, r)
    BY <2>2, EndsTyped, <1>ResumeClientQuiet
  <2>5. ClientReceived(c) = r
    BY DEF ClientReceived, t
  <2> HIDE DEF r
  <2>6. Ends(r, s, lS, ClientLost(c)) /\ Throttled(r) /\ (ClientLost(t) => ClientLost(r))
    BY <2>2, <2>3, <2>4, <1>ClientQuietKeeps
  <2>7. Ends(r, s, lS, ClientLost(r))
    BY <2>2, <2>6, <1>LoseClient
  <2> QED  BY <2>3, <2>4, <2>5, <2>6, <2>7 DEF Quiet

(* The client's loop goes on after a write. *)
<1>ForwardKcpToClientEnds.
    ASSUME NEW c, NEW s, NEW lS, NEW lC, Ends(c, s, lS, lC), ~lC, c.kcpRead = "idle",
           Throttled(c)
    PROVE  LET r == ForwardKcpToClient(c)
           IN  Ends(r, s, lS, lC) /\ Throttled(r)
  <2> USE <1>ForwardKcpToClientEnds
  <2>1. CASE c.peerFin /\ ~c.guardFin
    BY <2>1, <1>HandleServerFinEnds DEF ForwardKcpToClient
  <2>2. CASE ~(c.peerFin /\ ~c.guardFin)
    BY <2>2, <1>ClientReads DEF ForwardKcpToClient
  <2> QED  BY <2>1, <2>2

(* A step of the client alone. *)
<1>ClientStep.
    ASSUME TunnelInv, UNCHANGED server, link' \in BOOLEAN, faulted' \in BOOLEAN,
           NEW r, client' = r, NEW lC, lC => ClientLost(r),
           Ends(r, server, ServerLost(server), lC), Throttled(r)
    PROVE  TunnelInv'
  <2> USE <1>ClientStep
  <2>1. Ends(r, server, ServerLost(server), ClientLost(r))
    BY <1>LoseClient
  <2> QED  BY <2>1 DEF TunnelInv

(* A quiet handler as a step of the client. *)
<1>ClientQuietStep.
    ASSUME TunnelInv, UNCHANGED server, link' \in BOOLEAN, faulted' \in BOOLEAN,
           NEW r, client' = r, ClientInv(r), Quiet(client, r)
    PROVE  TunnelInv'
  <2> USE <1>ClientQuietStep
  <2>1. Ends(client, server, ServerLost(server), ClientLost(client)) /\ Throttled(client)
    BY DEF TunnelInv
  <2>2. /\ Ends(r, server, ServerLost(server), ClientLost(client)) /\ Throttled(r)
        /\ ClientLost(client) => ClientLost(r)
    BY <2>1, <1>ClientQuietKeeps
  <2> QED  BY <2>2, <1>ClientStep

(* The read on the app's socket completes. *)
<1>AppReadStep.
    ASSUME TunnelInv, NEW outcome, AppRead(outcome)
    PROVE  TunnelInv'
  <2> USE <1>AppReadStep
  <2> DEFINE c == client
             s == server
             lS == ServerLost(server)
             lC == ClientLost(client)
             e == [c EXCEPT !.tcpRead = "off"]
  <2>0. /\ Ends(c, s, lS, lC) /\ Throttled(c) /\ c.tcpRead = "armed"
        /\ UNCHANGED server /\ link' \in BOOLEAN
    BY DEF TunnelInv, AppRead
  <2>1. faulted' \in BOOLEAN
    <3>1. UNCHANGED faulted \/ faulted' = (faulted \/ client.sock # "closed")
      BY Zenon DEF AppRead
    <3> QED  BY <3>1, Zenon DEF TunnelInv
  <2>2. c \in ClientEnd /\ ClientInv(c)
    BY <2>0, EndsTyped
  <2>3. e \in ClientEnd /\ e.tcpRead = "off"
    BY <2>2, Zenon DEF ClientEnd, TcpRead
  <2>4. ClientInv(e)
    BY <2>2, <2>3 DEF ClientInv, ClientEnd
  <2>5. Quiet(c, e)
    BY <2>2, ZenonT(30) DEF ClientEnd, Quiet, SameSending, SameReceiving
  <2>6. CASE client' = LET u == [client EXCEPT !.read = @ + 1]
                       IN  ForwardClientToKcp(SendData(u, u.read))
    <3> DEFINE u == [c EXCEPT !.read = @ + 1]
               v == SendData(u, u.read)
               r == ForwardClientToKcp(v)
    <3>1. /\ Ends(v, s, lS, lC) /\ (lC => ClientLost(v))
          /\ WaitSend(v) <= Threshold + Extra(v) /\ v.tcpRead = "armed"
      BY <2>0, <1>ClientSends, ZenonT(30)
    <3>2. client' = r
      BY <2>6
    <3> HIDE DEF v
    <3>3. ClientInv(v) /\ Typed(v)
      BY <3>1, EndsTyped, ZenonT(30)
    <3>4. ClientInv(r) /\ Quiet(v, r) /\ (r.tcpRead = "armed" => WaitSend(r) < Threshold)
      BY <3>1, <3>3, <1>ForwardClientToKcpQuiet, ZenonT(30)
    <3> HIDE DEF r
    <3>5. Ends(r, s, lS, lC) /\ (ClientLost(v) => ClientLost(r))
      BY <3>1, <3>4, <1>ClientQuietEnds
    <3>6. Throttled(r)
      BY <3>1, <3>3, <3>4, ForwardedThrottled, ZenonT(30)
    <3> QED  BY <2>0, <2>1, <3>1, <3>2, <3>5, <3>6, <1>ClientStep
  <2>7. CASE client' = ArmHalfCloseGrace([client EXCEPT !.tcpRead = "off"])
    <3> DEFINE r == ArmHalfCloseGrace(e)
    <3>1. Ends(e, s, lS, lC) /\ Throttled(e) /\ (lC => ClientLost(e))
      BY <2>0, <2>4, <2>5, <1>ClientQuietKeeps
    <3>2. client' = r
      BY <2>7
    <3> HIDE DEF e
    <3>3. Ends(r, s, lS, lC) /\ Throttled(r) /\ (ClientLost(e) => ClientLost(r))
      BY <2>3, <3>1, <1>ArmHalfCloseGraceEnds, ZenonT(30)
    <3> HIDE DEF r
    <3> QED  BY <2>0, <2>1, <3>1, <3>2, <3>3, <1>ClientStep
  <2>8. CASE client' = CloseBoth([client EXCEPT !.tcpRead = "off"])
    <3> DEFINE r == CloseBoth(e)
    <3>1. client' = r
      BY <2>8
    <3> HIDE DEF e
    <3>2. ClientInv(r) /\ Quiet(c, r)
      BY <2>4, <2>5, <1>CloseBothQuiet, QuietTransitive, ZenonT(30)
    <3> HIDE DEF r
    <3> QED  BY <2>0, <2>1, <3>1, <3>2, <1>ClientQuietStep
  <2> QED  BY <2>6, <2>7, <2>8, Zenon DEF AppRead

(* The client's read on KCP completes. *)
<1>ClientKcpReadStep.
    ASSUME TunnelInv, ClientKcpRead
    PROVE  TunnelInv'
  <2> USE <1>ClientKcpReadStep
  <2> DEFINE c == client
             s == server
             lS == ServerLost(server)
             lC == ClientLost(client)
             u == [c EXCEPT !.kcpRead = "idle"]
             g == [u EXCEPT !.grace = FALSE]
             w == [u EXCEPT !.kcpRead = "writing", !.progress = u.appEof]
  <2>0. /\ Ends(c, s, lS, lC) /\ Throttled(c) /\ c.kcpRead \in {"eof", "aborted", "data"}
        /\ UNCHANGED server /\ link' \in BOOLEAN /\ faulted' \in BOOLEAN
    BY DEF TunnelInv, ClientKcpRead
  <2>00. /\ c.kcpRead = "eof" => client' = HandleServerFin(u)
         /\ c.kcpRead = "aborted" => client' = CloseBoth(g)
         /\ c.kcpRead = "data" => client' = w
    BY DEF ClientKcpRead
  <2>1. c \in ClientEnd /\ ClientInv(c) /\ ~lC
    BY <2>0, EndsTyped DEF ClientLost
  <2>2. u \in ClientEnd /\ u.kcpRead = "idle" /\ u.peerFin = c.peerFin
    BY <2>1, Zenon DEF ClientEnd, KcpRead
  <2>3. ClientInv(u)
    BY <2>1, <2>2 DEF ClientInv, ClientEnd
  <2>4. CASE c.kcpRead \in {"eof", "aborted"}
    <3>1. /\ SameSending(c, u) /\ SameReceiving(c, u) /\ u.beats = c.beats
          /\ u.out = c.out /\ u.unacked = c.unacked /\ u.finSent = c.finSent
          /\ u.tcpRead = c.tcpRead
      BY <2>1, <2>4 DEF ClientEnd, SameSending, SameReceiving
    <3>2. Ends(u, s, lS, lC) /\ Throttled(u)
      BY <2>0, <2>3, <3>1, <1>ClientSameEnds, SameQueueThrottled, ZenonT(30)
    <3>3. CASE c.kcpRead = "eof"
      <4> DEFINE r == HandleServerFin(u)
      <4>1. client' = r
        BY <2>00, <3>3
      <4>2. u.peerFin
        BY <2>1, <2>2, <3>3, ZenonT(30) DEF ClientInv
      <4> HIDE DEF u
      <4>3. Ends(r, s, lS, lC) /\ Throttled(r)
        BY <2>1, <2>2, <3>2, <4>2, <1>HandleServerFinEnds, SMTT(20)
      <4> HIDE DEF r
      <4> QED  BY <2>0, <2>1, <4>1, <4>3, <1>ClientStep
    <3>4. CASE c.kcpRead = "aborted"
      <4> DEFINE r == CloseBoth(g)
      <4>1. client' = r
        BY <2>00, <3>4
      <4> HIDE DEF u
      <4>2. g \in ClientEnd
        BY <2>2, Zenon DEF ClientEnd
      <4>3. ClientInv(g)
        BY <2>2, <2>3, <4>2, ZenonT(30) DEF ClientInv, ClientEnd
      <4>4. Quiet(u, g)
        BY <2>2 DEF ClientEnd, Quiet, SameSending, SameReceiving
      <4> HIDE DEF g
      <4>5. ClientInv(r) /\ Quiet(u, r)
        BY <4>3, <4>4, <1>CloseBothQuiet, QuietTransitive
      <4> HIDE DEF r
      <4>6. Ends(r, s, lS, lC) /\ Throttled(r)
        BY <3>2, <4>5, <1>ClientQuietKeeps
      <4> QED  BY <2>0, <2>1, <4>1, <4>6, <1>ClientStep
    <3> QED  BY <2>4, <3>3, <3>4
  <2>5. CASE c.kcpRead = "data"
    <3>1. w = [c EXCEPT !.kcpRead = "writing", !.progress = c.appEof]
      BY <2>1, Zenon DEF ClientEnd
    <3>2. client' = w
      BY <2>00, <2>5
    <3> HIDE DEF w, u
    <3>3. w \in ClientEnd
      BY <2>1, <3>1, ZenonT(30) DEF ClientEnd, KcpRead
    <3>4. ClientInv(w)
      BY <2>1, <3>1, <3>3 DEF ClientInv, ClientEnd
    <3>5. Quiet(c, w)
      BY <2>1, <2>5, <3>1, ZenonT(30) DEF ClientEnd, Quiet, SameSending, SameReceiving
    <3> QED  BY <2>0, <3>2, <3>4, <3>5, <1>ClientQuietStep
  <2> QED  BY <2>0, <2>4, <2>5

(* The write to the app completes. *)
<1>AppWrittenStep.
    ASSUME TunnelInv, NEW ok \in BOOLEAN, AppWritten(ok)
    PROVE  TunnelInv'
  <2> USE <1>AppWrittenStep
  <2> DEFINE c == client
             s == server
             lS == ServerLost(server)
             lC == ClientLost(client)
             u == [c EXCEPT !.kcpRead = "idle"]
             g == Append(c.got, c.held)
             w == [u EXCEPT !.got = Append(@, u.held)]
             f == [u EXCEPT !.grace = FALSE]
  <2>0. /\ Ends(c, s, lS, lC) /\ Throttled(c) /\ c.kcpRead = "writing"
        /\ UNCHANGED server /\ link' \in BOOLEAN
    BY DEF TunnelInv, AppWritten
  <2>00. faulted' \in BOOLEAN
    <3>1. faulted' = (faulted \/ (~ok /\ client.sock = "open"))
      BY Zenon DEF AppWritten
    <3> QED  BY <3>1
  <2>1. c \in ClientEnd /\ ClientInv(c) /\ Typed(c) /\ Typed(s) /\ ~lC
    BY <2>0, EndsTyped, ZenonT(30) DEF ClientLost
  <2>2. SameSending(s, s) /\ SameReceiving(s, s)
    BY DEF SameSending, SameReceiving
  <2>3. CASE ~ok
    <3> DEFINE r == CloseBoth(f)
    <3>1. client' = r
      BY <2>3 DEF AppWritten
    <3>2. f = [c EXCEPT !.kcpRead = "idle", !.grace = FALSE]
      BY <2>1 DEF ClientEnd
    <3> HIDE DEF f, u
    <3>3. f \in ClientEnd
      BY <2>1, <3>2, ZenonT(30) DEF ClientEnd, KcpRead
    <3>4. /\ f.tcpRead = c.tcpRead /\ f.beats = c.beats /\ f.unacked = c.unacked /\ f.out = c.out
          /\ f.finSent = c.finSent /\ f.got = c.got /\ f.peerFin = c.peerFin
          /\ f.guardFin = c.guardFin /\ f.stacked = c.stacked
          /\ f.kcpRead = "idle" /\ SameSending(c, f)
      BY <2>1, <3>2 DEF ClientEnd, SameSending
    <3>5. ClientInv(f) /\ Typed(f)
      BY <2>1, <3>3, <3>4, EndTyped DEF ClientInv
    <3> DEFINE l == f.kcpRead = "idle"
    <3>6. Flow(s, f, ServerEnded(s), l)
      BY <2>0, <3>4, FlowLost, ZenonT(30) DEF Ends
    <3>7. Flow(f, s, f.finSent, lS)
      BY <2>0, <2>1, <2>2, <3>4, <3>5, FlowSame, SMTT(20) DEF Ends
    <3>8. Ends(f, s, lS, l) /\ Throttled(f)
      BY <2>0, <3>4, <3>5, <3>6, <3>7, SameQueueThrottled, ZenonT(30) DEF Ends
    <3>9. ClientInv(r) /\ Quiet(f, r)
      BY <3>5, <1>CloseBothQuiet, ZenonT(30)
    <3> HIDE DEF r, l
    <3>10. Ends(r, s, lS, l) /\ Throttled(r)
      BY <3>8, <3>9, <1>ClientQuietKeeps, ZenonT(30)
    <3>11. l => ClientLost(r)
      BY <3>4, <3>9, ZenonT(30) DEF Quiet, ClientLost
    <3> QED  BY <2>0, <2>00, <3>1, <3>10, <3>11, <1>ClientStep
  <2>4. CASE ok
    <3> DEFINE r == ForwardKcpToClient(w)
    <3>1. client' = r
      BY <2>4 DEF AppWritten
    <3>2. w = [c EXCEPT !.kcpRead = "idle", !.got = g]
      BY <2>1, ZenonT(30) DEF ClientEnd
    <3>3. g \in Seq(Nat)
      BY <2>1 DEF Typed
    <3> HIDE DEF w, u, g, f
    <3>4. w \in ClientEnd
      BY <2>1, <3>2, <3>3, ZenonT(30) DEF ClientEnd, KcpRead
    <3>5. /\ w.tcpRead = c.tcpRead /\ w.beats = c.beats /\ w.unacked = c.unacked /\ w.out = c.out
          /\ w.finSent = c.finSent /\ w.got = g /\ w.peerFin = c.peerFin /\ w.inq = c.inq
          /\ w.guardFin = c.guardFin /\ w.stacked = c.stacked
          /\ w.kcpRead = "idle" /\ SameSending(c, w)
      BY <2>1, <3>2 DEF ClientEnd, SameSending
    <3>6. ClientInv(w) /\ Typed(w)
      BY <2>1, <3>4, <3>5, EndTyped, ZenonT(30) DEF ClientInv
    <3>7. Flow(s, w, ServerEnded(s), lC)
      BY <2>0, <2>1, <3>5, <3>6, FlowWritten, ZenonT(30) DEF Ends, g
    <3>8. Flow(w, s, w.finSent, lS)
      <4>1. Flow(c, s, c.finSent, lS)
        BY <2>0, ZenonT(30) DEF Ends
      <4> QED  BY <2>1, <2>2, <3>5, <3>6, <4>1, FlowSame, SMTT(20)
    <3>9. Ends(w, s, lS, lC) /\ Throttled(w)
      BY <2>0, <3>5, <3>6, <3>7, <3>8, SameQueueThrottled, ZenonT(30) DEF Ends
    <3>10. Ends(r, s, lS, lC) /\ Throttled(r)
      <4>1. ~lC /\ w.kcpRead = "idle"
        BY <2>1, <3>5, ZenonT(30)
      <4> HIDE DEF s, lS, lC
      <4> QED  BY <3>9, <4>1, <1>ForwardKcpToClientEnds, SMTT(20)
    <3> HIDE DEF r
    <3> QED  BY <2>0, <2>00, <2>1, <3>1, <3>10, <1>ClientStep, SMTT(20)
  <2> QED  BY <2>3, <2>4

(* The client's tick. *)
<1>ClientTickStep.
    ASSUME TunnelInv, NEW due, ClientTick(due)
    PROVE  TunnelInv'
  <2> USE <1>ClientTickStep
  <2> DEFINE c == client
             s == server
             lS == ServerLost(server)
             u == ResumeClient(TryFulfillRead(c))
             r == MaybeSendKeepalive(u, due)
  <2>0. /\ Ends(c, s, lS, ClientLost(c)) /\ Throttled(c) /\ client' = r
        /\ UNCHANGED server /\ link' \in BOOLEAN /\ faulted' \in BOOLEAN
    BY DEF TunnelInv, ClientTick
  <2>1. u = ClientReceived(c)
    BY ZenonT(30) DEF ClientReceived
  <2> HIDE DEF u
  <2>2. Ends(u, s, lS, ClientLost(u)) /\ Throttled(u) /\ u.beats = c.beats
    BY <2>0, <2>1, <1>ClientResumeStep, ZenonT(30)
  <2>3. CASE r = u
    <3> HIDE DEF r
    <3> QED  BY <2>0, <2>2, <2>3, <1>ClientStep, SMTT(20)
  <2>4. CASE r # u
    <3>1. /\ u.beats + s.beats < MaxKeepalives
          /\ r = [Queue(u, Keepalive) EXCEPT !.beats = @ + 1]
      BY <2>2, <2>4 DEF MaybeSendKeepalive
    <3> HIDE DEF r
    <3>2. Ends(r, s, lS, ClientLost(u)) /\ Throttled(r) /\ (ClientLost(u) => ClientLost(r))
      BY <2>2, <3>1, <1>ClientBeats, ZenonT(30)
    <3> QED  BY <2>0, <3>2, <1>ClientStep
  <2> QED  BY <2>3, <2>4, ZenonT(30)

(* The client's idle timeout. *)
<1>ClientIdleTimeoutStep.
    ASSUME TunnelInv, ClientIdleTimeout
    PROVE  TunnelInv'
  <2> USE <1>ClientIdleTimeoutStep
  <2> DEFINE c == client
             b == c.kcpRead = "writing"
             u == [c EXCEPT !.appStalled = b]
             r == Stop(u)
  <2>0. /\ UNCHANGED server /\ link' \in BOOLEAN /\ faulted' \in BOOLEAN
        /\ client' = r /\ c \in ClientEnd /\ ClientInv(c)
    BY EndsTyped DEF TunnelInv, ClientIdleTimeout
  <2>1. b \in BOOLEAN
    OBVIOUS
  <2> HIDE DEF b
  <2>2. u \in ClientEnd
    BY <2>0, <2>1, Zenon DEF ClientEnd
  <2>3. ClientInv(u)
    BY <2>0, <2>2 DEF ClientInv, ClientEnd
  <2>4. Quiet(c, u)
    BY <2>0, ZenonT(30) DEF ClientEnd, Quiet, SameSending, SameReceiving
  <2> HIDE DEF u
  <2>5. ClientInv(r) /\ Quiet(c, r)
    BY <2>3, <2>4, <1>StopQuiet, QuietTransitive, ZenonT(30)
  <2> HIDE DEF r
  <2> QED  BY <2>0, <2>5, <1>ClientQuietStep

(* The grace timer of the half-close. *)
<1>GraceExpiresStep.
    ASSUME TunnelInv, GraceExpires
    PROVE  TunnelInv'
  <2> USE <1>GraceExpiresStep
  <2> DEFINE c == client
             g == [c EXCEPT !.grace = FALSE]
             p == [c EXCEPT !.progress = FALSE]
             r == CloseBoth(g)
  <2>0. /\ UNCHANGED server /\ link' \in BOOLEAN
        /\ client' = g \/ client' = p \/ client' = r
        /\ UNCHANGED faulted \/ faulted' = TRUE
    BY DEF TunnelInv, GraceExpires
  <2>1. c \in ClientEnd /\ ClientInv(c) /\ faulted' \in BOOLEAN
    BY <2>0, EndsTyped, Zenon DEF TunnelInv
  <2>2. g \in ClientEnd /\ p \in ClientEnd
    BY <2>1, ZenonT(30) DEF ClientEnd
  <2>3. ClientInv(g) /\ ClientInv(p)
    BY <2>1, <2>2 DEF ClientInv, ClientEnd
  <2>4. Quiet(c, g) /\ Quiet(c, p)
    BY <2>1, ZenonT(30) DEF ClientEnd, Quiet, SameSending, SameReceiving
  <2> HIDE DEF g, p
  <2>5. ClientInv(r) /\ Quiet(c, r)
    BY <2>3, <2>4, <1>CloseBothQuiet, QuietTransitive, ZenonT(30)
  <2> HIDE DEF r
  <2> QED  BY <2>0, <2>1, <2>3, <2>4, <2>5, <1>ClientQuietStep, ZenonT(30)

(* An acknowledgement arrives at the client. *)
<1>AckToClientStep.
    ASSUME TunnelInv, AckToClient
    PROVE  TunnelInv'
  <2> USE <1>AckToClientStep
  <2> DEFINE c == client
             s == server
             lS == ServerLost(server)
             n == c.unacked - 1
             u == [c EXCEPT !.unacked = n]
             r == ClientReceived(u)
  <2>0. /\ Ends(c, s, lS, ClientLost(c)) /\ Throttled(c) /\ c.unacked > 0
        /\ UNCHANGED server /\ link' \in BOOLEAN /\ faulted' \in BOOLEAN
    BY DEF TunnelInv, AckToClient
  <2>00. client' = ClientReceived([client EXCEPT !.unacked = @ - 1])
    BY DEF AckToClient
  <2>1. c \in ClientEnd /\ ClientInv(c) /\ Typed(c)
    BY <2>0, EndsTyped, ZenonT(30)
  <2>2. client' = r
    BY <2>00
  <2>3. n \in Nat /\ n <= c.unacked
    <3>1. c.unacked \in Nat
      BY <2>1 DEF Typed
    <3> QED  BY <2>0, <3>1, SMTT(20)
  <2> HIDE DEF n, r
  <2>4. u \in ClientEnd
    BY <2>1, <2>3, ZenonT(30) DEF ClientEnd
  <2>5. /\ u.tcpRead = c.tcpRead /\ u.beats = c.beats /\ u.unacked = n /\ u.out = c.out
        /\ u.finSent = c.finSent /\ u.peerFin = c.peerFin /\ u.kcpRead = c.kcpRead
        /\ u.guardFin = c.guardFin /\ u.stacked = c.stacked
        /\ SameSending(c, u) /\ SameReceiving(c, u)
    BY <2>1 DEF ClientEnd, SameSending, SameReceiving
  <2> HIDE DEF u
  <2>6. ClientInv(u) /\ Typed(u)
    BY <2>1, <2>4, <2>5, EndTyped, ZenonT(30) DEF ClientInv
  <2>7. Ends(u, s, lS, ClientLost(u))
    <3>1. Ends(u, s, lS, ClientLost(c))
      BY <2>0, <2>5, <2>6, <1>ClientSameEnds, ZenonT(30)
    <3>2. ClientLost(c) => ClientLost(u)
      BY <2>5, ZenonT(30) DEF ClientLost
    <3> QED  BY <3>1, <3>2, <1>LoseClient, ZenonT(30)
  <2>8. Throttled(u)
    BY <2>0, <2>1, <2>3, <2>5, AckThrottled, ZenonT(30)
  <2>9. Ends(r, s, lS, ClientLost(r)) /\ Throttled(r)
    BY <2>7, <2>8, <1>ClientResumeStep, ZenonT(30) DEF r
  <2> QED  BY <2>0, <2>2, <2>9, <1>ClientStep, SMTT(20)

(* A message arrives at the client. *)
<1>ToClientStep.
    ASSUME TunnelInv, ToClient
    PROVE  TunnelInv'
  <2> USE <1>ToClientStep
  <2> DEFINE c == client
             s == server
             o == Tail(s.out)
             q == Append(c.inq, Head(s.out))
             d == [s EXCEPT !.out = o, !.unacked = s.unacked + 1]
             u == [c EXCEPT !.inq = q]
             r == ClientReceived(u)
  <2>0. /\ Ends(c, s, ServerLost(s), ClientLost(c)) /\ Throttled(s) /\ Throttled(c)
        /\ link' \in BOOLEAN /\ faulted' \in BOOLEAN /\ s.out # <<>>
        /\ server' = d /\ client' = r
    BY DEF TunnelInv, ToClient
  <2>1. /\ s \in ServerEnd /\ ServerInv(s) /\ Typed(s)
        /\ c \in ClientEnd /\ ClientInv(c) /\ Typed(c)
    BY <2>0, EndsTyped, ZenonT(30)
  <2>2. s.out \in Seq(Int) /\ c.inq \in Seq(Int) /\ s.unacked \in Nat /\ s.unacked + 1 \in Nat
    BY <2>1, SMTT(20) DEF Typed
  <2>3. o \in Seq(Int) /\ q \in Seq(Int) /\ Len(o) + 1 = Len(s.out) /\ Len(o) \in Nat
    BY <2>0, <2>2
  <2> HIDE DEF o, q, r
  <2>4. d \in ServerEnd /\ u \in ClientEnd
    BY <2>1, <2>2, <2>3, ZenonT(30) DEF ClientEnd, ServerEnd
  <2>5. /\ d.targetEnded = s.targetEnded /\ d.tcpRead = s.tcpRead /\ d.claim = s.claim
        /\ d.beats = s.beats /\ d.unacked = s.unacked + 1 /\ d.out = o /\ d.active = s.active
        /\ d.finSent = s.finSent /\ d.got = s.got /\ d.peerFin = s.peerFin /\ d.read = s.read
        /\ d.kcpRead = s.kcpRead /\ SameReceiving(s, d)
        /\ d.targetClosed = s.targetClosed /\ d.sock = s.sock /\ d.stacked = s.stacked
    BY <2>1 DEF ServerEnd, SameReceiving
  <2>6. /\ u.finSent = c.finSent /\ u.active = c.active /\ u.out = c.out
        /\ u.tcpRead = c.tcpRead /\ u.kcpRead = c.kcpRead /\ u.beats = c.beats
        /\ u.unacked = c.unacked /\ u.stacked = c.stacked /\ u.guardFin = c.guardFin
        /\ u.peerFin = c.peerFin /\ u.inq = q /\ u.got = c.got /\ u.held = c.held
        /\ SameSending(c, u)
    BY <2>1, ZenonT(30) DEF ClientEnd, SameSending
  <2> HIDE DEF d, u
  <2>7. ServerInv(d) /\ ClientInv(u) /\ Typed(u) /\ Typed(d)
    BY <2>1, <2>4, <2>5, <2>6, EndTyped, ZenonT(30) DEF ServerInv, ClientInv
  <2>8. Flow(d, u, ServerEnded(d), ClientLost(u))
    <3>1. Flow(d, u, ServerEnded(s), ClientLost(c))
      <4>1. Flow(s, c, ServerEnded(s), ClientLost(c))
        BY <2>0, ZenonT(30) DEF Ends
      <4>2. d.out = Tail(s.out) /\ u.inq = Append(c.inq, Head(s.out))
        BY <2>5, <2>6 DEF o, q
      <4> QED  BY <2>0, <2>1, <2>5, <2>6, <2>7, <4>1, <4>2, FlowArrive, ZenonT(30)
    <3>2. (ServerEnded(d) => ServerEnded(s)) /\ (ClientLost(c) => ClientLost(u))
      BY <2>5, <2>6, ZenonT(30) DEF ClientLost, ServerEnded
    <3>3. SameSending(d, d) /\ SameReceiving(u, u)
      BY DEF SameSending, SameReceiving
    <3> QED  BY <2>7, <3>1, <3>2, <3>3, FlowSame
  <2>9. Flow(u, d, u.finSent, ServerLost(d))
    <3>1. (u.finSent => c.finSent) /\ (ServerLost(s) => ServerLost(d))
      BY <2>5, <2>6, ZenonT(30) DEF ServerLost
    <3>2. Flow(c, s, c.finSent, ServerLost(s))
      BY <2>0 DEF Ends
    <3>3. SameSending(c, u) /\ SameReceiving(s, d)
      BY <2>5, <2>6, Zenon
    <3> QED  BY <2>1, <2>7, <3>1, <3>2, <3>3, FlowSame, SMTT(20)
  <2>10. Ends(u, d, ServerLost(d), ClientLost(u))
    BY <2>0, <2>5, <2>6, <2>7, <2>8, <2>9, Zenon DEF Ends
  <2>11. Throttled(u)
    BY <2>0, <2>6, SameQueueThrottled, Zenon
  <2>12. Throttled(d)
    <3>1. WaitSend(d) = WaitSend(s)
      <4> DEFINE n == Len(o)
      <4>1. WaitSend(d) = n + (s.unacked + 1) /\ WaitSend(s) = Len(s.out) + s.unacked
        BY <2>5 DEF WaitSend
      <4>2. n \in Nat /\ s.unacked \in Nat /\ Len(s.out) = n + 1
        BY <2>2, <2>3, ZenonT(30)
      <4> HIDE DEF n
      <4> QED  BY <4>1, <4>2
    <3>2. Extra(d) = Extra(s)
      BY <2>5, ZenonT(30) DEF Extra
    <3> QED  BY <2>0, <2>5, <3>1, <3>2, ZenonT(30) DEF Throttled
  <2>13. Ends(r, d, ServerLost(d), ClientLost(r)) /\ Throttled(r)
    BY <2>10, <2>11, <1>ClientResumeStep DEF r
  <2> QED  BY <2>0, <2>12, <2>13, ZenonT(30) DEF TunnelInv

(* An end stops because encryption is refused. *)
<1>EncryptFailsStep.
    ASSUME TunnelInv, EncryptFails
    PROVE  TunnelInv'
  <2> USE <1>EncryptFailsStep
  <2>0. /\ link' \in BOOLEAN /\ faulted' \in BOOLEAN
        /\ Ends(client, server, ServerLost(server), ClientLost(client)) /\ Throttled(server)
    BY DEF TunnelInv, EncryptFails
  <2>1. CASE server' = StopServer(server) /\ UNCHANGED client
    <3> DEFINE r == StopServer(server)
    <3>1. ServerInv(r) /\ ServerQuiet(server, r)
      BY <2>0, EndsTyped, StopServerQuiet
    <3>2. server' = r
      BY <2>1
    <3> HIDE DEF r
    <3>3. Ends(client, r, ServerLost(r), ClientLost(client)) /\ Throttled(r)
      BY <2>0, <3>1, ServerQuietStep, ZenonT(30)
    <3> QED  BY <2>0, <2>1, <3>2, <3>3, ServerStep, ZenonT(30)
  <2>2. CASE client' = Stop(client) /\ UNCHANGED server
    <3> DEFINE r == Stop(client)
    <3>1. ClientInv(r) /\ Quiet(client, r)
      BY <2>0, EndsTyped, <1>StopQuiet
    <3>2. client' = r
      BY <2>2
    <3> HIDE DEF r
    <3> QED  BY <2>0, <2>2, <3>1, <3>2, <1>ClientQuietStep, ZenonT(30)
  <2> QED  BY <2>1, <2>2, ZenonT(30) DEF EncryptFails

<1> QED
  BY <1>AppReadStep, <1>ClientKcpReadStep, <1>AppWrittenStep, <1>ClientTickStep,
     <1>ClientIdleTimeoutStep, <1>GraceExpiresStep, <1>AckToClientStep,
     <1>ToClientStep, <1>EncryptFailsStep, ZenonT(30)

-----------------------------------------------------------------------------
(* The theorems. *)

(* The start of the forwarding loops satisfies the invariant. *)
LEMMA TunnelInvInit == Init => TunnelInv
<1> SUFFICES ASSUME Init PROVE TunnelInv
  OBVIOUS
<1> DEFINE c == client
           s == server
<1>1. PICK fin \in BOOLEAN : c = NewClient(fin) /\ s = NewServer(fin)
  BY TunnelAssumption DEF Init
<1>2. <<>> \in Seq(Int) /\ <<>> \in Seq(Nat) /\ Len(<<>>) = 0
  BY SMTT(20)
<1>3. c \in ClientEnd
  BY <1>1, <1>2 DEF NewClient, ClientEnd, Sock, TcpRead, KcpRead
<1>4. s \in ServerEnd
  BY <1>1, <1>2, ZenonT(30) DEF NewServer, ServerEnd, Sock, TcpRead, KcpRead
<1>5. /\ c.out = <<>> /\ c.inq = <<>> /\ c.got = <<>> /\ c.read = 0 /\ c.unacked = 0
      /\ c.finSent = FALSE /\ c.peerFin = FALSE /\ c.beats = 0 /\ c.stacked = FALSE
      /\ c.kcpRead = "pending" /\ c.guardFin = FALSE /\ c.active = TRUE
  BY <1>1, ZenonT(30) DEF NewClient
<1>6. /\ s.out = <<>> /\ s.inq = <<>> /\ s.got = <<>> /\ s.read = 0 /\ s.unacked = 0
      /\ s.finSent = FALSE /\ s.peerFin = FALSE /\ s.beats = 0 /\ s.stacked = FALSE
      /\ s.kcpRead = "pending" /\ s.targetEnded = FALSE /\ s.targetClosed = FALSE
      /\ s.claim = TRUE /\ s.sock = "open" /\ s.active = TRUE
  BY <1>1, ZenonT(30) DEF NewServer
<1> HIDE DEF c, s
<1>7. ClientInv(c)
  BY <1>3, <1>5, ZenonT(30) DEF ClientInv
<1>8. ServerInv(s)
  BY <1>4, <1>6, ZenonT(30) DEF ServerInv
<1>9. ASSUME NEW x, NEW y, NEW e, ~e, NEW l,
             x.out = <<>>, y.inq = <<>>, x.read = 0, y.got = <<>>, y.peerFin = FALSE,
             y.kcpRead = "pending"
      PROVE  Flow(x, y, e, l)
  <2>1. Taken(y) = 0
    BY <1>2, <1>9 DEF Taken
  <2>2. Holds(<<>>, 0, 0)
    BY HoldsEmpty
  <2>3. ~HasFin(<<>>) /\ Firsts(<<>>)
    BY <1>2, SMTT(20) DEF HasFin, Firsts
  <2>4. Between(x, y, e, 0, 0)
    BY <1>9, <2>1, <2>2, <2>3 DEF Between
  <2>5. 0 \in 0 .. x.read
    BY <1>9
  <2>6. Stream(x, y, e)
    BY <2>4, <2>5 DEF Stream
  <2> QED  BY <1>2, <1>9, <2>6 DEF Flow
<1>10. Flow(c, s, c.finSent, ServerLost(s))
  BY <1>5, <1>6, <1>9, Zenon
<1>11. Flow(s, c, ServerEnded(s), ClientLost(c))
  <2>1. ~ServerEnded(s)
    BY <1>6 DEF ServerEnded
  <2> QED  BY <1>5, <1>6, <1>9, <2>1, ZenonT(30)
<1>12. Ends(c, s, ServerLost(s), ClientLost(c))
  <2>1. c.beats + s.beats <= MaxKeepalives
    BY <1>5, <1>6, TunnelAssumption, SMTT(20)
  <2> QED  BY <1>5, <1>6, <1>7, <1>8, <1>10, <1>11, <2>1, ZenonT(30) DEF Ends
<1>13. ASSUME NEW x, x.out = <<>>, x.unacked = 0, x.beats = 0, x.finSent = FALSE
       PROVE  Throttled(x)
  BY <1>2, <1>13, TunnelAssumption DEF Throttled, WaitSend, Extra
<1>14. Throttled(c) /\ Throttled(s)
  BY <1>5, <1>6, <1>13, Zenon
<1> QED  BY <1>12, <1>14, Zenon DEF TunnelInv, Init, c, s

(* Every step keeps the invariant. *)
LEMMA TunnelInvNext == TunnelInv /\ [Next]_vars => TunnelInv'
<1> SUFFICES ASSUME TunnelInv, [Next]_vars PROVE TunnelInv'
  OBVIOUS
<1>1. ASSUME NEW outcome, TargetRead(outcome) PROVE TunnelInv'
  BY <1>1, ServerActions
<1>2. ASSUME NEW outcome, AppRead(outcome) PROVE TunnelInv'
  BY <1>2, ClientActions
<1>3. CASE ServerKcpRead
  BY <1>3, ServerActions
<1>4. CASE ClientKcpRead
  BY <1>4, ClientActions
<1>5. ASSUME NEW ok \in BOOLEAN, TargetWritten(ok) PROVE TunnelInv'
  BY <1>5, ServerActions
<1>6. ASSUME NEW ok \in BOOLEAN, AppWritten(ok) PROVE TunnelInv'
  BY <1>6, ClientActions
<1>7. ASSUME NEW due, ServerTick(due) PROVE TunnelInv'
  BY <1>7, ServerActions
<1>8. ASSUME NEW due, ClientTick(due) PROVE TunnelInv'
  BY <1>8, ClientActions
<1>9. CASE ServerSwept
  BY <1>9, ServerActions
<1>10. CASE ClientIdleTimeout
  BY <1>10, ClientActions
<1>11. CASE GraceExpires
  BY <1>11, ClientActions
<1>12. CASE ToServer
  BY <1>12, ServerActions
<1>13. CASE ToClient
  BY <1>13, ClientActions
<1>14. CASE AckToServer
  BY <1>14, ServerActions
<1>15. CASE AckToClient
  BY <1>15, ClientActions
<1>16. CASE LinkFails
  BY <1>16, Zenon DEF LinkFails, TunnelInv
<1>17. CASE EncryptFails
  BY <1>17, ClientActions, ZenonT(30)
<1>18. CASE UNCHANGED vars
  BY <1>18 DEF vars, TunnelInv
<1> QED
  BY <1>1, <1>2, <1>3, <1>4, <1>5, <1>6, <1>7, <1>8, <1>9, <1>10, <1>11, <1>12, <1>13,
     <1>14, <1>15, <1>16, <1>17, <1>18, ZenonT(30) DEF Next

(* Each direction of an established tunnel is a stream that is cut nowhere but *)
(* at its end: what the reader wrote, has in hand, has queued and what is      *)
(* still in KCP are the units the sender read, in order, and a FIN sent at the *)
(* end of the data comes after all of it; whatever order the handlers of       *)
(* client.cpp, server.cpp and kcp_tunnel.cpp run in.                           *)
THEOREM TunnelInvariant == Spec => []TunnelInv
BY TunnelInvInit, TunnelInvNext, PTL DEF Spec

(* For any amount of data, watermarks and heartbeats, the app receives a       *)
(* prefix of what the target sent and the target a prefix of what the app sent *)
(* (try_fulfill_read and the two forwarding loops).                            *)
THEOREM StreamsArePrefixes == Spec => []StreamPrefix
<1>1. TunnelInv => StreamPrefix
  <2> SUFFICES ASSUME TunnelInv PROVE StreamPrefix
    BY ZenonT(30)
  <2>1. client \in ClientEnd /\ server \in ServerEnd
    BY EndsTyped, ZenonT(30) DEF TunnelInv
  <2>2. TypeOK
    BY <2>1, ZenonT(30) DEF TypeOK, TunnelInv, ClientEnd, ServerEnd, Sock, TcpRead, KcpRead
  <2> QED  BY <2>2 DEF StreamPrefix, TunnelInv, Ends, Flow
<1> QED  BY <1>1, TunnelInvariant, PTL

(* No interleaving of datagrams, ticks and finished writes starts a second     *)
(* read of a tunnel while one is outstanding: FORWARD_READ_PENDING on the      *)
(* server, the single loop of forward_kcp_to_client on the client.             *)
THEOREM ReadsDoNotStack == Spec => []NoStackedRead
<1>1. TunnelInv => NoStackedRead
  BY DEF TunnelInv, Ends, ClientInv, ServerInv, NoStackedRead
<1> QED  BY <1>1, TunnelInvariant, PTL

(* A half-close cuts off nothing: the app is told of the end of a target that  *)
(* ended its stream, and the target's write side is shut down, only after      *)
(* everything sent before was written (send_fin, handle_server_fin, the eof    *)
(* branch of forward_kcp_to_tcp).                                              *)
THEOREM HalfCloseTruncatesNothing == Spec => []HalfCloseComplete
<1>1. TunnelInv => HalfCloseComplete
  <2> SUFFICES ASSUME TunnelInv PROVE HalfCloseComplete
    OBVIOUS
  <2>1. /\ ClientInv(client) /\ ServerInv(server)
        /\ Flow(client, server, client.finSent, ServerLost(server))
        /\ Flow(server, client, ServerEnded(server), ClientLost(client))
    BY ZenonT(30) DEF TunnelInv, Ends
  <2>2. client.guardFin /\ server.targetEnded => Len(client.got) = server.read
    BY <2>1, ZenonT(30) DEF ClientInv, Flow, ServerEnded
  <2>3. server.sock = "shut" => Len(server.got) = client.read
    BY <2>1, ZenonT(30) DEF ServerInv, Flow
  <2> QED  BY <2>2, <2>3, ZenonT(30) DEF HalfCloseComplete
<1> QED  BY <1>1, TunnelInvariant, PTL

(* With backpressure_threshold() checked before each TCP read, the send queue  *)
(* of an end never exceeds the threshold, one FIN and the heartbeats, for any  *)
(* threshold and any resume mark below it.                                     *)
THEOREM WatermarksBoundTheQueues == Spec => []SendQueueBounded
<1>1. TunnelInv => SendQueueBounded
  <2> SUFFICES ASSUME TunnelInv PROVE SendQueueBounded
    OBVIOUS
  <2>1. /\ Typed(client) /\ Typed(server)
        /\ client.beats + server.beats <= MaxKeepalives
    BY EndsTyped, ZenonT(30) DEF TunnelInv, Ends
  <2>2. client.beats \in Nat /\ server.beats \in Nat
    BY <2>1 DEF Typed
  <2>3. ASSUME NEW x \in {client, server} PROVE WaitSend(x) <= Threshold + 1 + MaxKeepalives
    <3>1. Throttled(x) /\ Typed(x) /\ x.beats \in Nat /\ x.beats <= MaxKeepalives
      BY <2>1, <2>2, TunnelAssumption, SMTT(20) DEF TunnelInv
    <3>2. WaitSend(x) \in Nat
      BY <3>1, SMTT(20) DEF Typed, WaitSend
    <3>3. WaitSend(x) <= Threshold + Extra(x) /\ Extra(x) \in Nat /\ Extra(x) <= x.beats + 1
      BY <3>1 DEF Throttled, Extra
    <3> QED  BY <3>1, <3>2, <3>3, TunnelAssumption
  <2> QED  BY <2>3, ZenonT(30) DEF SendQueueBounded
<1> QED  BY <1>1, TunnelInvariant, PTL
=============================================================================
