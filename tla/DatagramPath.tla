---------------------------- MODULE DatagramPath ----------------------------
(***************************************************************************)
(* Between KCP and the UDP socket, at both ends of one session             *)
(* (kcp_tunnel.cpp, kcp_session.cpp, kcp_client_session.cpp, server.cpp):  *)
(*   - the datagrams of one KCP flush are framed for erasure coding,       *)
(*     collected, sealed and handed over as one burst;                     *)
(*   - the client's strand sends its burst at once; a server session posts *)
(*     it to the strand of the socket all sessions share;                  *)
(*   - a burst goes out by sendmmsg as far as the kernel takes it and the  *)
(*     rest as asynchronous sends;                                         *)
(*   - the receiving end unframes, feeds KCP, and lets the decoder rebuild *)
(*     what was lost.  The server learns from the first datagram whether   *)
(*     its client frames.                                                  *)
(* A datagram of KCP is its number in order of emission.  The network      *)
(* loses and reorders; duplicates end at the replay window (SealedChannel).*)
(***************************************************************************)
EXTENDS Integers, Sequences, FiniteSets, Functions

-----------------------------------------------------------------------------
(* Bags: how often each of their elements is in them. *)

SetToBag(S) == [x \in S |-> 1]

EmptyBag == SetToBag({})

BagToSet(bag) == DOMAIN bag

a (+) b ==
    [x \in DOMAIN a \cup DOMAIN b |->
        (IF x \in DOMAIN a THEN a[x] ELSE 0) + (IF x \in DOMAIN b THEN b[x] ELSE 0)]

-----------------------------------------------------------------------------
CONSTANTS
    Settings,      \* [client, server, most]: -fec at the two ends, and the bound
                   \* on the datagrams their KCPs emit together under it
    Adaptive,      \* FEC_ADAPTIVE_DATA_SHARDS, FEC_ADAPTIVE_PARITY_SHARDS
    MaxFlush       \* bound: datagrams in one flush

Off == [data |-> 0, parity |-> 0]

(* What parse_fec_config accepts. *)
Shards ==
    {c \in [data : Nat, parity : Nat] :
        c = Off \/ (/\ c.data > 0 /\ c.parity > 0 /\ c.parity <= c.data
                    /\ c.data + c.parity <= 256)}

ASSUME DatagramAssumption ==
    /\ Settings \subseteq [client : Shards, server : Shards, most : Nat]
    /\ Adaptive \in Shards \ {Off}
    /\ MaxFlush \in Nat

Client == "client"
Server == "server"
End == {Client, Server}
Peer(e) == IF e = Client THEN Server ELSE Client

VARIABLES
    setting,     \* the -fec of this run
    running,     \* running[e]: the session at e runs
    open,        \* open[e]: the UDP socket of e is open
    fec,         \* fec[e]: the session's shard parameters
    encoder,     \* encoder[e]: next seqid, and the datagrams of the set begun
    emitted,     \* emitted[e]: datagrams KCP has emitted
    teardown,    \* encrypt_teardown_: the client posted its own shut_down
    posted,      \* bursts queued on the strand of the server's socket
    pending,     \* pending[e]: asynchronous sends not completed, in order
    sent,        \* sent[e]: bag of what the kernel accepted
    lost,        \* lost[e]: frames dropped after they were sealed
    sealed,      \* history, sealed[e]: frames of the bursts handed over
    got,         \* got[e]: frames that reached the session
    fed,         \* fed[e]: frames given to the decoder
    input,       \* input[e]: datagrams given to KCP
    refused      \* refused[e]: frames KCP or the framing refused

sending == <<encoder, emitted, teardown, posted, pending, sent, lost, sealed>>
receiving == <<got, fed, input, refused>>
vars == <<setting, running, open, fec, sending, receiving>>

Init ==
    /\ setting \in Settings
    /\ fec = [e \in End |-> IF e = Client THEN setting.client ELSE Off]
    /\ running = [e \in End |-> e = Client]
    /\ open = [e \in End |-> TRUE]
    /\ encoder = [e \in End |-> [next |-> 0, set |-> <<>>]]
    /\ emitted = [e \in End |-> 0]
    /\ teardown = FALSE
    /\ posted = <<>>
    /\ pending = [e \in End |-> <<>>]
    /\ sent = [e \in End |-> EmptyBag]
    /\ lost = [e \in End |-> {}]
    /\ sealed = [e \in End |-> {}]
    /\ got = [e \in End |-> {}]
    /\ fed = [e \in End |-> {}]
    /\ input = [e \in End |-> {}]
    /\ refused = [e \in End |-> {}]

-----------------------------------------------------------------------------
(* Framing. *)

Frame(type, seqid, body) == [type |-> type, seqid |-> seqid, body |-> body]

(* FecEncoder::Encode as the tunnel relies on it: a data shard at once; behind *)
(* the last one of a set its parity shards, if the set was a burst.  Their     *)
(* sequence numbers are used up either way.  A parity shard stands for the     *)
(* data shards it covers.                                                      *)
Encode(config, c, d, burst) ==
    LET set == Append(c.set, d)
        complete == Len(set) = config.data
        parity == IF complete /\ burst THEN config.parity ELSE 0
    IN  [encoder |-> [next |-> c.next + 1 + (IF complete THEN config.parity ELSE 0),
                      set |-> IF complete THEN <<>> ELSE set],
         frames |-> <<Frame("data", c.next, <<d>>)>>
                        \o [i \in 1 .. parity |-> Frame("parity", c.next + i, set)]]

(* on_kcp_datagram: burst is the encoder's continuity test against the RTO,    *)
(* or false while adaptive parity passes it an RTO of zero.                    *)
OnKcpDatagram(config, c, d, burst) ==
    IF config = Off
    THEN [encoder |-> c, frames |-> <<Frame("bare", 0, <<d>>)>>]
    ELSE Encode(config, c, d, burst)

(* A datagram joins the batch: end_output_batch seals what collects here. *)
Collect(config, batch, d, burst) ==
    LET step == OnKcpDatagram(config, batch.encoder, d, burst)
    IN  [encoder |-> step.encoder, frames |-> batch.frames \o step.frames]

(* The batch of k datagrams after the first n. *)
Batch(config, c, n, k, burst) ==
    LET after[i \in 0 .. k] ==
            IF i = 0 THEN [encoder |-> c, frames |-> <<>>]
            ELSE Collect(config, after[i - 1], n + i, burst)
    IN  after[k]

(* One flush of k datagrams at end e. *)
Collected(e, k, burst) == Batch(fec[e], encoder[e], emitted[e], k, burst)

-----------------------------------------------------------------------------
(* The wire. *)

(* The bag of the elements of a sequence, and of a sequence of sequences. *)
ToBag(q) == [x \in Range(q) |-> Cardinality({i \in DOMAIN q : q[i] = x})]

ToBags(qs) ==
    LET places == UNION {{i} \X DOMAIN qs[i] : i \in DOMAIN qs}
    IN  [x \in UNION {Range(qs[i]) : i \in DOMAIN qs} |->
            Cardinality({p \in places : qs[p[1]][p[2]] = x})]

(* Everything from the first refused datagram on is sent again by the          *)
(* asynchronous path, what the kernel took included.                           *)
SendBurstAgain(e, burst, accepted) ==
    /\ sent' = [sent EXCEPT ![e] = @ (+) ToBag(SubSeq(burst, 1, accepted))]
    /\ pending' = [pending EXCEPT ![e] = @ \o (IF accepted < Len(burst) THEN burst ELSE <<>>)]

(* sendmmsg in chunks until the kernel takes less than a chunk: what it takes  *)
(* is a prefix of the burst.  The remainder becomes asynchronous sends, which  *)
(* wait behind the ones already pending.                                       *)
SendBurst(e, burst, accepted) ==
    /\ sent' = [sent EXCEPT ![e] = @ (+) ToBag(SubSeq(burst, 1, accepted))]
    /\ pending' = [pending EXCEPT ![e] = @ \o SubSeq(burst, accepted + 1, Len(burst))]

(* A single datagram does not use sendmmsg: it can leave at once only when no  *)
(* other asynchronous send is waiting.                                         *)
Acceptable(e, burst) ==
    IF Len(burst) = 1 /\ pending[e] # <<>> THEN {0} ELSE 0 .. Len(burst)

Discard(e, frames) == lost' = [lost EXCEPT ![e] = @ \cup Range(frames)]

(* An asynchronous send completes. *)
SendCompletes(e) ==
    /\ pending[e] # <<>>
    /\ sent' = [sent EXCEPT ![e] = @ (+) SetToBag({Head(pending[e])})]
    /\ pending' = [pending EXCEPT ![e] = Tail(@)]
    /\ UNCHANGED <<setting, running, open, fec, encoder, emitted, teardown, posted, lost,
                   sealed, receiving>>

(* It fails: logged, and left to KCP's retransmission. *)
SendFails(e) ==
    /\ pending[e] # <<>>
    /\ Discard(e, <<Head(pending[e])>>)
    /\ pending' = [pending EXCEPT ![e] = Tail(@)]
    /\ UNCHANGED <<setting, running, open, fec, encoder, emitted, teardown, posted, sent,
                   sealed, receiving>>

-----------------------------------------------------------------------------
(* What KCP emits, at a flush or when it is fed.                               *)

onlySending == <<setting, open, fec, receiving>>

Emits(e, k, burst) ==
    /\ running[e]
    /\ burst => fec[e] # Off
    /\ emitted[Client] + emitted[Server] + k <= setting.most
    /\ emitted' = [emitted EXCEPT ![e] = @ + k]
    /\ encoder' = [encoder EXCEPT ![e] = Collected(e, k, burst).encoder]

(* A sealed burst leaves its session. *)
HandOver(e, burst) ==
    /\ sealed' = [sealed EXCEPT ![e] = @ \cup Range(burst)]
    /\ IF e = Client
       THEN /\ \E accepted \in Acceptable(e, burst) : SendBurst(e, burst, accepted)
            /\ UNCHANGED posted
       ELSE /\ posted' = Append(posted, burst)
            /\ UNCHANGED <<sent, pending>>

(* flush_cycle: the batch is sealed and handed over as one burst. *)
FlushCycle(e, k, burst) ==
    /\ Emits(e, k, burst)
    /\ HandOver(e, Collected(e, k, burst).frames)
    /\ UNCHANGED <<onlySending, running, teardown, lost>>

(* The client notes that sealing was refused and carries on. *)
SealRefusedQuietly(e) ==
    /\ running' = [running EXCEPT ![e] = e = Client]
    /\ UNCHANGED teardown

(* A server session stops on the spot; the client may be inside its own final  *)
(* flush, so it posts its shut_down, once.                                     *)
SealRefused(e) ==
    /\ running' = [running EXCEPT ![e] = e = Client]
    /\ teardown' = (teardown \/ e = Client)

(* Sealing is refused for some datagram of the batch: all of it is dropped. *)
FlushRefused(e, k, burst) ==
    /\ Emits(e, k, burst)
    /\ SealRefused(e)
    /\ UNCHANGED <<onlySending, posted, pending, sent, lost, sealed>>

(* Its frames leave one by one. *)
HandOverEach(e, handed) ==
    /\ sealed' = [sealed EXCEPT ![e] = @ \cup Range(handed)]
    /\ IF e = Client
       THEN /\ \E accepted \in (IF pending[e] = <<>> THEN 0 .. Len(handed) ELSE {0}) :
                  SendBurst(e, handed, accepted)
            /\ UNCHANGED posted
       ELSE /\ posted' = posted \o [i \in DOMAIN handed |-> <<handed[i]>>]
            /\ UNCHANGED <<sent, pending>>

(* The one way to put a set of positions in order. *)
Increasing(S) ==
    {q \in [1 .. Cardinality(S) -> S] : \A i, j \in DOMAIN q : i < j => q[i] < q[j]}

(* A datagram KCP emits while it is fed is outside any batch: its frames are   *)
(* sealed and handed over one by one, those refused left out.  The first       *)
(* refusal at the server silences the rest.                                    *)
EmitOutput(e, burst, bad) ==
    LET frames == Collected(e, 1, burst).frames
        out == {i \in DOMAIN frames \ bad : e = Server => \A j \in bad : i < j}
    IN  /\ bad \subseteq DOMAIN frames
        /\ Emits(e, 1, burst)
        /\ IF bad = {} THEN UNCHANGED <<running, teardown>> ELSE SealRefused(e)
        /\ \E order \in Increasing(out) :
              LET handed == [i \in DOMAIN order |-> frames[order[i]]]
              IN  HandOverEach(e, handed)
        /\ UNCHANGED <<onlySending, lost>>

(* A posted burst runs on the socket's strand. *)
SendBatchToClient ==
    /\ posted # <<>>
    /\ posted' = Tail(posted)
    /\ IF open[Server]
       THEN /\ \E accepted \in Acceptable(Server, Head(posted)) :
                  SendBurst(Server, Head(posted), accepted)
            /\ UNCHANGED lost
       ELSE /\ Discard(Server, Head(posted))
            /\ UNCHANGED <<sent, pending>>
    /\ UNCHANGED <<onlySending, running, encoder, emitted, teardown, sealed>>

-----------------------------------------------------------------------------
(* The ends of the session. *)

(* on_close: a last flush while still running, which may be refused; then the  *)
(* socket closes and takes the waiting sends with it.                          *)
OnClose(k, burst, refusal) ==
    LET frames == IF refusal THEN <<>> ELSE Collected(Client, k, burst).frames IN
    /\ Emits(Client, k, burst)
    /\ (burst \/ refusal) => k > 0
    /\ sealed' = [sealed EXCEPT ![Client] = @ \cup Range(frames)]
    /\ \E accepted \in Acceptable(Client, frames) :
          /\ sent' = [sent EXCEPT ![Client] = @ (+) ToBag(SubSeq(frames, 1, accepted))]
          /\ Discard(Client, pending[Client] \o SubSeq(frames, accepted + 1, Len(frames)))
    /\ pending' = [pending EXCEPT ![Client] = <<>>]
    /\ running' = [running EXCEPT ![Client] = FALSE]
    /\ open' = [open EXCEPT ![Client] = FALSE]
    /\ UNCHANGED <<setting, fec, teardown, posted, receiving>>

(* KCPSession::stop; what it had posted still goes out. *)
StopSession ==
    /\ running[Server]
    /\ running' = [running EXCEPT ![Server] = FALSE]
    /\ UNCHANGED <<onlySending, sending>>

(* KCPServer::stop: from now on posted bursts are dropped ... *)
StopServer ==
    /\ open[Server]
    /\ open' = [open EXCEPT ![Server] = FALSE]
    /\ UNCHANGED <<setting, running, fec, sending, receiving>>

(* ... and on the socket's strand it closes the socket. *)
SocketCloses ==
    /\ ~open[Server]
    /\ pending[Server] # <<>>
    /\ Discard(Server, pending[Server])
    /\ pending' = [pending EXCEPT ![Server] = <<>>]
    /\ UNCHANGED <<onlySending, running, encoder, emitted, teardown, posted, sent, sealed>>

-----------------------------------------------------------------------------
(* Receiving. *)

(* FecDecoder::Decode: a set with as many shards as it has data shards yields  *)
(* the missing ones.  Shards that do not belong together yield bytes that are  *)
(* no datagram, written 0.                                                     *)
Rebuilt(config, frames, seqid) ==
    LET size == config.data + config.parity
        group == {f \in frames : f.seqid \div size = seqid \div size}
        index(f) == (f.seqid % size) + 1
        agrees(body) == /\ Len(body) = config.data
                        /\ \A f \in group : f.type = "data" =>
                              index(f) <= config.data /\ f.body = <<body[index(f)]>>
        covers == {f.body : f \in {g \in group : g.type = "parity"}}
        missing == 1 .. config.data \ {index(f) : f \in group}
    IN  IF Cardinality(group) < config.data THEN {}
        ELSE {IF \E body \in covers : agrees(body)
              THEN (CHOOSE body \in covers : agrees(body))[i] ELSE 0 : i \in missing}

(* Only parity shards are given to the decoder. *)
FeedKcpInputParityOnly(e, config, f) ==
    LET framed == f.type # "bare"
        decoded == IF f.type = "parity" THEN {f} ELSE {}
    IN  IF framed # (config # Off)
        THEN /\ refused' = [refused EXCEPT ![e] = @ \cup {f}]
             /\ UNCHANGED <<fed, input>>
        ELSE /\ fed' = [fed EXCEPT ![e] = @ \cup decoded]
             /\ input' = [input EXCEPT ![e] = @
                   \cup (IF f.type = "parity" THEN {} ELSE Range(f.body))
                   \cup (IF decoded # {} THEN Rebuilt(config, fed[e] \cup decoded, f.seqid) ELSE {})]
             /\ UNCHANGED refused

(* feed_kcp_input: the datagram of a data shard goes straight to KCP; every    *)
(* shard goes to the decoder, and what that rebuilds goes to KCP too.          *)
FeedKcpInput(e, config, f) ==
    LET framed == f.type # "bare"
        decoded == IF framed THEN {f} ELSE {}
    IN  IF framed # (config # Off)
        THEN /\ refused' = [refused EXCEPT ![e] = @ \cup {f}]
             /\ UNCHANGED <<fed, input>>
        ELSE /\ fed' = [fed EXCEPT ![e] = @ \cup decoded]
             /\ input' = [input EXCEPT ![e] = @
                   \cup (IF f.type = "parity" THEN {} ELSE Range(f.body))
                   \cup (IF decoded # {} THEN Rebuilt(config, fed[e] \cup decoded, f.seqid) ELSE {})]
             /\ UNCHANGED refused

InFlight(e) == BagToSet(sent[Peer(e)]) \ got[e]

(* on_receive at a running session. *)
OnReceive(e) ==
    \E f \in InFlight(e) :
        /\ running[e]
        /\ got' = [got EXCEPT ![e] = @ \cup {f}]
        /\ FeedKcpInput(e, fec[e], f)
        /\ UNCHANGED <<setting, running, open, fec, sending>>

(* The server frames as its own -fec says, whatever the client does. *)
SessionFecAsConfigured(f) == setting.server

(* A client that frames gets frames, with the server's own shard parameters if *)
(* it has any.                                                                 *)
SessionFec(f) ==
    IF f.type = "bare" THEN Off
    ELSE IF setting.server # Off THEN setting.server ELSE Adaptive

(* get_or_create_session and inject_decrypted: whichever datagram of the       *)
(* client arrives first makes the session.                                     *)
CreateSession ==
    \E f \in InFlight(Server) :
        /\ ~running[Server] /\ got[Server] = {} /\ open[Server]
        /\ running' = [running EXCEPT ![Server] = TRUE]
        /\ fec' = [fec EXCEPT ![Server] = SessionFec(f)]
        /\ got' = [got EXCEPT ![Server] = {f}]
        /\ FeedKcpInput(Server, SessionFec(f), f)
        /\ UNCHANGED <<setting, open, sending>>

-----------------------------------------------------------------------------
Next ==
    \/ \E e \in End, burst \in BOOLEAN :
          \/ \E k \in 1 .. MaxFlush : FlushCycle(e, k, burst) \/ FlushRefused(e, k, burst)
          \/ \E bad \in SUBSET (1 .. 1 + fec[e].parity) : EmitOutput(e, burst, bad)
    \/ \E e \in End : SendCompletes(e) \/ SendFails(e) \/ OnReceive(e)
    \/ \E k \in 0 .. MaxFlush, burst, refusal \in BOOLEAN : OnClose(k, burst, refusal)
    \/ SendBatchToClient \/ CreateSession
    \/ StopSession \/ StopServer \/ SocketCloses

Spec == Init /\ [][Next]_vars

(* A shut_down posted to the client's strand runs; so does a burst posted to   *)
(* the socket's strand, and a send completes one way or the other.             *)
Fairness ==
    /\ WF_vars(teardown /\ \E k \in 0 .. MaxFlush, burst, refusal \in BOOLEAN :
                              OnClose(k, burst, refusal))
    /\ WF_vars(SendBatchToClient)
    /\ \A e \in End : WF_vars(SendCompletes(e) \/ SendFails(e))

FairSpec == Spec /\ Fairness

-----------------------------------------------------------------------------
(* Properties *)

(* Every frame of a burst that left its session is in exactly one place: still *)
(* on the socket's strand, waiting in an asynchronous send, accepted by the    *)
(* kernel, or dropped with its socket.  Nothing is sent twice and nothing      *)
(* falls between sendmmsg and the asynchronous path, however much of a burst   *)
(* the kernel takes and whoever stops meanwhile.                               *)
HandedOnce ==
    \A e \in End :
        SetToBag(sealed[e]) = sent[e] (+) SetToBag(lost[e]) (+) ToBag(pending[e])
            (+) (IF e = Server THEN ToBags(posted) ELSE EmptyBag)

(* Neither end is ever sent a frame its framing refuses, whatever -fec says at *)
(* either end and whichever datagram, parity included, reaches the server      *)
(* first.                                                                      *)
FramingAgrees == \A e \in End : refused[e] = {}

(* KCP is fed every datagram that arrived, and nothing that the peer's KCP did *)
(* not emit.  When both ends use the same shard parameters, as many shards of  *)
(* a protected set as it has data shards bring in the whole set, whatever      *)
(* parity was skipped before.                                                  *)
RepairExact ==
    \A e \in End :
        LET size == fec[e].data + fec[e].parity
            siblings(f) == {g \in got[e] : g.seqid \div size = f.seqid \div size}
        IN  /\ \A f \in got[e] : f.type # "parity" => Range(f.body) \subseteq input[e]
            /\ got[e] # {} /\ fec[e] = fec[Peer(e)] =>
                  /\ input[e] \subseteq 1 .. emitted[Peer(e)]
                  /\ \A f \in got[e] :
                        f.type = "parity" /\ Cardinality(siblings(f)) >= fec[e].data
                            => Range(f.body) \subseteq input[e]

(* KCP emitted a datagram that was never sealed. *)
Hole(e) ==
    \E d \in 1 .. emitted[e] : \A f \in sealed[e] : f.type = "parity" \/ f.body # <<d>>

(* A refused sealing is a hole in what KCP believes it sent, so the session    *)
(* ends: at the client too, which only posts its shut_down.  And whatever a    *)
(* session handed over before it ended leaves the socket's strand and the      *)
(* waiting sends.                                                              *)
RefusalEnds ==
    /\ \A e \in End : Hole(e) ~> ~running[e]
    /\ (got[Server] # {} /\ ~running[Server]) ~> (posted = <<>> /\ pending[Server] = <<>>)
=============================================================================
