------------------------------- MODULE Tunnel -------------------------------
(***************************************************************************)
(* One established tunnel: app <-> client session <-> server session <->   *)
(* target, from the start of the forwarding loops to the release of both   *)
(* sockets (client.cpp, server.cpp, kcp_tunnel.cpp and the two sessions).  *)
(* Each end runs on a strand of its own, so a handler is one step, and     *)
(* every helper below takes the state of an end and returns the state the  *)
(* handler leaves behind.  KCP delivers what an end queues in order or not *)
(* at all.  A unit of stream data is its number in its direction.          *)
(***************************************************************************)
EXTENDS Integers, Sequences

CONSTANTS
    Negotiated,      \* outcomes of the handshake: fin_enabled_ of both ends
    Threshold,       \* backpressure_threshold(), in messages
    Resume,          \* backpressure_resume()
    AppData,         \* bound: units the app sends
    TargetData,      \* bound: units the target sends
    MaxKeepalives    \* bound: heartbeats sent, by both ends together

ASSUME TunnelAssumption ==
    /\ Negotiated \subseteq BOOLEAN
    /\ Threshold \in Nat \ {0}
    /\ Resume \in 0 .. Threshold - 1
    /\ AppData \in Nat /\ TargetData \in Nat /\ MaxKeepalives \in Nat

(* Stream data is numbered from 1; the two control messages are not data. *)
Fin == 0
Keepalive == -1

VARIABLES
    client,     \* the client session and the app's connection
    server,     \* the server session and the target's connection
    link,       \* datagrams get through
    faulted     \* history: something outside the two programs failed

vars == <<client, server, link, faulted>>

(***************************************************************************)
(* An end:                                                                 *)
(*   active    running_ / RUNNING                                          *)
(*   sock      its TCP socket: open, shut (send side), closed              *)
(*   tcpRead   the loop that reads TCP: armed, parked on backpressure, off *)
(*   kcpRead   the loop that reads KCP: idle; pending in the session;      *)
(*             data, eof, aborted: completion posted; writing to TCP       *)
(*   fin       fin_enabled_: the peer knows the end-of-stream message      *)
(*   held      the unit the second loop is handling                        *)
(*   out       messages queued in KCP that have not arrived                *)
(*   unacked   messages that arrived and are not acknowledged              *)
(*   inq       messages that arrived and are not read                      *)
(*   read, got history: units read from TCP, units written to TCP          *)
(*   stacked   history: a KCP read was started while one was outstanding   *)
(* and on the server drainCb (drained_cb_), claim (FORWARD_READ_PENDING),  *)
(* inTable (sessions_ holds it); on the client the HalfCloseGuard, and the  *)
(* history of whether the app left a write waiting for the idle timeout.    *)
(***************************************************************************)
NewServer(fin) ==
    [fin |-> fin, active |-> TRUE, sock |-> "open", tcpRead |-> "armed",
     kcpRead |-> "pending", held |-> 0, out |-> <<>>, unacked |-> 0, inq |-> <<>>,
     finSent |-> FALSE, peerFin |-> FALSE, beats |-> 0, read |-> 0, got |-> <<>>,
     stacked |-> FALSE, targetClosed |-> FALSE, targetEnded |-> FALSE, drainCb |-> TRUE,
     claim |-> TRUE, inTable |-> TRUE]

NewClient(fin) ==
    [fin |-> fin, active |-> TRUE, sock |-> "open", tcpRead |-> "armed",
     kcpRead |-> "pending", held |-> 0, out |-> <<>>, unacked |-> 0, inq |-> <<>>,
     finSent |-> FALSE, peerFin |-> FALSE, beats |-> 0, read |-> 0, got |-> <<>>,
     stacked |-> FALSE, appEof |-> FALSE, guardFin |-> FALSE, grace |-> FALSE,
     progress |-> FALSE, appStalled |-> FALSE]

-----------------------------------------------------------------------------
(* KcpTunnel, common to both ends. *)

WaitSend(x) == Len(x.out) + x.unacked

Queue(x, m) == [x EXCEPT !.out = Append(@, m)]

SendData(x, m) == IF x.active THEN Queue(x, m) ELSE x

(* The FIN overtakes what is queued. *)
SendFinFirst(x) ==
    IF x.fin /\ x.active /\ ~x.finSent
    THEN [x EXCEPT !.out = <<Fin>> \o @, !.finSent = TRUE]
    ELSE x

SendFin(x) ==
    IF x.fin /\ x.active /\ ~x.finSent
    THEN [Queue(x, Fin) EXCEPT !.finSent = TRUE]
    ELSE x

UnparkWrite(x) == [x EXCEPT !.tcpRead = IF @ = "parked" THEN "off" ELSE @]

(* stop() and on_close(): a parked loop is dropped, a pending read aborted. *)
Stop(x) ==
    IF ~x.active THEN x
    ELSE [UnparkWrite(x) EXCEPT !.active = FALSE,
                                !.kcpRead = IF @ = "pending" THEN "aborted" ELSE @]

(* Heartbeats are not recognised. *)
TryFulfillReadForwardsBeats(x) ==
    IF x.kcpRead # "pending" \/ x.inq = <<>> THEN x
    ELSE IF Head(x.inq) = Fin
         THEN [x EXCEPT !.inq = Tail(@), !.peerFin = TRUE, !.kcpRead = "eof"]
         ELSE [x EXCEPT !.inq = Tail(@), !.held = Head(x.inq), !.kcpRead = "data"]

(* One message completes a pending read; heartbeats ahead of it are dropped. *)
TryFulfillRead(x) ==
    LET others == {i \in 1 .. Len(x.inq) : x.inq[i] # Keepalive}
        first == CHOOSE i \in others : \A j \in others : i <= j
        y == [x EXCEPT !.inq = SubSeq(@, first + 1, Len(@))]
    IN  IF x.kcpRead # "pending" THEN x
        ELSE IF others = {} THEN [x EXCEPT !.inq = <<>>]
        ELSE IF x.inq[first] = Fin THEN [y EXCEPT !.peerFin = TRUE, !.kcpRead = "eof"]
        ELSE [y EXCEPT !.held = x.inq[first], !.kcpRead = "data"]

AsyncReadSome(x) ==
    IF ~x.active THEN [x EXCEPT !.kcpRead = "aborted"]
    ELSE IF x.kcpRead # "idle" THEN [x EXCEPT !.stacked = TRUE]
    ELSE TryFulfillRead([x EXCEPT !.kcpRead = "pending"])

(* A heartbeat is queued when one is due and nothing waits to be read. *)
MaybeSendKeepalive(x, due) ==
    IF due /\ x.inq = <<>> /\ client.beats + server.beats < MaxKeepalives
    THEN [Queue(x, Keepalive) EXCEPT !.beats = @ + 1]
    ELSE x

-----------------------------------------------------------------------------
(* The server's handlers. *)

StopServer(s) == [Stop(s) EXCEPT !.claim = FALSE]

CloseConnection(s) ==
    IF s.inTable THEN StopServer([s EXCEPT !.inTable = FALSE, !.sock = "closed"]) ELSE s

(* The target's end is announced, its socket closed, the session kept to       *)
(* drain what is queued for the client.                                        *)
HandleTargetClosed(s) ==
    LET marked == IF s.targetClosed THEN s
                  ELSE SendFin(UnparkWrite([s EXCEPT !.targetClosed = TRUE]))
    IN  [marked EXCEPT !.sock = "closed", !.claim = FALSE]

(* The send queue is not looked at before the next read. *)
ForwardTcpToKcpUnthrottled(s) ==
    IF s.targetClosed THEN [s EXCEPT !.tcpRead = "off"]
    ELSE IF s.sock = "closed" \/ ~s.active THEN CloseConnection([s EXCEPT !.tcpRead = "off"])
    ELSE [s EXCEPT !.tcpRead = "armed"]

ForwardTcpToKcp(s) ==
    IF s.targetClosed THEN [s EXCEPT !.tcpRead = "off"]
    ELSE IF s.sock = "closed" \/ ~s.active THEN CloseConnection([s EXCEPT !.tcpRead = "off"])
    ELSE [s EXCEPT !.tcpRead = IF WaitSend(s) >= Threshold THEN "parked" ELSE "armed"]

(* Every datagram starts a read. *)
ForwardKcpToTcpUnclaimed(s) ==
    IF s.targetClosed \/ s.peerFin THEN [s EXCEPT !.claim = FALSE]
    ELSE IF ~s.active \/ ~s.inTable \/ s.sock = "closed" THEN s
    ELSE AsyncReadSome([s EXCEPT !.claim = TRUE])

ForwardKcpToTcp(s) ==
    IF s.targetClosed \/ s.peerFin THEN [s EXCEPT !.claim = FALSE]
    ELSE IF s.claim \/ ~s.active \/ ~s.inTable \/ s.sock = "closed" THEN s
    ELSE AsyncReadSome([s EXCEPT !.claim = TRUE])

ResumeServer(s) ==
    IF s.tcpRead = "parked" /\ WaitSend(s) <= Resume THEN ForwardTcpToKcp(s) ELSE s

(* on_receive and the handle_kcp_data that follows it on the strand. *)
ServerReceived(s) ==
    LET r == ResumeServer(TryFulfillRead(s))
    IN  IF r.inq # <<>> THEN ForwardKcpToTcp(r) ELSE r

(* The connection is closed as soon as the target is. *)
CheckDrainedEarly(s) ==
    IF s.targetClosed /\ s.drainCb THEN CloseConnection([s EXCEPT !.drainCb = FALSE]) ELSE s

(* The drained callback closes the connection once KCP has nothing left to     *)
(* send; it fires once.                                                        *)
CheckDrained(s) ==
    IF s.targetClosed /\ WaitSend(s) = 0 /\ s.drainCb
    THEN CloseConnection([s EXCEPT !.drainCb = FALSE])
    ELSE s

(* The completion of the read on the target socket.  After the socket is       *)
(* closed a completion that was already queued still arrives with its data.    *)
TargetRead(outcome) ==
    /\ server.tcpRead = "armed"
    /\ \/ /\ outcome = "data" /\ server.read < TargetData
          /\ server' = LET s == [server EXCEPT !.read = @ + 1]
                       IN  ForwardTcpToKcp(SendData(s, s.read))
       \/ /\ outcome = "end"
          /\ server' = HandleTargetClosed(
                 [server EXCEPT !.tcpRead = "off",
                                !.targetEnded = server.sock # "closed"])
    /\ UNCHANGED <<client, link, faulted>>

(* The completion of the read on KCP, as posted to the strand. *)
ServerKcpRead ==
    /\ server.kcpRead \in {"eof", "aborted", "data"}
    /\ server' =
          LET s == [server EXCEPT !.kcpRead = "idle"] IN
          CASE server.kcpRead = "eof" ->
                  [s EXCEPT !.claim = FALSE, !.sock = IF @ = "open" THEN "shut" ELSE @]
            [] server.kcpRead = "aborted" -> CloseConnection(s)
            [] server.kcpRead = "data" ->
                  IF s.targetClosed THEN [s EXCEPT !.claim = FALSE]
                  ELSE [s EXCEPT !.kcpRead = "writing"]
    /\ UNCHANGED <<client, link, faulted>>

(* The completion of the write to the target. *)
TargetWritten(ok) ==
    /\ server.kcpRead = "writing"
    /\ server' =
          LET s == [server EXCEPT !.kcpRead = "idle"]
              w == [s EXCEPT !.got = Append(@, s.held), !.claim = FALSE]
          IN  IF ~ok THEN HandleTargetClosed(s)
              ELSE IF s.active THEN ForwardKcpToTcp(w) ELSE w
    /\ UNCHANGED <<client, link, faulted>>

ServerTick(due) ==
    /\ server.active
    /\ server' = LET r == ResumeServer(TryFulfillRead(server))
                     k == IF r.targetClosed THEN r ELSE MaybeSendKeepalive(r, due)
                 IN  CheckDrained(k)
    /\ UNCHANGED <<client, link, faulted>>

(* The cleanup sweep: a stopped session, or one that heard nothing valid for   *)
(* KCP_TIMEOUT_SEC.                                                            *)
ServerSwept ==
    /\ server.inTable
    /\ ~server.active \/ ~link \/ ~client.active
    /\ server' = CloseConnection(server)
    /\ UNCHANGED <<client, link, faulted>>

-----------------------------------------------------------------------------
(* The client's handlers. *)

CloseBoth(c) == Stop([c EXCEPT !.sock = "closed"])

ForwardClientToKcp(c) ==
    [c EXCEPT !.tcpRead = IF WaitSend(c) >= Threshold THEN "parked" ELSE "armed"]

(* The server's end of stream: with the app's own end both directions are      *)
(* over; otherwise the app is told and the loop stays to see the teardown.     *)
HandleServerFin(c) ==
    LET f == [c EXCEPT !.guardFin = TRUE, !.grace = FALSE]
    IN  IF f.appEof THEN CloseBoth(f)
        ELSE AsyncReadSome([f EXCEPT !.sock = IF @ = "open" THEN "shut" ELSE @])

ForwardKcpToClient(c) ==
    IF c.peerFin /\ ~c.guardFin THEN HandleServerFin(c) ELSE AsyncReadSome(c)

(* No timer bounds the half-close. *)
ArmHalfCloseUnbounded(c) ==
    LET e == [c EXCEPT !.appEof = TRUE, !.progress = FALSE]
    IN  IF e.guardFin THEN CloseBoth(e) ELSE SendFin(e)

ArmHalfCloseGrace(c) ==
    LET e == [c EXCEPT !.appEof = TRUE, !.progress = FALSE]
    IN  IF e.guardFin THEN CloseBoth(e) ELSE [SendFin(e) EXCEPT !.grace = TRUE]

ResumeClient(c) ==
    IF c.tcpRead = "parked" /\ WaitSend(c) <= Resume THEN ForwardClientToKcp(c) ELSE c

ClientReceived(c) == ResumeClient(TryFulfillRead(c))

(* The completion of the read on the app's socket. *)
AppRead(outcome) ==
    /\ client.tcpRead = "armed"
    /\ \/ /\ outcome = "data" /\ client.read < AppData
          /\ client' = LET c == [client EXCEPT !.read = @ + 1]
                       IN  ForwardClientToKcp(SendData(c, c.read))
          /\ UNCHANGED faulted
       \/ /\ outcome = "end"
          /\ client' = ArmHalfCloseGrace([client EXCEPT !.tcpRead = "off"])
          /\ UNCHANGED faulted
       \/ /\ outcome = "error"
          /\ client' = CloseBoth([client EXCEPT !.tcpRead = "off"])
          /\ faulted' = (faulted \/ client.sock # "closed")
    /\ UNCHANGED <<server, link>>

(* The completion of the read on KCP, as posted to the strand. *)
ClientKcpRead ==
    /\ client.kcpRead \in {"eof", "aborted", "data"}
    /\ client' =
          LET c == [client EXCEPT !.kcpRead = "idle"] IN
          CASE client.kcpRead = "eof" -> HandleServerFin(c)
            [] client.kcpRead = "aborted" -> CloseBoth([c EXCEPT !.grace = FALSE])
            [] client.kcpRead = "data" -> [c EXCEPT !.kcpRead = "writing", !.progress = c.appEof]
    /\ UNCHANGED <<server, link, faulted>>

(* The completion of the write to the app. *)
AppWritten(ok) ==
    /\ client.kcpRead = "writing"
    /\ client' =
          LET c == [client EXCEPT !.kcpRead = "idle"] IN
          IF ok THEN ForwardKcpToClient([c EXCEPT !.got = Append(@, c.held)])
          ELSE CloseBoth([c EXCEPT !.grace = FALSE])
    /\ faulted' = (faulted \/ (~ok /\ client.sock = "open"))
    /\ UNCHANGED <<server, link>>

ClientTick(due) ==
    /\ client.active
    /\ client' = MaybeSendKeepalive(ResumeClient(TryFulfillRead(client)), due)
    /\ UNCHANGED <<server, link, faulted>>

(* The tick that finds KCP_TIMEOUT_SEC of silence.  What is posted to the      *)
(* strand does not wait that long; a write to an app that does not read may.   *)
ClientIdleTimeout ==
    /\ client.active
    /\ ~link \/ ~server.active
    /\ client.kcpRead \in {"idle", "pending", "writing"}
    /\ client' = Stop([client EXCEPT !.appStalled = client.kcpRead = "writing"])
    /\ UNCHANGED <<server, link, faulted>>

(* The grace timer: payload since it was armed extends it, else the tunnel is  *)
(* reclaimed.                                                                  *)
GraceExpires ==
    /\ client.grace
    /\ IF ~client.active
       THEN client' = [client EXCEPT !.grace = FALSE] /\ UNCHANGED faulted
       ELSE IF client.progress
       THEN client' = [client EXCEPT !.progress = FALSE] /\ UNCHANGED faulted
       ELSE client' = CloseBoth([client EXCEPT !.grace = FALSE]) /\ faulted' = TRUE
    /\ UNCHANGED <<server, link>>

-----------------------------------------------------------------------------
(* KCP between the two, and what can go wrong outside them. *)

(* The next message in order arrives at a running peer. *)
ToServer ==
    /\ link /\ server.active /\ client.out # <<>>
    /\ client' = [client EXCEPT !.out = Tail(@), !.unacked = @ + 1]
    /\ server' = ServerReceived([server EXCEPT !.inq = Append(@, Head(client.out))])
    /\ UNCHANGED <<link, faulted>>

ToClient ==
    /\ link /\ client.active /\ server.out # <<>>
    /\ server' = [server EXCEPT !.out = Tail(@), !.unacked = @ + 1]
    /\ client' = ClientReceived([client EXCEPT !.inq = Append(@, Head(server.out))])
    /\ UNCHANGED <<link, faulted>>

(* An acknowledgement arrives. *)
AckToServer ==
    /\ link /\ server.active /\ server.unacked > 0
    /\ server' = ServerReceived([server EXCEPT !.unacked = @ - 1])
    /\ UNCHANGED <<client, link, faulted>>

AckToClient ==
    /\ link /\ client.active /\ client.unacked > 0
    /\ client' = ClientReceived([client EXCEPT !.unacked = @ - 1])
    /\ UNCHANGED <<server, link, faulted>>

LinkFails ==
    /\ link
    /\ link' = FALSE /\ faulted' = TRUE
    /\ UNCHANGED <<client, server>>

(* A refused encryption shuts an end down. *)
EncryptFails ==
    /\ \/ server.active /\ server' = StopServer(server) /\ UNCHANGED client
       \/ client.active /\ client' = Stop(client) /\ UNCHANGED server
    /\ faulted' = TRUE
    /\ UNCHANGED link

Init ==
    /\ \E fin \in Negotiated : client = NewClient(fin) /\ server = NewServer(fin)
    /\ link = TRUE
    /\ faulted = FALSE

Next ==
    \/ \E outcome \in {"data", "end", "error"} : TargetRead(outcome) \/ AppRead(outcome)
    \/ ServerKcpRead \/ ClientKcpRead
    \/ \E ok \in BOOLEAN : TargetWritten(ok) \/ AppWritten(ok)
    \/ \E due \in BOOLEAN : ServerTick(due) \/ ClientTick(due)
    \/ ServerSwept \/ ClientIdleTimeout \/ GraceExpires
    \/ ToServer \/ ToClient \/ AckToServer \/ AckToClient
    \/ LinkFails \/ EncryptFails

Spec == Init /\ [][Next]_vars

(***************************************************************************)
(* Strands run what is posted to them; timers fire; an operation on a      *)
(* closed socket completes; KCP retransmits until a live peer has what was *)
(* sent and the acknowledgements; an app or target that is written to      *)
(* reads or resets.  Nothing makes the app or the target speak or close.   *)
(***************************************************************************)
Fairness ==
    /\ WF_vars(ServerKcpRead) /\ WF_vars(ClientKcpRead)
    /\ WF_vars(\E ok \in BOOLEAN : TargetWritten(ok))
    /\ WF_vars(\E ok \in BOOLEAN : AppWritten(ok))
    /\ WF_vars(ServerTick(FALSE)) /\ WF_vars(ClientTick(FALSE))
    /\ WF_vars(ServerSwept) /\ WF_vars(ClientIdleTimeout) /\ WF_vars(GraceExpires)
    /\ WF_vars(ToServer) /\ WF_vars(ToClient)
    /\ WF_vars(client.active /\ AckToServer) /\ WF_vars(server.active /\ AckToClient)
    /\ WF_vars(server.sock = "closed" /\ \E outcome \in {"data", "end"} : TargetRead(outcome))
    /\ WF_vars(client.sock = "closed" /\ \E outcome \in {"data", "end", "error"} : AppRead(outcome))

FairSpec == Spec /\ Fairness

-----------------------------------------------------------------------------
(* Properties *)

(* The states of the two ends have their declared types. *)
TypeOK ==
    /\ \A x \in {client, server} :
          /\ x.active \in BOOLEAN /\ x.sock \in {"open", "shut", "closed"}
          /\ x.tcpRead \in {"armed", "parked", "off"}
          /\ x.kcpRead \in {"idle", "pending", "data", "eof", "aborted", "writing"}
          /\ x.unacked \in Nat /\ x.held \in Nat
    /\ link \in BOOLEAN /\ faulted \in BOOLEAN

(* Whatever the interleaving of reads, writes, heartbeats, end-of-stream       *)
(* messages, closes and failures, each side receives a prefix of what the      *)
(* other side sent: nothing skipped, repeated or reordered, and no control     *)
(* message forwarded as data.  The states keep their types.                    *)
StreamPrefix ==
    /\ TypeOK
    /\ \A i \in 1 .. Len(client.got) : client.got[i] = i
    /\ \A i \in 1 .. Len(server.got) : server.got[i] = i

(* At most one read of a tunnel is outstanding at either end, although both    *)
(* the arriving datagram and the finished write start one (the claim in        *)
(* forward_kcp_to_tcp, the FIN branch of forward_kcp_to_client).               *)
NoStackedRead == ~client.stacked /\ ~server.stacked

(* A half-close never truncates a stream: when the target ended its stream and *)
(* the app is told so, the app has been given everything the target sent, and  *)
(* when the server shuts down the target's write side, the target has been     *)
(* given everything the app sent.                                              *)
HalfCloseComplete ==
    /\ client.guardFin /\ server.targetEnded => Len(client.got) = server.read
    /\ server.sock = "shut" => Len(server.got) = client.read

(* The server's FIN is queued after every unit of target data (the half-close  *)
(* section of docs/PROTOCOL.md), so that ordered delivery makes it the last.   *)
FinComesLast ==
    \A i \in 1 .. Len(server.out) : server.out[i] = Fin => i = Len(server.out)

(* The watermarks bound the send queue of either end: the threshold, the FIN   *)
(* and the heartbeats, although KCP itself refuses nothing.                    *)
SendQueueBounded ==
    \A x \in {client, server} : WaitSend(x) <= Threshold + 1 + MaxKeepalives

(* Once the target has ended its stream, and unless something outside fails    *)
(* or the app stops reading for KCP_TIMEOUT_SEC, the app gets the whole        *)
(* response and its end, through backpressure, the drain of the server's       *)
(* session and, with a peer that knows no FIN, the idle timeout.               *)
ResponseDelivered ==
    server.targetEnded
        ~> \/ faulted \/ client.appStalled
           \/ /\ Len(client.got) = server.read
              /\ client.guardFin \/ client.sock = "closed"

(* A tunnel with one end gone, or whose app has finished sending while the     *)
(* target stays silent, does not linger: both sessions and both sockets are    *)
(* released (grace timer, idle timeout, sweep).                                *)
TunnelReclaimed ==
    (client.appEof \/ ~client.active \/ ~server.active)
        ~> (/\ ~client.active /\ client.sock = "closed"
            /\ ~server.active /\ server.sock = "closed" /\ ~server.inTable)
=============================================================================
