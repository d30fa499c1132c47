----------------------------- MODULE Handshake -----------------------------
(***************************************************************************)
(* The handshake of a tunnel with both its ends: ClientHandshake and       *)
(* ServerHandshake joined by the KCP conversation between them.  Either    *)
(* end also has to do with peers that are not this code (an Android        *)
(* client, an older server), so a behaviour has one of three modes: this   *)
(* client with a scripted server, this server with a scripted client, or   *)
(* both.  A conversation delivers in order; the messages still in flight   *)
(* when their sender's session stops may be lost, last one first, because  *)
(* nobody retransmits them.  Neither end learns that the other has stopped *)
(* except by silence.                                                      *)
(***************************************************************************)
EXTENDS Messages

CONSTANTS
    ServerScripts,    \* what a scripted server may send
    ClientScripts,    \* what a scripted client may send
    MaxAccum,         \* bound: FWD_BUF_SIZE, in bytes
    Literals, Names,  \* what the app may ask for: see ClientHandshake
    Outcomes,         \* how a connect may end: see ServerHandshake
    MaxPayload        \* bound: messages the app, and the target, send once forwarding

(* A message is a sequence of bytes, a connect that ended has a code. *)
ASSUME HandshakeAssumption ==
    /\ ServerScripts \subseteq Seq(Seq(Nat))
    /\ Outcomes \subseteq [code : Nat, bound : Seq(Nat)]

VARIABLES
    mode,             \* client, server, both
    toClient,         \* in flight to the client
    toServer,         \* in flight to the server
    payload,          \* how many messages the app and the target have sent
    step, app, cancelled, deadline, watchdog, session, accum, asked, sent, told, done,
    completions,      \* the client: see ClientHandshake
    s, whole          \* the server: see ServerHandshake

C == INSTANCE ClientHandshake WITH Scripts <- ServerScripts, script <- toClient

S == INSTANCE ServerHandshake WITH Scripts <- ClientScripts, script <- toServer

clientOnly == <<step, app, cancelled, deadline, watchdog, session, accum, asked, sent, told,
                done, completions>>
vars == <<mode, toClient, toServer, payload, clientOnly, s, whole>>

Init ==
    /\ mode \in {"client", "server", "both"}
    /\ C!Init /\ S!Init
    /\ mode # "client" => toClient = <<>>
    /\ mode # "server" => toServer = <<>>
    /\ payload = [app |-> 0, target |-> 0]

-----------------------------------------------------------------------------
(* What a step added to a history of messages. *)
Added(before, after) == SubSeq(after, Len(before) + 1, Len(after))

(* A step of the client, and the messages it sent.  *)
Client(A) ==
    /\ mode # "server" /\ A
    /\ IF mode = "both"
       THEN /\ toServer' = toServer \o Added(sent, sent')
            /\ whole' = whole \o FlattenSeq(Added(sent, sent'))
       ELSE UNCHANGED <<toServer, whole>>
    /\ UNCHANGED <<mode, payload, s>>

(* The server has a session once a datagram of the client created it. *)
Known == mode = "server" \/ s # S!NewSession

Server(A) ==
    /\ mode # "client" /\ A
    /\ toClient' = IF mode = "both" THEN toClient \o Added(s.sent, s.sent') ELSE toClient
    /\ UNCHANGED <<mode, payload, clientOnly>>

ClientMoves == Client(C!Next)

ServerMoves == Server(S!Next /\ (Known \/ toServer' # toServer))

(* The forwarding loops take over: payload of the app and of the target.  *)
AppSends ==
    /\ mode = "both" /\ done /\ session.running /\ app = "open"
    /\ payload.app < MaxPayload
    /\ payload' = [payload EXCEPT !.app = @ + 1]
    /\ toServer' = Append(toServer, <<200 + payload'.app>>)
    /\ whole' = Append(whole, 200 + payload'.app)
    /\ UNCHANGED <<mode, toClient, clientOnly, s>>

TargetSends ==
    /\ mode = "both" /\ s.up = "forwarding" /\ s.running
    /\ payload.target < MaxPayload
    /\ payload' = [payload EXCEPT !.target = @ + 1]
    /\ toClient' = Append(toClient, <<100 + payload'.target>>)
    /\ UNCHANGED <<mode, toServer, clientOnly, s, whole>>

(* What a stopped session had in flight is lost. *)
LostToServer ==
    /\ mode = "both" /\ ~session.running /\ toServer # <<>>
    /\ toServer' = Front(toServer)
    /\ whole' = SubSeq(whole, 1, Len(whole) - Len(Last(toServer)))
    /\ UNCHANGED <<mode, toClient, payload, clientOnly, s>>

LostToClient ==
    /\ mode = "both" /\ ~s.running /\ toClient # <<>>
    /\ toClient' = Front(toClient)
    /\ UNCHANGED <<mode, toServer, payload, clientOnly, s, whole>>

Next ==
    \/ ClientMoves \/ ServerMoves
    \/ AppSends \/ TargetSends
    \/ LostToServer \/ LostToClient

-----------------------------------------------------------------------------
(* The idle timeout of a connected client session, 60 s after the server fell  *)
(* silent (a running one sends keepalives).                                    *)
IdleTimeout == ~s.running /\ toClient = <<>> /\ session.connected /\ C!SessionDies

(* The sweep takes a session that stopped, whose handshake stalls, or whose    *)
(* client fell silent.                                                         *)
Swept ==
    /\ ~s.running \/ ~s.hsDone \/ (mode = "both" /\ ~session.running /\ toServer = <<>>)
    /\ S!Swept

(***************************************************************************)
(* At the client: accepted connections are handled, timers expire and      *)
(* their handlers run, what is posted to the strand runs, and an operation *)
(* on a closed socket completes.  At the server: posted completions run,   *)
(* and the connect deadline expires.  The app, the resolver, the target    *)
(* and a scripted peer need never say anything.                            *)
(***************************************************************************)
ClientFairness ==
    /\ WF_vars(Client(C!Accept \/ C!TurnAway)) /\ WF_vars(Client(C!TurnedAway))
    /\ WF_vars(Client(C!CloseRuns))
    /\ WF_vars(Client(C!ConnectTimerExpires)) /\ WF_vars(Client(C!ConnectTimeout))
    /\ WF_vars(Client(C!AckRead)) /\ WF_vars(Client(C!ReplyRead))
    /\ WF_vars(Client(C!TimerExpires)) /\ WF_vars(Client(C!Deadline))
    /\ WF_vars(Client(C!Watchdog))
    /\ WF_vars(Client(app = "closed" /\ C!ReplyWritten(FALSE)))
    /\ WF_vars(Client(app = "closed" /\ C!AppCompletes("error")))

ServerFairness ==
    /\ WF_vars(Server(S!HelloRead)) /\ WF_vars(Server(S!RequestRead))
    /\ WF_vars(Server(S!ForwardRead))
    /\ WF_vars(Server(S!DeadlineExpires)) /\ WF_vars(Server(S!Deadline))

(* Between the two: what is in flight arrives or, when nobody is left to       *)
(* repeat it, is lost; the end left behind notices by silence.                 *)
TunnelFairness ==
    /\ WF_vars(mode = "both" /\ (Client(C!Arrives) \/ LostToClient))
    /\ WF_vars(mode = "both" /\ (Server(S!Arrives) \/ LostToServer))
    /\ WF_vars(mode = "both" /\ Client(IdleTimeout))
    /\ WF_vars(mode = "both" /\ Known /\ Server(Swept))

Spec == Init /\ [][Next]_vars

FairSpec == Spec /\ ClientFairness /\ ServerFairness /\ TunnelFairness

-----------------------------------------------------------------------------
(* Properties of each end, whatever is at the other. *)

(* See ClientHandshake: one connect completion, one method selection, one      *)
(* reply to the app, the server's own code if it sent one.                     *)
ReplyProtocol == C!ReplyProtocol

(* See ClientHandshake: no early payload of the target is lost or repeated.    *)
NothingLost == C!NothingLost

(* See ClientHandshake: the handshake deadline leaves a forwarding tunnel      *)
(* alone.                                                                      *)
DeadlineHarmless == [][done /\ watchdog = "off" => app' = app]_vars

(* See ServerHandshake: one acknowledgement, one request, one reply, one read. *)
OneExchange == S!OneExchange

(* See ServerHandshake: what came behind the request reaches the target.       *)
EarlyDataKept == S!EarlyDataKept

(* See ServerHandshake: a message that arrived does not wait for another       *)
(* datagram.                                                                   *)
NothingStalls == S!NothingStalls

-----------------------------------------------------------------------------
(* Properties of the two together. *)

Canonical(address) ==
    LET ip == MakeAddress(address.host)
    IN  IF ip = <<>> THEN address ELSE [address EXCEPT !.host = ToText(ip)]

(* The two ends agree on what they negotiated.  The server connects to the     *)
(* address the app asked for, even when that was a name spelling an address;   *)
(* an app that was told success has a target the server did connect to, and    *)
(* one that was told a reason by the server was told the server's; and both    *)
(* ends, or none, may send a FIN.                                              *)
EndsAgree ==
    mode = "both" =>
        /\ s.requests > 0 => s.dest = Canonical(asked)
        /\ Len(told) >= 2 /\ told[2] = SUCCEEDED => s.hsDone /\ ~s.connectFlag
        /\ C!Answered => \E i \in DOMAIN s.sent : SubSeq(accum, 1, Len(s.sent[i])) = s.sent[i]
        /\ session.connected => session.fin = s.fin

ClientGone == ~session.running /\ step = "none" /\ (app = "closed" \/ done)
ServerGone == ~s.running /\ ~s.inTable

(* Neither end is left alone: a handshake of this client with this server ends *)
(* with both forwarding for good or with both ends released, whoever stops,    *)
(* whatever is lost, even if the app, the resolver or the target never answer. *)
(* The client end settles with any server and the server's connect with any    *)
(* client.                                                                     *)
Settled ==
    /\ (mode # "server") => <>(done \/ C!Released)
    /\ (mode # "client") => S!ConnectResolved
    /\ (mode = "both") => \/ <>[](done /\ session.running /\ s.hsDone /\ s.running)
                          \/ <>[](ClientGone /\ (ServerGone \/ ~Known))
=============================================================================
