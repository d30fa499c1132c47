-------------------------- MODULE ServerHandshake --------------------------
(***************************************************************************)
(* One server session from its first datagram to the forwarding loops      *)
(* (server.cpp): the dispatcher handle_kcp_data, the HELLO exchange, the   *)
(* SOCKS5 request read in fragments, resolution and connection of the      *)
(* target under a deadline, and the initial payload.  Every handler runs   *)
(* on the session's strand and is one step; completions are posted to it.  *)
(* The peer sends one of the given sequences of messages and need not wait *)
(* for an answer.  Handlers are written as operators from the state they   *)
(* find to the state they leave.                                           *)
(***************************************************************************)
EXTENDS Messages

CONSTANTS
    Scripts,      \* what a peer may send: sequences of messages
    MaxAccum,     \* bound: FWD_BUF_SIZE, the room for the request, in bytes
    Outcomes      \* how a connect may end: a code of get_error_reply_code or SUCCEEDED,
                  \* and the connected socket's address, if it has one

VARIABLES
    s,            \* the session and its upstream connection
    script,       \* what the peer has still to send
    whole         \* history: everything it sends

vars == <<s, script, whole>>

(***************************************************************************)
(* running, inTable        RUNNING; sessions_ holds the session            *)
(* protoDone, hsDone, fin  PROTOCOL_HS_DONE, handshake_done_, fin_enabled_ *)
(* readFlag, connectFlag   SOCKS5_READ_PENDING, CONNECT_PENDING            *)
(* reader                  whose read is outstanding: none, hello, request *)
(*                         or the forwarding loop                          *)
(* read                    none, pending, or posted with a message (data)  *)
(*                         or an error                                     *)
(* up                      the upstream connection: none, resolving,       *)
(*                         connecting, writing (the initial payload),      *)
(*                         forwarding, over                                *)
(* dest, initial           the request's target and the bytes behind it    *)
(* deadline, fired         the connect deadline and its flag               *)
(* sent, target            history: messages to the peer, data at the      *)
(*                         target; requests: history, connects attempted   *)
(***************************************************************************)
NewSession ==
    [running |-> TRUE, inTable |-> TRUE, protoDone |-> FALSE, hsDone |-> FALSE, fin |-> FALSE,
     readFlag |-> FALSE, connectFlag |-> FALSE, reader |-> "none", read |-> "none",
     data |-> <<>>, inq |-> <<>>, accum |-> <<>>, up |-> "none", initial |-> <<>>,
     dest |-> [host |-> <<>>, port |-> 0],
     deadline |-> "off", fired |-> FALSE, sent |-> <<>>, target |-> <<>>, requests |-> 0,
     stacked |-> FALSE]

-----------------------------------------------------------------------------
(* The session's services. *)

SendData(x, m) == IF x.running THEN [x EXCEPT !.sent = Append(@, m)] ELSE x

Stop(x) ==
    IF ~x.running THEN x
    ELSE [x EXCEPT !.running = FALSE, !.readFlag = FALSE, !.connectFlag = FALSE,
                   !.read = IF @ = "pending" THEN "error" ELSE @]

CloseConnection(x) == IF x.inTable THEN Stop([x EXCEPT !.inTable = FALSE]) ELSE x

(* A failure reply, and the session leaves the table. *)
Fail(x, code) == CloseConnection(SendData(x, Reply(code, <<>>, 0)))

TryFulfillRead(x) ==
    IF x.read # "pending" \/ x.inq = <<>> THEN x
    ELSE [x EXCEPT !.read = "data", !.data = Head(x.inq), !.inq = Tail(@)]

(* A stopped session's read is aborted; when another completion is still       *)
(* posted, the aborted one has nothing left to do but clear the flag and close *)
(* (see Swept).                                                                *)
AsyncReadSome(x, who) ==
    IF ~x.running
    THEN IF x.read = "none" THEN [x EXCEPT !.reader = who, !.read = "error"]
         ELSE [x EXCEPT !.readFlag = FALSE]
    ELSE IF x.read # "none" THEN [x EXCEPT !.stacked = TRUE]
    ELSE TryFulfillRead([x EXCEPT !.reader = who, !.read = "pending"])

-----------------------------------------------------------------------------
(* The request. *)

Fits(a) == Len(a) <= MaxAccum

(* handle_connect_command.  A literal address may be refused at once. *)
ConnectCommands(x) ==
    LET y == [x EXCEPT !.connectFlag = TRUE, !.initial = Trailing(x.accum),
                       !.dest = Address(x.accum), !.requests = @ + 1]
        resolve == [y EXCEPT !.up = "resolving", !.deadline = "armed"]
        refuse == Fail([y EXCEPT !.up = "over", !.fired = TRUE], NOT_ALLOWED)
    IN  IF MakeAddress(y.dest.host) = <<>> THEN {resolve} ELSE {resolve, refuse}

(* read_more_socks5 and parse_accumulated_socks5 on the request so far. *)
ReadMoreSocks5(x) ==
    LET status == Status(x.accum)
        y == [x EXCEPT !.readFlag = FALSE]
    IN  CASE status = "NeedMore" -> {AsyncReadSome([x EXCEPT !.readFlag = TRUE], "request")}
          [] status = "Invalid" -> {Fail(y, GENERAL_FAILURE)}
          [] status = "BadAddressType" -> {Fail(y, ADDRESS_TYPE_NOT_SUPPORTED)}
          [] status = "Complete" -> IF Code(x.accum) = CONNECT THEN ConnectCommands(y)
                                    ELSE {Fail(y, COMMAND_NOT_SUPPORTED)}

-----------------------------------------------------------------------------
(* The dispatcher. *)

ForwardKcpToTcp(x) ==
    IF x.running /\ x.inTable /\ x.up = "forwarding" /\ x.reader # "forward"
    THEN AsyncReadSome(x, "forward") ELSE x

(* Data arriving while the target is being connected is taken for a request. *)
HandleKcpDataEagerly(x) ==
    IF x.inq = <<>> \/ x.readFlag THEN {x}
    ELSE IF ~x.protoDone THEN {AsyncReadSome([x EXCEPT !.readFlag = TRUE], "hello")}
    ELSE IF x.hsDone THEN {ForwardKcpToTcp(x)}
    ELSE ReadMoreSocks5([x EXCEPT !.accum = <<>>])

HandleKcpData(x) ==
    IF x.inq = <<>> THEN {x}
    ELSE IF ~x.protoDone
         THEN {IF x.readFlag THEN x ELSE AsyncReadSome([x EXCEPT !.readFlag = TRUE], "hello")}
    ELSE IF x.hsDone THEN {ForwardKcpToTcp(x)}
    ELSE IF x.readFlag \/ x.connectFlag THEN {x}
    ELSE ReadMoreSocks5([x EXCEPT !.accum = <<>>])

(* A datagram with the peer's next message: on_receive, then the dispatcher. *)
Arrives ==
    /\ script # <<>>
    /\ s' \in HandleKcpData(IF s.running
                            THEN TryFulfillRead([s EXCEPT !.inq = Append(@, Head(script))])
                            ELSE s)
    /\ script' = Tail(script)
    /\ UNCHANGED whole

(* The dispatcher is not driven again. *)
HelloReadOnce ==
    LET x == [s EXCEPT !.reader = "none", !.read = "none", !.data = <<>>, !.readFlag = FALSE]
        ack == IF s.data = HelloV2 THEN HelloAckV2 ELSE HelloAck
    IN  /\ s.reader = "hello" /\ s.read \in {"data", "error"}
        /\ s' \in IF s.read = "error" THEN {CloseConnection(x)}
                  ELSE IF s.data \in {Hello, HelloV2}
                  THEN {SendData([x EXCEPT !.protoDone = TRUE, !.fin = s.data = HelloV2], ack)}
                  ELSE ReadMoreSocks5([x EXCEPT !.protoDone = TRUE, !.accum = s.data])
        /\ UNCHANGED <<script, whole>>

(* The completion of the first read: a HELLO is acknowledged in its version    *)
(* and what is queued behind it dispatched; anything else is taken for the     *)
(* start of a request.                                                         *)
HelloRead ==
    LET x == [s EXCEPT !.reader = "none", !.read = "none", !.data = <<>>, !.readFlag = FALSE]
        ack == IF s.data = HelloV2 THEN HelloAckV2 ELSE HelloAck
    IN  /\ s.reader = "hello" /\ s.read \in {"data", "error"}
        /\ s' \in IF s.read = "error" THEN {CloseConnection(x)}
                  ELSE IF s.data \in {Hello, HelloV2}
                  THEN HandleKcpData(
                           SendData([x EXCEPT !.protoDone = TRUE, !.fin = s.data = HelloV2],
                                    ack))
                  ELSE ReadMoreSocks5([x EXCEPT !.protoDone = TRUE, !.accum = s.data])
        /\ UNCHANGED <<script, whole>>

(* The completion of a read for a fragment of the request. *)
RequestRead ==
    LET x == [s EXCEPT !.reader = "none", !.read = "none", !.data = <<>>]
        a == s.accum \o s.data
    IN  /\ s.reader = "request" /\ s.read \in {"data", "error"}
        /\ s' \in IF s.read = "error" \/ ~Fits(a)
                  THEN {Fail([x EXCEPT !.readFlag = FALSE], GENERAL_FAILURE)}
                  ELSE ReadMoreSocks5([x EXCEPT !.accum = a])
        /\ UNCHANGED <<script, whole>>

(* The completion of the forwarding loop's read: the data is written to the    *)
(* target and the next read started.                                           *)
ForwardRead ==
    LET x == [s EXCEPT !.reader = "none", !.read = "none", !.data = <<>>] IN
    /\ s.reader = "forward" /\ s.read \in {"data", "error"}
    /\ s' = IF s.read = "error" THEN CloseConnection(x)
            ELSE ForwardKcpToTcp([x EXCEPT !.target = @ \o s.data])
    /\ UNCHANGED <<script, whole>>

-----------------------------------------------------------------------------
(* The upstream connection. *)

(* No outcome of a connect attempt is decided twice: fired. *)
Decide(x) == [x EXCEPT !.fired = TRUE, !.deadline = IF @ = "armed" THEN "off" ELSE @]

DeadlineExpires ==
    /\ s.deadline = "armed"
    /\ s' = [s EXCEPT !.deadline = "expired"]
    /\ UNCHANGED <<script, whole>>

Deadline ==
    /\ s.deadline = "expired"
    /\ s' = LET x == [s EXCEPT !.deadline = "off"]
            IN  IF s.fired THEN x ELSE Fail([x EXCEPT !.fired = TRUE], TTL_EXPIRED)
    /\ UNCHANGED <<script, whole>>

(* The client is told of success before the target is connected. *)
ResolvedRepliesEarly(outcome) ==
    /\ s.up = "resolving"
    /\ s' = IF s.fired THEN [s EXCEPT !.up = "over"]
            ELSE [SendData(s, Reply(SUCCEEDED, <<>>, 0)) EXCEPT !.up = "connecting"]
    /\ UNCHANGED <<script, whole>>

(* The resolver answers: an error, a restricted address, or addresses to try. *)
Resolved(outcome) ==
    /\ s.up = "resolving"
    /\ s' = IF s.fired THEN [s EXCEPT !.up = "over"]
            ELSE CASE outcome = "error" -> Fail([Decide(s) EXCEPT !.up = "over"], HOST_UNREACHABLE)
                   [] outcome = "restricted" -> Fail([Decide(s) EXCEPT !.up = "over"], NOT_ALLOWED)
                   [] outcome = "addresses" -> [s EXCEPT !.up = "connecting"]
    /\ UNCHANGED <<script, whole>>

(* start_forwarding; a session that lost its endpoint is let go. *)
StartForwarding(x) ==
    IF x.inTable THEN ForwardKcpToTcp([x EXCEPT !.up = "forwarding"])
    ELSE [x EXCEPT !.up = "over"]

(* The payload behind the request is not written. *)
ConnectedDropsInitial(code, bound) ==
    /\ s.up = "connecting"
    /\ s' = IF s.fired THEN [s EXCEPT !.up = "over"]
            ELSE IF code # SUCCEEDED THEN Fail([Decide(s) EXCEPT !.up = "over"], code)
            ELSE LET x == SendData(Decide(s), Reply(SUCCEEDED, bound, 0))
                 IN  StartForwarding([x EXCEPT !.hsDone = TRUE, !.connectFlag = FALSE])
    /\ UNCHANGED <<script, whole>>

(* async_connect completes: the reply, then the initial payload, if any, is    *)
(* written before the loops start.                                             *)
Connected(code, bound) ==
    /\ s.up = "connecting"
    /\ s' = IF s.fired THEN [s EXCEPT !.up = "over"]
            ELSE IF code # SUCCEEDED THEN Fail([Decide(s) EXCEPT !.up = "over"], code)
            ELSE LET x == [SendData(Decide(s), Reply(SUCCEEDED, bound, 0))
                               EXCEPT !.hsDone = TRUE, !.connectFlag = FALSE]
                 IN  IF x.initial = <<>> THEN StartForwarding(x) ELSE [x EXCEPT !.up = "writing"]
    /\ UNCHANGED <<script, whole>>

InitialWritten(ok) ==
    /\ s.up = "writing"
    /\ s' = IF ok THEN StartForwarding([s EXCEPT !.target = s.initial])
            ELSE CloseConnection([s EXCEPT !.up = "over"])
    /\ UNCHANGED <<script, whole>>

(* The cleanup sweep reaps a stalled or dead session; a refused encryption     *)
(* stops it.                                                                   *)
Swept ==
    /\ s.inTable
    /\ s' = CloseConnection(s)
    /\ UNCHANGED <<script, whole>>

ShutDown ==
    /\ s.running
    /\ s' = Stop(s)
    /\ UNCHANGED <<script, whole>>

Init == s = NewSession /\ script \in Scripts /\ whole = FlattenSeq(script)

Next ==
    \/ Arrives \/ HelloRead \/ RequestRead \/ ForwardRead
    \/ DeadlineExpires \/ Deadline
    \/ \E outcome \in {"error", "restricted", "addresses"} : Resolved(outcome)
    \/ \E o \in Outcomes : Connected(o.code, o.bound)
    \/ \E ok \in BOOLEAN : InitialWritten(ok)
    \/ Swept \/ ShutDown

Spec == Init /\ [][Next]_vars

-----------------------------------------------------------------------------
(* Properties *)

Acks == {HelloAck, HelloAckV2}

(* One request, one reply: the peer is sent at most one acknowledgement,       *)
(* first, and at most one SOCKS5 reply, since the deadline, the resolver and   *)
(* the connect never answer twice; and what it sends while its target is being *)
(* resolved and connected is never parsed as a second request, even if it      *)
(* looks like one.  At most one read is outstanding, whoever starts it:        *)
(* dispatcher, HELLO handler, request loop or forwarding loop.                 *)
OneExchange ==
    /\ \A i, j \in DOMAIN s.sent : s.sent[i] \notin Acks /\ s.sent[j] \notin Acks => i = j
    /\ \A i \in DOMAIN s.sent : s.sent[i] \in Acks => i = 1
    /\ s.requests <= 1
    /\ ~s.stacked

(* Once the loops forward, the target has, or will read in order, exactly what *)
(* the peer sent behind its request, in the same message, during the connect   *)
(* or later.                                                                   *)
EarlyDataKept ==
    s.up = "forwarding" /\ s.running
        => LET posted == IF s.read = "data" THEN s.data ELSE <<>>
               all == s.target \o posted \o FlattenSeq(s.inq) \o FlattenSeq(script)
               hello == Head(whole) \in {Head(Hello), Head(HelloV2)}
           IN  all = Trailing(IF hello THEN Tail(whole) ELSE whole)

(* A whole message that arrived does not wait for another datagram while the   *)
(* dispatcher is idle: a request sent along with the HELLO is served, data     *)
(* that came during the connect is forwarded.                                  *)
NothingStalls ==
    (s.inq # <<>>) ~> \/ s.inq = <<>> \/ ~s.running
                      \/ s.up \in {"resolving", "connecting", "writing"}

(* A connect attempt ends: the target is forwarded to, or the session is gone, *)
(* even if the resolver and the target never answer.                           *)
ConnectResolved ==
    (s.requests > 0) ~> (s.up \in {"writing", "forwarding"} \/ ~s.inTable)
=============================================================================
