-------------------------- MODULE ClientHandshake --------------------------
(***************************************************************************)
(* One local connection of the client from accept to the start of the      *)
(* forwarding loops (client.cpp, kcp_client_session.cpp): KCP handshake,   *)
(* SOCKS5 greeting and request, the server's reply, the two deadlines and  *)
(* the abort path.  The client runs its io_context on one thread, so a     *)
(* handler is one step.  The handshake is a chain of asynchronous          *)
(* operations with one outstanding at a time; a timer that has expired     *)
(* cannot be cancelled any more, its handler runs.                         *)
(* The app and the server are the environment: the app answers each read   *)
(* as it likes, the server sends one of the given sequences of messages.   *)
(***************************************************************************)
EXTENDS Messages

CONSTANTS
    Scripts,      \* what the server may send: sequences of messages
    MaxAccum,     \* bound: FWD_BUF_SIZE, the room for the reply, in bytes
    Literals,     \* the addresses, as text, an app may ask for
    Names         \* the names it may ask for; a name may spell an address

(* What the app is sent before the reply to its request. *)
METHOD_SELECTED == 260
NO_ACCEPTABLE == 261

Steps == {"accept", "turnedAway", "tunnel", "greeting", "methods", "selecting",
          "header", "address", "domain", "reply", "telling", "refusing", "none"}

VARIABLES
    step,         \* the outstanding operation of the chain
    app,          \* the local socket: open, closed
    cancelled,    \* handshake_cancelled
    deadline,     \* handshake_deadline: off, armed, expired
    watchdog,     \* reply_write_deadline
    session,      \* the KCPClientSession
    script,       \* what the server has still to send
    accum,        \* the reply so far
    asked,        \* history: the address the app asked for
    sent,         \* history: messages sent to the server
    told,         \* history: what the app was sent: a method selection, the code
                  \* of a reply, payload
    done,         \* the forwarding loops have been started
    completions   \* history: how often the connect handler was called

exchange == <<script, accum, asked, sent>>

vars == <<step, app, cancelled, deadline, watchdog, session, script, accum, asked, sent, told,
          done, completions>>

(***************************************************************************)
(* The session: running_, connected_, connect_pending_, its connect timer, *)
(* the read of the chain (none, pending, or the message or abort whose     *)
(* completion is posted), whether a close is queued on its strand, the     *)
(* messages that arrived and are not read, and fin_enabled_.               *)
(***************************************************************************)
NewSession ==
    [running |-> FALSE, connected |-> FALSE, connectPending |-> FALSE, timer |-> "off",
     read |-> "none", posted |-> <<>>, closing |-> FALSE, inq |-> <<>>,
     fin |-> FALSE]

Cancel(timer) == IF timer = "armed" THEN "off" ELSE timer

(* on_close *)
OnClose(s) ==
    IF ~s.running THEN s
    ELSE [s EXCEPT !.running = FALSE, !.connected = FALSE, !.connectPending = FALSE,
                   !.timer = Cancel(@),
                   !.read = IF @ = "pending" THEN "aborted" ELSE @]

(* close(), from outside the strand. *)
CloseSession(s) == [s EXCEPT !.closing = TRUE]

TryFulfillRead(s) ==
    IF s.read # "pending" \/ s.inq = <<>> THEN s
    ELSE [s EXCEPT !.read = "message", !.posted = Head(s.inq), !.inq = Tail(@)]

AsyncReadSome(s) ==
    IF ~s.running THEN [s EXCEPT !.read = "aborted"]
    ELSE TryFulfillRead([s EXCEPT !.read = "pending"])

(* The local socket is closed, the session forgotten. *)
AbortHandshakeHalf(s) ==
    /\ cancelled' = TRUE
    /\ app' = "closed"
    /\ deadline' = Cancel(deadline)
    /\ session' = s
    /\ step' = "none"

(* abort_handshake, the end of the chain: the flag first, then both ends; the *)
(* second caller finds the flag set and does nothing.                         *)
AbortHandshake(s) ==
    /\ cancelled' = TRUE
    /\ step' = "none"
    /\ deadline' = Cancel(deadline)
    /\ IF cancelled
       THEN app' = app /\ session' = s
       ELSE app' = "closed" /\ session' = CloseSession(s)

-----------------------------------------------------------------------------
Init ==
    /\ step = "accept"
    /\ app = "open"
    /\ cancelled = FALSE
    /\ deadline = "off" /\ watchdog = "off"
    /\ session = NewSession
    /\ script \in Scripts
    /\ accum = <<>> /\ asked = [host |-> <<>>, port |-> 0]
    /\ sent = <<>> /\ told = <<>>
    /\ done = FALSE
    /\ completions = 0

(* handle_client_connection at the session cap: an error reply, then close. *)
TurnAway ==
    /\ step = "accept"
    /\ step' = "turnedAway"
    /\ told' = <<GENERAL_FAILURE>>
    /\ UNCHANGED <<app, cancelled, deadline, watchdog, session, exchange, done, completions>>

(* The write of that reply completes. *)
TurnedAway ==
    /\ step = "turnedAway"
    /\ step' = "none" /\ app' = "closed"
    /\ UNCHANGED <<cancelled, deadline, watchdog, session, exchange, told, done, completions>>

(* No salt, no session: only the socket exists. *)
SetupFails ==
    /\ step = "accept"
    /\ step' = "none" /\ app' = "closed"
    /\ UNCHANGED <<cancelled, deadline, watchdog, session, exchange, told, done, completions>>

(* on_connect throws: the failure is delivered at once. *)
ConnectThrows ==
    /\ step = "accept"
    /\ cancelled' = TRUE /\ step' = "none" /\ app' = "closed"
    /\ session' = CloseSession(session)
    /\ completions' = completions + 1
    /\ UNCHANGED <<deadline, watchdog, exchange, told, done>>

(* The deadline is armed, the KCP session opened, the HELLO sent. *)
Accept ==
    /\ step = "accept"
    /\ step' = "tunnel"
    /\ deadline' = "armed"
    /\ session' = [session EXCEPT !.running = TRUE, !.connectPending = TRUE, !.timer = "armed",
                                  !.read = "pending"]
    /\ sent' = <<HelloV2>>
    /\ UNCHANGED <<app, cancelled, watchdog, script, accum, asked, told, done, completions>>

-----------------------------------------------------------------------------
(* The KCP session. *)

onlySession == <<step, app, cancelled, deadline, watchdog, accum, asked, sent, told, done, completions>>

(* A message of the server arrives. *)
Arrives ==
    /\ session.running /\ script # <<>>
    /\ session' = TryFulfillRead([session EXCEPT !.inq = Append(@, Head(script))])
    /\ script' = Tail(script)
    /\ UNCHANGED onlySession

(* The queued close runs. *)
CloseRuns ==
    /\ session.closing
    /\ session' = [OnClose(session) EXCEPT !.closing = FALSE]
    /\ UNCHANGED <<onlySession, script>>

(* Refused encryption, or the idle timeout of a connected session. *)
SessionDies ==
    /\ session.running
    /\ session' = OnClose(session)
    /\ UNCHANGED <<onlySession, script>>

ConnectTimerExpires ==
    /\ session.timer = "armed"
    /\ session' = [session EXCEPT !.timer = "expired"]
    /\ UNCHANGED <<onlySession, script>>

(* What the connect handler does with its result, and the session it leaves.  *)
ConnectCompleted(ok, s) ==
    /\ completions' = completions + 1
    /\ IF cancelled
       THEN step' = "none" /\ session' = s /\ UNCHANGED <<app, cancelled, deadline>>
       ELSE IF ~ok THEN AbortHandshake(s)
       ELSE step' = "greeting" /\ session' = s /\ UNCHANGED <<app, cancelled, deadline>>

(* The connect timer's handler. *)
ConnectTimeout ==
    LET s == [session EXCEPT !.timer = "off"] IN
    /\ session.timer = "expired"
    /\ IF ~s.connectPending
       THEN /\ session' = s
            /\ UNCHANGED <<step, app, cancelled, deadline, completions>>
       ELSE ConnectCompleted(FALSE, OnClose(s))
    /\ UNCHANGED <<watchdog, exchange, told, done>>

(* The completion of the read for the acknowledgement; the connect timer may   *)
(* have ended the chain before.                                                *)
AckRead ==
    LET s == [session EXCEPT !.read = "none", !.posted = <<>>]
        ok == session.read = "message" /\ session.posted \in {HelloAck, HelloAckV2}
        claimed == [s EXCEPT !.connectPending = FALSE, !.timer = Cancel(@)]
    IN  /\ step \in {"tunnel", "none"}
        /\ session.read \in {"message", "aborted"}
        /\ IF ~s.connectPending
           THEN /\ session' = s /\ step' = "none"
                /\ UNCHANGED <<app, cancelled, deadline, completions>>
           ELSE ConnectCompleted(ok, IF ok THEN [claimed EXCEPT !.connected = TRUE,
                                                                !.fin = session.posted = HelloAckV2]
                                     ELSE OnClose(claimed))
        /\ UNCHANGED <<watchdog, exchange, told, done>>

-----------------------------------------------------------------------------
(* The handshake with the app. *)

(* The chain continues with operation next, after sending the app something. *)
Continue(next, saying) ==
    /\ step' = next
    /\ told' = told \o saying
    /\ UNCHANGED <<app, cancelled, deadline, session, asked, sent>>

(* The refusal is written and the handshake goes on. *)
RefuseAndGoOn(reply) == Continue("header", <<reply>>)

(* A refusal is written; its completion aborts. *)
Refuse(reply) == Continue("refusing", <<reply>>)

BailOut ==
    /\ step' = "none"
    /\ UNCHANGED <<app, cancelled, deadline, session, asked, sent, told>>

Abort == AbortHandshake(session) /\ UNCHANGED <<asked, sent, told>>

(* handle_sync_request: the request goes to the server and the reply is        *)
(* awaited.                                                                    *)
HandleSyncRequest(host) ==
    /\ asked' = [host |-> host, port |-> 443]
    /\ sent' = IF session.running THEN Append(sent, Request(asked')) ELSE sent
    /\ step' = "reply"
    /\ session' = AsyncReadSome(session)
    /\ UNCHANGED <<app, cancelled, deadline, told>>

(* What follows a good read or a finished write, how a bad one is refused      *)
(* (version, reserved byte, address type, empty name, command), and what is    *)
(* asked for.                                                                  *)
Following == [greeting |-> "methods", methods |-> "selecting",
              selecting |-> "header", header |-> "address"]
Refusals == [greeting |-> {NO_ACCEPTABLE}, methods |-> {NO_ACCEPTABLE},
             header |-> {GENERAL_FAILURE, ADDRESS_TYPE_NOT_SUPPORTED},
             address |-> {GENERAL_FAILURE, COMMAND_NOT_SUPPORTED},
             domain |-> {COMMAND_NOT_SUPPORTED}]
Hosts == [address |-> Literals, domain |-> Names]

(* The completion of an operation on the app's socket: it failed, or it        *)
(* delivered what the app chose to send (an address may need more bytes), or   *)
(* it was a write.  On a closed socket it completes too.                       *)
AppCompletes(outcome) ==
    /\ step \in DOMAIN Following \cup {"address", "domain", "refusing"}
    /\ \/ step = "refusing" /\ Abort
       \/ step # "refusing" /\ cancelled /\ BailOut
       \/ /\ step # "refusing" /\ ~cancelled
          /\ \/ outcome = "error" /\ Abort
             \/ /\ outcome = "good" /\ step \in DOMAIN Following
                /\ Continue(Following[step], IF step = "methods" THEN <<METHOD_SELECTED>> ELSE <<>>)
             \/ /\ outcome = "good" /\ step \in DOMAIN Hosts
                /\ \E host \in Hosts[step] : HandleSyncRequest(host)
             \/ outcome = "more" /\ step = "address" /\ Continue("domain", <<>>)
             \/ /\ outcome = "bad" /\ step \in DOMAIN Refusals
                /\ \E code \in Refusals[step] : Refuse(code)
    /\ UNCHANGED <<watchdog, script, accum, done, completions>>

-----------------------------------------------------------------------------
(* The server's reply. *)

Fits(a) == Len(a) <= MaxAccum

(* Only the reply is written. *)
TellReplyAlone(a) ==
    /\ step' = "telling"
    /\ told' = Append(told, SUCCEEDED)
    /\ cancelled' = TRUE
    /\ deadline' = Cancel(deadline)
    /\ watchdog' = "armed"

(* The handshake is complete: the deadline goes, a watchdog guards the write   *)
(* of the reply and of the payload that came with it.                          *)
TellSuccess(a) ==
    /\ step' = "telling"
    /\ told' = told \o <<SUCCEEDED>> \o Trailing(a)
    /\ cancelled' = TRUE
    /\ deadline' = Cancel(deadline)
    /\ watchdog' = "armed"

(* The completion of the read for the reply: a failure of the server is passed *)
(* on, one of the tunnel or the parser is a general failure.                   *)
ReplyRead ==
    LET s == [session EXCEPT !.read = "none", !.posted = <<>>]
        a == accum \o session.posted
        heard == session.read = "message" /\ Fits(a)
        complete == heard /\ Status(a) = "Complete"
        more == heard /\ Status(a) = "NeedMore"
        code == IF complete THEN Code(a) ELSE GENERAL_FAILURE
    IN  /\ step = "reply"
        /\ session.read \in {"message", "aborted"}
        /\ accum' = IF ~cancelled /\ heard THEN a ELSE accum
        /\ \/ /\ cancelled
              /\ step' = "none" /\ session' = s
              /\ UNCHANGED <<cancelled, deadline, watchdog, told>>
           \/ /\ ~cancelled /\ more
              /\ step' = "reply" /\ session' = AsyncReadSome(s)
              /\ UNCHANGED <<cancelled, deadline, watchdog, told>>
           \/ /\ ~cancelled /\ complete /\ code = SUCCEEDED
              /\ TellSuccess(a) /\ session' = s
           \/ /\ ~cancelled /\ ~more /\ code # SUCCEEDED
              /\ step' = "refusing" /\ told' = Append(told, code) /\ session' = s
              /\ UNCHANGED <<cancelled, deadline, watchdog>>
        /\ UNCHANGED <<app, script, asked, sent, done, completions>>

(* The write of the reply completes. *)
ReplyWritten(ok) ==
    /\ step = "telling"
    /\ step' = "none"
    /\ watchdog' = Cancel(watchdog)
    /\ IF ok /\ app = "open"
       THEN done' = TRUE /\ UNCHANGED <<app, session>>
       ELSE app' = "closed" /\ session' = CloseSession(session) /\ UNCHANGED done
    /\ UNCHANGED <<cancelled, deadline, exchange, told, completions>>

-----------------------------------------------------------------------------
(* The two deadlines. *)

TimerExpires ==
    /\ \/ deadline = "armed" /\ deadline' = "expired" /\ UNCHANGED watchdog
       \/ watchdog = "armed" /\ watchdog' = "expired" /\ UNCHANGED deadline
    /\ UNCHANGED <<step, app, cancelled, session, exchange, told, done, completions>>

(* The handler closes whatever it finds. *)
DeadlineUnclaimed ==
    /\ deadline = "expired"
    /\ deadline' = "off" /\ cancelled' = TRUE /\ app' = "closed"
    /\ session' = CloseSession(session)
    /\ UNCHANGED <<step, watchdog, exchange, told, done, completions>>

(* The handshake deadline's handler. *)
Deadline ==
    /\ deadline = "expired"
    /\ deadline' = "off"
    /\ IF cancelled THEN UNCHANGED <<app, cancelled, session>>
       ELSE cancelled' = TRUE /\ app' = "closed" /\ session' = CloseSession(session)
    /\ UNCHANGED <<step, watchdog, exchange, told, done, completions>>

(* The watchdog's handler. *)
Watchdog ==
    /\ watchdog = "expired"
    /\ watchdog' = "off" /\ app' = "closed"
    /\ session' = CloseSession(session)
    /\ UNCHANGED <<step, cancelled, deadline, exchange, told, done, completions>>

Next ==
    \/ TurnAway \/ TurnedAway \/ SetupFails \/ ConnectThrows \/ Accept
    \/ Arrives \/ CloseRuns \/ SessionDies
    \/ ConnectTimerExpires \/ ConnectTimeout \/ AckRead
    \/ \E outcome \in {"good", "more", "bad", "error"} : AppCompletes(outcome)
    \/ ReplyRead
    \/ \E ok \in BOOLEAN : ReplyWritten(ok)
    \/ TimerExpires \/ Deadline \/ Watchdog

Spec == Init /\ [][Next]_vars

-----------------------------------------------------------------------------
(* Properties *)

Answered == Status(accum) = "Complete"

(* Whatever the interleaving of failures, refusals and timers, the connect     *)
(* handler is called at most once (by the acknowledgement, the connect timer   *)
(* or the exception) and the app is sent one method selection and at most one  *)
(* reply to its request: the code of the server's whole reply if there is one, *)
(* otherwise a failure, and payload only after success.                        *)
ReplyProtocol ==
    /\ completions <= 1
    /\ told = <<>> \/ told[1] \in {METHOD_SELECTED, NO_ACCEPTABLE, GENERAL_FAILURE}
    /\ Len(told) >= 2 => told[1] = METHOD_SELECTED
    /\ Len(told) >= 2 => (told[2] = SUCCEEDED => Answered)
    /\ Len(told) >= 3 => told[2] = SUCCEEDED
    /\ Answered => Len(told) >= 2 /\ told[2] = Code(accum)

(* When the forwarding loops start the app has the success reply and exactly   *)
(* the payload that arrived with it; the rest, in order, is still to be read:  *)
(* nothing the target sent early is lost or repeated.  The target's bytes are  *)
(* 101, 102, ...                                                               *)
NothingLost ==
    done /\ session.running
        => LET given == SubSeq(told, 3, Len(told))
               all == given \o FlattenSeq(session.inq) \o FlattenSeq(script)
           IN  all = [i \in 1 .. Len(all) |-> 100 + i]

(* Once the forwarding loops have the tunnel the handshake's timers leave it   *)
(* alone: the deadline's handler, even when it had already expired, finds the  *)
(* handshake over.                                                             *)
DeadlineHarmless == [][done /\ watchdog = "off" => app' = app]_vars

(* The watchdog covers the write of the reply and nothing else (client.cpp,    *)
(* read_socks5_reply): a tunnel whose reply was written is not reclaimed.      *)
WatchdogCoversTheWrite == [][done => app' = app]_vars

Released ==
    /\ app = "closed" /\ ~session.running
    /\ step = "none" /\ session.read \in {"none", "pending"}
    /\ deadline = "off" /\ watchdog = "off" /\ session.timer = "off"

(* Every accepted connection ends up forwarding or is released completely,     *)
(* socket, session and every handler that holds the session (and with it the   *)
(* ticket of the session cap), even when the app or the server falls silent.   *)
Settled == <>(done \/ Released)
=============================================================================
