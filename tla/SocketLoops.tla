---------------------------- MODULE SocketLoops ----------------------------
(***************************************************************************)
(* The loops that keep a socket served, and their shutdown.  Each has one  *)
(* or more slots with one asynchronous operation outstanding, re-armed by  *)
(* its own completion handler; a failure nobody knows is retried through a *)
(* 10 ms back-off timer.  Kinds:                                           *)
(*   "slots"    the server's UDP receives, UDP_RECV_SLOTS of them sharing  *)
(*              one back-off timer (server.cpp, not Linux);                *)
(*   "drain"    the server's readiness wait and recvmmsg drain (Linux);    *)
(*   "session"  the UDP receive of one client session;                     *)
(*   "accept"   the client's resolver, listener and accept loop.           *)
(* The server's handlers share a strand, while stop() runs on any thread:  *)
(* it can fall between a handler's check of running_ and what follows.     *)
(* A client session stops on its own strand, the client on its only thread.*)
(***************************************************************************)
EXTENDS Integers, FiniteSets

CONSTANTS
    Slots,          \* UDP_RECV_SLOTS
    DrainMax,       \* UDP_DRAIN_BATCH_MAX
    Chunk,          \* UDP_BATCH_MAX
    MaxArrivals,    \* bound: datagrams (or local connections) in a run
    MaxErrors       \* bound: failed operations in a run

ASSUME LoopAssumption ==
    /\ Slots \in Nat \ {0}
    /\ Chunk \in Nat \ {0}
    /\ DrainMax \in Nat \ {0}

Server == {"slots", "drain"}
Idle == [slot |-> 0, doing |-> "nothing", held |-> 0, failed |-> FALSE]

VARIABLES
    kind,       \* which of the loops this is
    x,          \* the process: the fields in Start
    kernel,     \* datagrams (connections) the kernel holds
    arrivals,   \* how many have arrived
    errors      \* how many operations have failed

vars == <<kind, x, kernel, arrivals, errors>>

SlotsOf(k) == IF k = "slots" THEN 1..Slots ELSE {1}
Slot == SlotsOf(kind)

(* start(): the server's arming is queued on the socket's strand; the client   *)
(* begins by resolving the server's name.                                      *)
Start(k) ==
    [running  |-> k # "accept",
     resolver |-> IF k = "accept" THEN "pending" ELSE "none",
     op       |-> [i \in SlotsOf(k) |-> IF k \in Server THEN "arming"
                                        ELSE IF k = "session" THEN "waiting" ELSE "none"],
     parked   |-> [i \in SlotsOf(k) |-> FALSE],    \* RecvSlot::parked
     backoff  |-> FALSE,                           \* recv_backoff_armed_
     timer    |-> "off",                           \* "armed", "expired", "cancelled"
     busy     |-> Idle,                            \* the handler on the strand
     stop     |-> "no",                            \* "queued" teardown, "done"
     halted   |-> FALSE,                           \* io_context::stop()
     key      |-> TRUE,                            \* key_ not wiped
     routed   |-> 0,
     \* history
     stacked  |-> FALSE,                           \* armed over an outstanding operation
     failures |-> [i \in SlotsOf(k) |-> 0]]        \* unknown errors since the timer fired

Init ==
    /\ kind \in {"slots", "drain", "session", "accept"}
    /\ x = Start(kind)
    /\ kernel = 0
    /\ arrivals = 0
    /\ errors = 0

-----------------------------------------------------------------------------
(* The helpers *)

(* arm_receive_slot, arm_receive_drain, do_udp_receive, do_accept. *)
ArmAll(s, slots) ==
    IF ~s.running THEN s
    ELSE [s EXCEPT !.op = [i \in DOMAIN @ |-> IF i \in slots THEN "waiting" ELSE @[i]],
                   !.parked = [i \in DOMAIN @ |-> @[i] /\ i \notin slots],
                   !.stacked = @ \/ \E i \in slots : s.op[i] \notin {"none", "arming"}]

Arm(s, i) == ArmAll(s, {i})

(* An unknown error is retried at once. *)
ParkEagerly(s, i) ==
    Arm([s EXCEPT !.failures[i] = @ + 1], i)

(* park_receive_slot, park_receive_drain; the client's loops arm their timer   *)
(* outright, having one slot.                                                  *)
Park(s, i) ==
    LET t == [s EXCEPT !.failures[i] = @ + 1, !.parked[i] = (kind = "slots")]
    IN  IF kind \in Server /\ s.backoff THEN t
        ELSE [t EXCEPT !.backoff = (kind \in Server), !.timer = "armed"]

(* Close the socket (acceptor) and cancel the timer: what waits is aborted, a  *)
(* handler already queued still runs.                                          *)
CloseAll(s) ==
    [s EXCEPT !.op = [i \in DOMAIN @ |-> IF @[i] = "waiting" THEN "aborted" ELSE @[i]],
              !.timer = IF @ = "armed" THEN "cancelled" ELSE @,
              !.resolver = IF @ = "pending" THEN "aborted" ELSE @]

OnLoop == ~x.halted /\ x.busy = Idle

-----------------------------------------------------------------------------
(* The environment *)

Arrives ==
    /\ arrivals < MaxArrivals
    /\ arrivals' = arrivals + 1
    /\ kernel' = kernel + 1
    /\ UNCHANGED <<kind, x, errors>>

(* A receive takes a datagram (perhaps an empty one), an accept a connection;  *)
(* the drain's wait only reports that there is something to read.              *)
Completes(i) ==
    /\ x.op[i] = "waiting" /\ kernel > 0
    /\ \E o \in IF kind \in {"slots", "session"} THEN {"data", "empty"} ELSE {"data"} :
          x' = [x EXCEPT !.op[i] = o]
    /\ kernel' = IF kind = "drain" THEN kernel ELSE kernel - 1
    /\ UNCHANGED <<kind, arrivals, errors>>

Fails(i) ==
    /\ x.op[i] = "waiting" /\ errors < MaxErrors
    /\ \E o \in IF kind \in {"slots", "session"} THEN {"refused", "error"} ELSE {"error"} :
          x' = [x EXCEPT !.op[i] = o]
    /\ errors' = errors + 1
    /\ UNCHANGED <<kind, kernel, arrivals>>

BackoffExpires ==
    /\ x.timer = "armed"
    /\ x' = [x EXCEPT !.timer = "expired"]
    /\ UNCHANGED <<kind, kernel, arrivals, errors>>

ResolverAnswers ==
    /\ x.resolver = "pending"
    /\ \E o \in {"ok", "failed"} : x' = [x EXCEPT !.resolver = o]
    /\ UNCHANGED <<kind, kernel, arrivals, errors>>

-----------------------------------------------------------------------------
(* The handlers *)

(* The first arming, queued by the server's start(). *)
FirstArm(i) ==
    /\ OnLoop /\ x.op[i] = "arming"
    /\ x' = IF x.running THEN Arm(x, i) ELSE [x EXCEPT !.op[i] = "none"]
    /\ UNCHANGED <<kind, kernel, arrivals, errors>>

(* do_resolve's handler.  A failure to resolve or to listen is fail_startup,   *)
(* which stops the io_context.  (An aborted answer would end the handler, but  *)
(* whoever cancels the resolver has stopped the io_context.)                   *)
Resolved ==
    /\ OnLoop /\ x.resolver \in {"ok", "failed"}
    /\ LET s == [x EXCEPT !.resolver = "none"]
       IN  \/ x' = [s EXCEPT !.halted = TRUE]
           \/ x.resolver = "ok" /\ x' = Arm([s EXCEPT !.running = TRUE], 1)
    /\ UNCHANGED <<kind, kernel, arrivals, errors>>

(* handle_receive, and the handlers of do_udp_receive and do_accept, up to     *)
(* their check of running_.                                                    *)
HandleReceive(i) ==
    /\ OnLoop /\ kind # "drain"
    /\ x.op[i] \in {"data", "empty", "refused", "error", "aborted"}
    /\ LET s == [x EXCEPT !.op[i] = "none"]
           then(what) == [s EXCEPT !.busy = [Idle EXCEPT !.slot = i, !.doing = what,
                                                         !.held = IF what = "route" THEN 1 ELSE 0]]
       IN  x' = IF ~x.running \/ x.op[i] = "aborted" THEN s
                ELSE CASE x.op[i] = "data" -> then("route")
                       [] x.op[i] = "error" -> then("park")
                       [] x.op[i] \in {"refused", "empty"} -> then("arm")
    /\ UNCHANGED <<kind, kernel, arrivals, errors>>

(* handle_receive_drain: everything the kernel holds is read, up to the batch  *)
(* limit, unless a recvmmsg fails after some full chunks.                      *)
HandleReceiveDrain(i) ==
    /\ OnLoop /\ kind = "drain" /\ x.op[i] \in {"data", "error", "aborted"}
    /\ LET s == [x EXCEPT !.op[i] = "none"]
           next(what, n, failed) ==
               [s EXCEPT !.busy = [slot |-> i, doing |-> what, held |-> n, failed |-> failed]]
           all == IF kernel < DrainMax THEN kernel ELSE DrainMax
       IN  \/ /\ ~x.running \/ x.op[i] = "aborted"
              /\ x' = s /\ UNCHANGED <<kernel, errors>>
           \/ /\ x.running /\ x.op[i] = "error"
              /\ x' = next("park", 0, TRUE) /\ UNCHANGED <<kernel, errors>>
           \/ /\ x.running /\ x.op[i] = "data"
              /\ x' = next("check", all, FALSE) /\ kernel' = kernel - all
              /\ UNCHANGED errors
           \/ /\ x.running /\ x.op[i] = "data" /\ errors < MaxErrors
              /\ errors' = errors + 1
              /\ \E n \in 0..all :
                    /\ n % Chunk = 0 /\ n < DrainMax
                    /\ x' = next("check", n, TRUE) /\ kernel' = kernel - n
    /\ UNCHANGED <<kind, arrivals>>

(* After the drain running_ is read again: what was read by a server that is   *)
(* stopping is dropped.                                                        *)
DrainChecked ==
    /\ x.busy.doing = "check"
    /\ x' = IF x.running THEN [x EXCEPT !.busy.doing = "route"] ELSE [x EXCEPT !.busy = Idle]
    /\ UNCHANGED <<kind, kernel, arrivals, errors>>

(* The rest of the handler: route what was received (handle_client_connection  *)
(* for an accept), then re-arm or park.  An empty or refused receive re-arms.  *)
HandlerEnds ==
    /\ x.busy.doing \in {"route", "park", "arm"}
    /\ LET b == x.busy
           s == [x EXCEPT !.busy = Idle, !.routed = @ + b.held]
       IN  x' = IF b.doing = "park" \/ b.failed THEN Park(s, b.slot) ELSE Arm(s, b.slot)
    /\ UNCHANGED <<kind, kernel, arrivals, errors>>

(* The timer's handler re-arms every slot. *)
ParkedAll(s) ==
    Slot

(* The slots the timer's handler re-arms: the parked ones (the only one). *)
Parked(s) ==
    IF kind = "slots" THEN {i \in Slot : s.parked[i]} ELSE Slot

(* The flag stays set when the timer fires. *)
TimerOffFlagKept(s) ==
    [s EXCEPT !.timer = "off"]

TimerOff(s) ==
    [s EXCEPT !.timer = "off", !.backoff = FALSE]

(* The timer's handler: cancelled it does nothing more. *)
BackoffFired ==
    /\ OnLoop /\ x.timer \in {"expired", "cancelled"}
    /\ x' = IF x.timer = "cancelled" THEN TimerOff(x)
            ELSE ArmAll([TimerOff(x) EXCEPT !.failures = [i \in Slot |-> 0]], Parked(x))
    /\ UNCHANGED <<kind, kernel, arrivals, errors>>

-----------------------------------------------------------------------------
(* Shutdown *)

(* The caller of stop() wipes the key itself. *)
StopServerWipes(s) ==
    [s EXCEPT !.running = FALSE, !.stop = "queued", !.key = FALSE]

(* KCPServer::stop: running_ is cleared; closing the socket, cancelling the    *)
(* timer and wiping the key are left to the socket's strand.                   *)
StopServer(s) ==
    [s EXCEPT !.running = FALSE, !.stop = "queued"]

(* KCPClientSession::on_close. *)
OnClose(s) ==
    [CloseAll(s) EXCEPT !.running = FALSE, !.stop = "done"]

(* KCPProxyClient::stop, and the io.stop() the signal handler goes on with. *)
StopClient(s) ==
    [CloseAll(s) EXCEPT !.running = FALSE, !.stop = "done", !.key = FALSE, !.halted = TRUE]

Stop ==
    /\ x.stop = "no" /\ ~x.halted
    /\ \/ kind \in Server /\ x' = StopServer(x)
       \/ kind = "session" /\ OnLoop /\ x' = OnClose(x)
       \/ kind = "accept" /\ OnLoop /\ x' = StopClient(x)
    /\ UNCHANGED <<kind, kernel, arrivals, errors>>

(* stop()'s handler on the socket's strand. *)
Teardown ==
    /\ OnLoop /\ x.stop = "queued"
    /\ x' = [CloseAll(x) EXCEPT !.stop = "done", !.key = FALSE]
    /\ UNCHANGED <<kind, kernel, arrivals, errors>>

(* The signal handler's io.stop(), after stop() returned: no further handler   *)
(* starts, those running on other threads end.                                 *)
IoStops ==
    /\ kind \in Server /\ x.stop # "no" /\ ~x.halted
    /\ x' = [x EXCEPT !.halted = TRUE]
    /\ UNCHANGED <<kind, kernel, arrivals, errors>>

(* The destructor leaves the key to stop(), which has run already. *)
DestroyUnwiped(s) ==
    [s EXCEPT !.op = [i \in Slot |-> "none"], !.timer = "off", !.resolver = "none",
              !.running = FALSE]

(* The pending handlers go, and the server or client with them: its destructor *)
(* calls stop() and wipes the key.                                             *)
Destroy(s) ==
    [s EXCEPT !.op = [i \in Slot |-> "none"], !.timer = "off", !.resolver = "none",
              !.running = FALSE, !.key = FALSE]

(* io.run() has returned. *)
Destroyed ==
    /\ x.halted /\ x.busy = Idle
    /\ x' = Destroy(x)
    /\ UNCHANGED <<kind, kernel, arrivals, errors>>

Next ==
    \/ Arrives
    \/ BackoffExpires
    \/ ResolverAnswers
    \/ Resolved
    \/ DrainChecked
    \/ HandlerEnds
    \/ BackoffFired
    \/ Stop
    \/ Teardown
    \/ IoStops
    \/ Destroyed
    \/ \E i \in Slot : \/ Completes(i)
                       \/ Fails(i)
                       \/ FirstArm(i)
                       \/ HandleReceive(i)
                       \/ HandleReceiveDrain(i)

Spec == Init /\ [][Next]_vars

(* Queued handlers run and a running one ends, the timer expires, the kernel   *)
(* completes what it can, a stopped io_context returns from run().             *)
Fairness ==
    /\ WF_vars(BackoffExpires)
    /\ WF_vars(ResolverAnswers)
    /\ WF_vars(Resolved)
    /\ WF_vars(DrainChecked)
    /\ WF_vars(HandlerEnds)
    /\ WF_vars(BackoffFired)
    /\ WF_vars(Teardown)
    /\ WF_vars(Destroyed)
    /\ \A i \in 1..Slots : WF_vars(i \in Slot /\ (Completes(i) \/ FirstArm(i) \/ HandleReceive(i)
                                                   \/ HandleReceiveDrain(i)))

FairSpec == Spec /\ Fairness

-----------------------------------------------------------------------------
(* Properties *)

(* A running loop never goes deaf: each of its slots has an operation          *)
(* outstanding or its handler at work, or waits for the back-off timer, which  *)
(* is armed and will find the slot parked.  The server's flag says exactly     *)
(* whether the timer is armed, so that the next failure arms it again.         *)
StaysArmed ==
    x.running /\ ~x.halted =>
        /\ \A i \in Slot :
              \/ x.op[i] # "none"
              \/ x.busy.slot = i
              \/ x.timer \in {"armed", "expired"} /\ (kind = "slots" => x.parked[i])
        /\ kind \in Server => (x.backoff <=> x.timer # "off")

(* A slot's buffer never has two receives outstanding, and a slot that waits   *)
(* for the back-off has none: the shared timer re-arms the parked slots only.  *)
NoStackedReceive ==
    /\ ~x.stacked
    /\ \A i \in Slot : x.parked[i] => x.op[i] = "none"

(* A persistent failure is retried at the timer's pace: between two firings no *)
(* slot's operation fails for an unknown reason more than once.                *)
Paced ==
    \A i \in Slot : x.failures[i] <= 1

(* A datagram is routed with the key in place, stop() having been called on    *)
(* another thread or not: routing derives the session key of a new session.    *)
KeyHeldWhileRouting ==
    x.busy.doing = "route" => x.key

(* A loop that is not stopped serves whatever reaches its socket, a full drain *)
(* batch and failures notwithstanding.  A loop that is stopped, in any state,  *)
(* comes to rest: no operation, handler or timer is left, and the key of the   *)
(* process is wiped, io_context stopped or not.                                *)
ServedThenQuiet ==
    /\ kernel > 0 ~> kernel = 0 \/ x.stop # "no" \/ x.halted
    /\ x.stop # "no" \/ x.halted
          ~> /\ \A i \in Slot : x.op[i] = "none"
             /\ x.busy = Idle /\ x.timer = "off" /\ x.resolver = "none"
             /\ kind # "session" => ~x.key
=============================================================================
