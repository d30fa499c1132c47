# Verification of kcp-proxy

TLA+ models of the SOCKS5-over-KCP proxy in `src/src/kcp_proxy`, TLC runs that
check them on small instances, and TLAPS proofs of the properties that hold for
every size. `PROJECT.json` lists runs, mutants, the source lines behind each
definition, findings, hazards and theorems.

## The system

A local app speaks SOCKS5 to the **client** (`client.cpp`). For each accepted
connection the client opens a **client session** (`kcp_client_session.cpp`): one
UDP socket, one KCP conversation, one random salt. Datagrams are sealed with
AES-GCM (`crypto.cpp`). The **server** (`server.cpp`) multiplexes all peers over
one UDP socket, keeps a **session table** keyed by endpoint, authenticates the
first datagram of an unknown endpoint, runs the handshake, connects to the
target and forwards. Both session classes derive from `KcpTunnel`, which holds
the read/write machinery, FIN and keepalive.

| Part | State | Operations | Interacts with |
|---|---|---|---|
| sealing | PSK, salt, counters, replay bitmap | encrypt, decrypt, learn or forget a salt | UDP, session table |
| salt tombstones | map salt to expiry, order queue | prune, remember, look up | session table |
| session table | sessions, connections, throttle counters, `stopped_` | route, authenticate, insert, replace, sweep, stop | session strands |
| server handshake | flags of `KCPSession`, accumulated request, connect deadline | HELLO, request, resolve, connect, reply | client handshake, target, tunnel |
| client handshake | step, app socket, session, three timers | accept, HELLO, request, reply, abort | server handshake, app, tunnel |
| SOCKS5 codec | none | encode and parse addresses, requests, replies | both handshakes |
| tunnel | send queues, pending read, parked write, FIN flags, sockets | four forwarding loops, tick, drain, half-close grace | KCP, both sockets |
| adaptive policies | tracker (baseline, clean time, hold), gate | sample | FEC parity, RTO floor |
| datagram path | shard parameters, encoder set, bursts, asynchronous sends | flush, frame, seal, send, unframe, repair, adapt | KCP, socket strand |
| socket loops | receive slots, back-off timer, resolver, `running_` | arm, complete, drain, back off, stop | session table, client handshake |

What is hard here, and therefore aimed at:

- a session strand serialises the handlers of one session, but the receive
  path, the sweep, `stop()` and other strands run beside it;
- `get_or_create_session` authenticates outside the lock and inserts inside it;
- an asio completion, or an expired timer's handler, that is already queued runs
  even if the socket is closed or the timer cancelled meanwhile;
- UDP loses, repeats, reorders and damages;
- a kernel takes part of a burst, and sessions stop while the rest is queued on
  a strand that is not theirs;
- loops that serve a socket must survive every error without going deaf, spinning
  or posting two receives on one buffer;
- teardown may start from either socket, either session, a timer or the sweep,
  while data is still queued.

## Modules

| Module | Models | State and actions |
|---|---|---|
| `AtMostOnceChannel` | what sealing promises | messages sent and delivered; a message is delivered at most once, and only if sent |
| `SealedChannel` | `Crypto` at both ends and the network between | one variable per member of `Crypto`, as a function of the end. `Encrypt` is `encrypt_impl`; the four `Decrypt...` actions are the outcomes of `decrypt_impl`: accept, refuse and forget the salt, cipher failure, refuse. The replay bitmap is the set of its set bits |
| `SaltTombstones` | the tombstone table | `AcceptSalt`, `SweepTombstones`, `AdvanceClock` |
| `SessionTable` | `KCPServer`'s maps and throttles; extends `SaltTombstones` | `Authenticate` ends at the unlock, `CreateSession` / `RefuseSession` are the second critical section; session strands, sweep and stop are actions of their own |
| `Messages` | the SOCKS5 request and reply (`socks5.cpp`, `address.cpp`) and the HELLO strings | operators only: encoders, incremental parsers, lengths, byte by byte |
| `ServerHandshake` | one `KCPSession` from its first datagram to forwarding | record `s` of flags; `HelloRead`, `RequestRead`, `Resolved`, `Connected`, `Deadline`, ... are the handlers |
| `ClientHandshake` | one accepted connection | `step` is the asynchronous operation waited for; each completion is an action; the three timers have states off, armed, expired, where expired means the handler is queued |
| `Handshake` | both ends joined, or either one with a scripted peer | `ClientMoves` and `ServerMoves` are the steps of the two modules, `toClient` and `toServer` what is in flight; loss, idle timeout and sweep; payload after the handshake |
| `Tunnel` | an established tunnel, both ends | a record per end; the eight loop handlers, ticks, sweep, timeouts, and the network |
| `CleanPath` | `CleanPathTracker` with the parity and RTO controllers | `Sample` is one timer tick, `Traffic` and `CountersReset` the counters |
| `DatagramPath` | everything between KCP and the socket at both ends of a session | a flush emits, frames and seals one burst; `SendBatchToClient` is the server's strand; sends complete or fail; a received frame is unframed, fed to KCP and to the decoder; the server adapts to its first datagram |
| `SocketLoops` | the server's receive slots and its `recvmmsg` drain, a client session's receive, the client's resolver and accept loop | record `x` of the loop; `busy` is the handler on the strand between its check of `running_` and its end, so that `stop()` can fall in between |
| `SealedChannelProofs`, `SaltTombstonesProofs`, `SessionTableProofs`, `TunnelProofs`, `HandshakeProofs`, `SocketLoopsProofs`, `CleanPathProofs`, `DatagramPathProofs` | | theorems |

`MC...` modules give the constants their values. A definition whose name says
what is wrong with it (`SendFinFirst`, `RetireSilently`) and whose comment
describes a slip is a mutant: it is not part of the specification, and stands
next to the definition it is a wrong version of.

### Composition and refinement

- `SessionTable` extends `SaltTombstones`, and its steps are steps of
  `TombstoneSpec` (`TombstonesRespected`): what is shown of the tombstones alone
  holds in the server.
- Each direction of `SealedChannel` implements `AtMostOnceChannel`
  (`ImplementsChannel`). Client to server, sent is what the client sealed and
  delivered what a server end accepted that learned this client's salt; server to
  client, sent is what that server end sealed.
- `Handshake` instantiates `ClientHandshake` and `ServerHandshake` with the
  messages one sends as the messages the other receives. Either end also meets
  peers that are not this code, so a behaviour has one of three modes: this client
  with a scripted server, this server with a scripted client, both.
- `Tunnel` and `DatagramPath` each compose both ends of an established session.

### Abstractions

- Ciphers are ideal: a datagram carries the salt, direction and counter it claims
  and whether its tag verifies.
- A unit in `Tunnel` is one KCP segment. The real queue bound is the threshold
  plus the fragments of one read.
- KCP delivers in order or not at all, and its send never refuses
  (`kcp_wrapper.hpp:65`). `retry_pending_fin` therefore never has anything to do
  and `fin_requested_` is not a variable of the model.
- `bad_alloc` inside the second critical section of `get_or_create_session` is
  left out.
- The receive path is serialised on the socket strand, so at most one datagram
  is between the two locks. The recheck for an incumbent of the same salt is
  then unreachable.
- Handshake modules leave keepalives out; `Tunnel` has them. Client timers may
  expire in any order, which includes the real 3 s before 30 s.
- `Messages` keeps bytes, because fragments may end anywhere and what follows a
  message is payload. How asio renders and reads an address as text is external:
  a tag in front of its bytes, with `::` as the one literal that also is a name.
- In `DatagramPath` a datagram of KCP is its number. The erasure code is external:
  a parity shard stands for the data shards of its set, and a set is rebuilt from
  as many shards as it has data shards. Duplicates end at the replay window of
  `SealedChannel` and are left out.
- In `SocketLoops` a datagram is only counted; what is done with it is
  `SessionTable`'s or `DatagramPath`'s.
- A resolved name is one address: trying the next one is folded into the outcome
  of the connect.
- Both policies sample the same counters. They share nothing, so separate
  snapshots add no behaviour.
- The `fin_check` branch of `forward_kcp_to_client` cannot be reached in the
  model or the code; it is harmless.

## Runs

| Run | Shows | States |
|---|---|---|
| `sealed_channel` | no datagram accepted twice, bitmap exact, highest counter genuine, nonces unique, both directions implement the abstract channel | 57,442 |
| `session_table` | connections belong to the registered session; no running session outside the table; nothing after stop; a live session is not dropped by an unauthenticated datagram or a late teardown; salts distinct; tombstone map and queue in step, a salt refused until it expires or the cap evicts it | 321,477 |
| `session_reclaim` | at the session cap: limits hold, a stopped session leaves the table, target sockets are closed | 79,353 |
| `tunnel` | streams are prefixes with heartbeats mixed in, FIN means the whole stream, one read outstanding | 4,236,523 |
| `tunnel_liveness` | V1 and V2: send queue bounded, the response of a target that closed reaches an app that reads, a tunnel with one end gone or half-closed and silent is released | 147,590 |
| `handshake` | one request, one read, one reply, one completion; no early byte lost in either direction; both ends agree on target, result and FIN; a deadline leaves a forwarding tunnel alone; nothing stalls, both ends settle | 79,069 |
| `clean_path` | tunnels go unprotected only when that was earned, probes are a hold apart | 981,082 |
| `socket_loops` | a running loop is never deaf, never has two receives on one buffer, retries at the pace of its timer, routes only while the key is there, serves what arrives and comes to rest | 31,230 |
| `datagram_path` | every frame of a burst is in one place only; neither end is sent a frame it refuses; repair yields exactly the peer's datagrams; a session with a hole in its stream ends | 125,450 |

Three runs end in a violation and show where a comment or document says something
the code does not do (details and quotations in `findings`):

| Run | Violated | What happens |
|---|---|---|
| `tunnel_fin` | `FinComesLast` | a target read that completed before a failed target write sends its data behind the FIN |
| `session_evict` | `EvictedMeansReplaced` | the incumbent is evicted, then the newcomer refused for a duplicate salt |
| `client_watchdog` | `WatchdogCoversTheWrite` | an expired watchdog closes a tunnel whose reply was written |

Smaller observations from the models, without a run of their own:

- the error returns of `decrypt_impl` after a cipher failure keep a salt learned
  on the same call (harmless, the only such object is discarded);
- an empty send buffer means that the client's KCP has the tail, not that the app
  does, so an app that does not read for the idle timeout loses it (the exception
  `appStalled` in `ResponseDelivered`);
- a sample that falls on a counter reset is swallowed, loss in it included: the
  tracker rebases and waits for the next one;
- an end with anything unread in its KCP, a keepalive included, sends no keepalive
  of its own (`kcp_tunnel.cpp:626`).

### Bounds

- `SealedChannel`: window of 2 bits, 5 counters, starting at 1 or 3. Slides by
  one, by exactly the width and past it occur, and the client meets the ceiling.
- `SessionTable`: 2 endpoints, 2 salts, 2 sessions created (3 for
  `session_evict`), room for one tombstone of lifetime 1, so that expiry and
  eviction both happen; every throttle at 1 or 2 so that each is hit.
  `session_table` has room for 2 sessions, so that two live at once;
  `session_reclaim` for 1, so that the cap refuses.
- `Tunnel`: threshold 2 so that a FIN can be queued behind unacknowledged data
  (with 1 the loop is parked until everything is acknowledged). `tunnel` has data
  in both directions and one heartbeat; `tunnel_liveness` has 3 target units, so
  that the loop parks and resumes and a hole in the stream shows, and an app that
  only ends its stream.
- `Handshake`: 24 bytes for a request or reply, met exactly and exceeded; scripted
  peers that send whole, pipelined, refused, oversized and nonsensical messages,
  or none, and messages cut before and behind each byte that decides their
  length; one message of payload each way once both ends forward.
- `SocketLoops`: 2 slots on one timer; a drain of 2 in chunks of 1; 3 arrivals, so
  that a drain leaves one behind; 3 failures, so that both slots park and one
  fails again.
- `DatagramPath`: a client without `-fec` at a server with it, one that agrees with
  the adaptive parameters, one that does not; sets of two and a parity shard, 3 or
  4 datagrams in flushes of up to 2, so that a flush ends inside a set and one set
  goes unprotected while the next does not.
- `CleanPath`: 9 time units, holds longer than the clean time, so that a missing
  hold would show; counters up to 5 in words of 16.

Symmetry is used for safety runs only. `CHECK_DEADLOCK FALSE` stands where the
system really stops: a tunnel or handshake that is over, a server that stopped.

### Fairness

Weak fairness of handlers that are queued, of the ticks, the sweep and timers:
the io_context runs every ready handler and every timer expires. Datagrams and
acknowledgements arrive while the link is up, since KCP retransmits. Reads of a
closed socket complete, since asio aborts them; nothing makes an app or a target
read, write or close. Writes to an app or target complete one way or the other in
`Tunnel`: a peer that never reads is left to the operating system, and an app
that stalls for longer than the idle timeout is the exception named in
`ResponseDelivered`. In `Handshake` what is in flight arrives, or is lost once its
sender has stopped, and the end left behind notices by its idle timeout or the
sweep. In `SocketLoops` a receive completes when the kernel holds something or the
socket is closed; nothing makes a datagram arrive or `stop()` be called. In
`DatagramPath` posted work runs and asynchronous sends complete or fail; the
network need not deliver anything.

## Proofs

TLAPS proves these for every value of the constants that satisfies the `ASSUME`
of the module.

`SealedChannelProofs`, from `ConstantsAssumption` (window width positive, salts
and counters well formed): `TypeOKHolds`, `AtMostOnceHolds`, `WindowExactHolds`,
`HighestGenuineHolds`, `NonceUniqueHolds`, `ChannelRefined`. The invariants they state are not
inductive: that a datagram was delivered is only known to the receiver through
the bitmap. `ReceiveInv` therefore carries `Summary` for each end: the highest
counter was delivered once, nothing above it was, a counter inside the window
was delivered exactly if its bit is set, and none was delivered twice. Lemmas
treat the cases of `commit_replay_window` (first, jump past the window, slide,
late arrival); the boundary shift = width belongs to the slide. `SealInv` says that counters sealed lie below the next one.
`WireInv` adds what the refinement needs: the client's salt is there from the
start, and every datagram on the wire carries its sender's salt and a counter its
sender sealed. A server end that has not learned a salt has sealed and accepted
nothing, so learning one is a stutter of one channel and a delivery in the other.

`SaltTombstonesProofs`, from `TombstoneAssumption`: `TombstonesStayInStep`,
`SaltsNotReaccepted`. The order queue is always the tail of the history of
acceptances (`QueueInv`), each entry expiring one lifetime after its acceptance;
what precedes the tail outlived its lifetime or made room at the cap
(`HistoryInv`). Expiries grow along the queue because the clock does, so the
pruned queue is a suffix: the least index still alive is found by the
well-founded minimum.

`SessionTableProofs`, from both assumptions: `ConnectionsOwnedHolds`,
`NoOrphanHolds`, `EmptyAfterStopHolds`, `TombstonesRespectedHolds`, and the action
properties `SaltsDistinctOnEntryHolds` and `LiveSessionKeptHolds`, which follow from
the invariant by cases over the steps. The invariant
`TableInv` says of the maps (`Maps`) that they hold existing sessions, each under
its own endpoint, that a socket is published only by the session its key holds,
and that whoever runs without a queued stop is registered; of the rest, that a
salt is accepted per session, that a datagram between the two locks leaves room
for its session, and that `drained` implies `stopped`. The
lemmas follow the code: every handler, refusal, sweep and stop only changes
objects without making a new runner, or removes sessions and stops them
(`RemovalKeepsMaps`); only `CreateSession` inserts, under a key both maps lack by
then (`CreateReplaces`), because a free salt means that the incumbent goes.
`BoundedHolds` adds the invariant `LimitInv`, that an authentication window stays
within its limits through rolling, attempts and failures;
`ServerSaltNotReaccepted` follows from `TombstonesRespectedHolds` and
`SaltsNotReaccepted`.

`TunnelProofs`, from `TunnelAssumption` (a positive threshold, a resume mark below
it): `StreamsArePrefixes`, `ReadsDoNotStack`, `HalfCloseTruncatesNothing`,
`WatermarksBoundTheQueues`, for streams of any length and any number of
heartbeats. None of the four is inductive: what the reader wrote says nothing of
what it will write next. `TunnelInv` therefore follows every unit. A queue
`Holds` the units above one number up to another, in order, between control
messages; `Stream` says that the reader's queue continues what the reader has
taken, that the sender's KCP queue continues the reader's queue, and that a FIN
sent at the end of the data stands behind all of it. `Flow` is a direction of the
tunnel: a stream, or a reader that has given up, with what was written a prefix
either way. `Throttled` leaves room under the watermark for the unit an armed
TCP read may bring. `Firsts`, that a queue with a message other than a heartbeat
has a first one, holds of every finite sequence; it is carried along because its
proof is an induction over the sequence, which the steps supply. A handler is a
composition of helpers, so each helper has a lemma about two arbitrary ends
(`Ends`), and a handler's lemma chains them; all handlers that move no data share
`Quiet`. `TunnelInvariant` is the result, over all seventeen actions.

`HandshakeProofs`, from `HandshakeAssumption` (a message is a sequence of bytes, a
finished connect has a code): `AppIsAnsweredOnce`, `PeerIsAnsweredOnce` and the
action property `DeadlineLeavesTunnel`, in all three modes, for every script,
every outcome of a connect and any buffer size. `HandshakeInv` says of the client
what the app has been told at each step of the chain, and that a pending connect
is the one completion to come, before anything is told; of the server which read
may be outstanding in which phase (`Reading`), that there is at most one reply and
the acknowledgement comes first (`Answers`), and that a session that runs after
its request is connecting or done. That a session which replied and still runs
has finished its handshake (`ServerInv`) is broken for an instant inside a failing
handler, between the reply and the stop; the lemmas about helpers therefore keep
`Core`, and the handler restores the rest. The two ends meet only in the messages
in flight, of which the argument needs no more than their type.

`SocketLoopsProofs`, from `LoopAssumption`: `StaysArmedHolds`,
`NoStackedReceiveHolds`, `PacedHolds`, `KeyHeldHolds`, for any number of slots on
the shared timer, any drain limits and any number of failures. That a slot is
served now does not say that it will be after the timer has fired. `LoopInv`
therefore says that each slot is in exactly one place (an outstanding operation,
the handler at work, or waiting for the timer), that a slot which failed is not
armed before the timer has fired, that where the loop has one slot the timer is
off unless that slot waits for it, and that a running loop has its key, no queued
teardown and no cancelled timer. One lemma per way the loop's record changes
(`ArmGood`, `ParkGood`, `OpGood`, `BeginGood`, `CloseGood`), then one step per action.

`CleanPathProofs`, from `CleanPathAssumption`: `TypeOKHolds`, `EarnedHolds`,
`ProbesApartHolds`. `PathInv` adds to the types what connects a
tracker to its gate and to the recorded history: the gate is open while the
tracker is clean, the clean time accumulated is at most the
busy, clean time measured, the hold ends `HoldTime` after the last loss, a clean
tracker was relaxed no earlier than that, and one that is no longer clean has
seen a loss since it was last relaxed. `DeltaExact` shows that an
unsigned difference is the true one because backward counters are rebased.

`DatagramPathProofs`, from `DatagramAssumption` (shard parameters that
`parse_fec_config` accepts, adaptive ones that are not off): `HandedOnceHolds`,
`FramingAgreesHolds`, `RepairExactHolds`, for every pair of `-fec` settings, flushes of
any size and any number of datagrams. None is inductive. That a frame is new when
it is sealed, so that it cannot already be in some place, depends on where the
encoder stands; that is a walk over all datagrams so far, but its outcome depends
only on their number: `EncoderAt` and `IsFrame` say in closed form, with a quotient
and a remainder, which set is begun and which frames the first n datagrams can
have. `BatchFrames` carries that through a flush by induction over its datagrams,
and the last datagram of a frame tells new frames from old ones. `Placed` says of
each end that what was sealed is the disjoint union of four places, and has
lemmas for what arrives at a place and leaves it (`AddSent`, `TakeFirst`, ...), so
that each way of sending, failing and closing is a short chain of them.
`PlacedOnce` turns the sets into the bags of `HandedOnce`. `Framing` says that a
server session without a received frame has sent nothing, and that afterwards
both ends frame or neither does. `Received` says that the decoder knows exactly
what arrived; with the closed form, the shards of one set agree with its parity,
which is what `Repair` needs. Induction is used through the least counterexample
(`LeastElement`, `Induction`), since the library's induction theorems take an
operator.

Only model-checked, and why:

- all liveness (`SessionReclaimed`, `ResponseDelivered`, `TunnelReclaimed`,
  `NothingStalls`, `Settled`, `ServedThenQuiet`, `RefusalEnds`): temporal properties under
  fairness are out of the prover's reach.
- `NothingLost` and `EarlyDataKept`: they compare bytes with the concatenation of
  all queued messages (`FlattenSeq`), and what a recursive definition computes for
  every input takes an induction over data that the prover cannot do here.
- `EndsAgree`: it rests on the parser of a request inverting its encoder, a fact
  about concatenated bytes of every address form, and on a matching of every message
  in flight with its sender's state; no theorem states it.

## Not modelled

- The KCP engine itself: a library outside the repository. `Tunnel` assumes what
  the code relies on, ordered reliable messages and a send that never refuses;
  retransmission timers, congestion window and conversation ids are its own.
- AES-GCM, HKDF and the Reed-Solomon code: ideal, or external operators.
- The address policy (private ranges, allow-list): pure predicates over addresses
  with no state. Their verdict is a nondeterministic refusal in
  `ServerHandshake`.
- Buffer pools and socket options: memory and I/O with no protocol state.
- Logging and the traffic reporter: output that no other part reads.
- Command-line parsing: its results are the `CONSTANTS`.
- Binding sockets, sizing thread pools, and `bad_alloc` inside the second
  critical section of `get_or_create_session`.
- The desktop GUI, which supervises the client process from outside, and the
  packaging scripts.
