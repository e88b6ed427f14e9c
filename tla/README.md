# A TLA+ verification of RUDP

RUDP is a reliable transport on top of UDP: a client and a server exchange
datagrams that carry a sequence number, a cumulative acknowledgement (`Ack`) and
a bitmap of what arrived beyond it (`AckBits`). This directory holds a model of
it, the TLC runs that check the model on small instances, and proofs, checked by
TLAPS, of what holds for every instance.

## Inventory

| Component | State it keeps | Operations | What makes it correct |
|---|---|---|---|
| Protocol | none | 32-bit sequence comparison, header fields | comparison is right across the wrap-around within half of the space |
| ConnectionStateMachine | none (pure) | `classify_control_kind`, `decide_connection_transition` | each role takes only its own handshake steps |
| RxHandler | receive front, bitmap, reorder buffer, monotonic versions, event queue | `on_packet`, `drain_events` | no reliable payload twice, ordered payloads in order, acknowledge only what was received |
| TxHandler | next number, last acknowledgement, send queue, in-flight table, pending flags | `queue_app_data`, `on_remote_ack`, `poll` | bounded window, no number reused while in flight, nothing forgotten before it is acknowledged |
| Session | role, `conn_id`, connection state, one Rx and one Tx state | `queue_send`, `poll_tx`, `on_datagram_received`, `request_close`, `drain_events` | both ends agree on the connection, closing is known to both |
| ServerSessionManager | pending sessions by endpoint, active ones by `conn_id`, endpoint index, retired ids | `on_datagram_received`, `poll_tx`, `queue_send`, `drain_events` | the four tables agree, failures are reported |
| Client application | one session, `stop_requested`, stdin | the `select` loop, commands, bootstrap file | events reach the user, the loop ends on Reset, `/quit` and a signal |
| LoadGenerator (client) | worker threads, a counter, a locked queue | `spawn`, `drain`, `stop_all` | each message is handed over once and in order, stopping ends |
| Server application | one manager, `active_endpoints`, `preferred_conn_id` | the `select` loop, `send`, `/quit` | a line goes to the peer it is meant for |
| Codec, Utils, BsdUdpSocket | none, a descriptor | `encode`, `decode`, `send_to`, `recv_from` | round trip; other formats are rejected |
| Config, BsdRuntime | the settings, the profile | `.env`, profile, overrides, logger | a program that starts has a sound profile |
| RuntimeLogger | log files | formatting, writing | not a concern of this model |

How they interact: an application calls its session (the server through the
manager) with datagrams, send requests and the time; `poll_tx` returns at most
one datagram per session; everything the application learns comes back as
events it drains. The transport is single-threaded on each side: all its
concurrency is between the two ends and the network, and between the client's
loop and its load workers. What is hard is therefore order: late, repeated,
reordered and lost packets, timers that fire around them, and numbers that wrap
around. `PROJECT.json` lists the hazards by line.

## Modules

    Protocol <- ConnectionStateMachine <- RxHandler <- TxHandler <- Session
    Session <- OpenSession
    Session <- ServerSessionManager <- RudpSystem
                                    <- ServerApp
                                    <- TimedSystem   (implements ReliableChannel)
    ClientApp
    Codec <- UdpPath
    Config <- Startup

The proofs about `X` are in `XProofs`. Those about the protocol share their lemmas:

    SessionProofs <- OpenSessionProofs
    SessionProofs <- ManagerProofs <- RudpSystemProofs
                                   <- ServerAppProofs

`MC_X` instantiates `X` for TLC. Where one run asks several questions, its MC
module adds a variable that is chosen initially and never changes (`peer`,
`scenario`): it says which packets arrive, which deadlines pass and which calls
the applications make in that behaviour, so that the cases share a run without
multiplying their states. Every behaviour is one of the specification `X`.
`lossless` leaves out the steps of a network that loses and of a client that
closes (`UndisturbedSpec`). The modules up to `Session`, `ServerSessionManager`,
`Codec` and `Config` define operators on records, with
the names of the C++ functions: `poll_tx(s, clock)` is the session after the
call and the datagram returned. A map of the code is a set of entries or a
function; a bitmap is the set of its 1 bits; a flags byte is a set of flags; an
`optional` is a set of at most one element, and a parser that fails returns the
empty set. Integers keep their width: sequence numbers live on a ring of
`2 * Half`, ports and settings are narrowed to `PortSpace`, `WordSpace`,
`LongSpace`.

A handler uses the clock only to compare it with a deadline, so in `Session`
the answers (`ClockReadings`) are inputs: idle timeout, delayed ACK, activity
ACK, probe interval, and the set of in-flight packets whose timeout has passed.
In `OpenSession`, `RudpSystem` and `ServerApp` any combination is allowed, which
covers every schedule of the timers; `Deadlines` bounds which of them a run lets
pass. `gap_evidence_count` saturates at its threshold, the only value it is
compared with.

- `OpenSession`: one session, either role, whose peer may send any packet of
  `Inbound` at any time. What holds here needs no assumption on the peer.
- `RudpSystem`: clients, the manager, and the network as the set of all
  datagrams ever sent. Any of them may be delivered at any time, any number of
  times or never, so loss, repetition and reordering need no actions of their
  own. Histories record what each application was handed. Events are handed
  over by the call that emits them: in the code nothing reads them between the
  call and the drain that follows, and events of a session that is destroyed
  before the drain are lost in the model as they are in the code. A client in
  Reset may do a little more in the model than in the loop (receive again after
  a poll that sent something); this adds behaviours and hides none.
- `TimedSystem`: one client, the server and the network with explicit time. The
  stored times (`last_rx_ms`, `last_send_ms`, `reliable_ack_due_ms`, ...) are kept
  as ages that saturate where the code stops telling them apart, and the answers
  that `Session` takes as inputs are computed from them. `Tick` is a step of time.
  A step is at least one round of a main loop: up to 10 ms in `select`, and at the
  server 10 ms more in `usleep`. `Tick` waits until a poll of either side would send
  and change nothing, since a loop polls in every round, and until nothing on
  the network is older than `MaxDelay`. The retransmission, keepalive and idle
  intervals are hundreds of milliseconds, so many steps. The ACK delay of 2 ms is
  less than a step and counts as one: the acknowledgement is not due in the round
  in which the packet arrives and is due in the next.
  Datagrams are lost one by one, at most `MaxLosses` of them or,
  with `LossesEnd = FALSE`, for ever.
- `ReliableChannel`: what `Protocol.md` promises for one direction of a reliable
  channel: `Accept`, `Deliver`, `Break`, and that what is outstanding is delivered
  unless the connection breaks. `TimedSystem` is mapped to it by `client_next`,
  `server_got`, and `exited` or `close_requested`.
- `ServerApp`: the server's loop on top of the manager, with arbitrary packets
  from `Inbound`. `drain_events` walks hash maps, so the order in which sessions
  hand over their events is any order (`DrainOrders`). A signal is noticed at the
  head of the loop.
- `ClientApp`: the client's loop as a program counter, one action per part that
  other threads or the signal handler can interleave with, and one process per
  worker. The session is reduced to the state that the loop asks for; `Session`
  models the rest. `MaxProduced` bounds a worker that has no limit of its own: it
  then waits for the stop flag.
- `Codec`, `UdpPath`: the header byte by byte, the receiver's buffer, and
  datagrams of another format, or too short for a header, on the same port.
- `Config`, `Startup`: `run_cli` from `.env` to the running application. A line of
  a file is a record of what the parser looks at (indentation, item mark, shape,
  key, value); a value carries its text, the number `stoull` makes of it, and the
  boolean `parseBool` makes of it. An environment variable that is unset or set to
  nothing is the empty set: the code ignores both.

## Runs

The protocol runs use windows of 2 or 4 in place of 64, rings of 6 to 16 numbers
in place of 2^32, and one or two retransmissions.

| Run | Instance | Shows |
|---|---|---|
| `session` | one session of either role; its peer sends every acknowledgement (number and bitmap) while the application sends and numbers wrap around, or ordered and unordered data with any number, or every control packet including invalid ones while any timer runs out | `TypeOK`, `InflightInWindow`, `InflightNotAcked`, `OrderedConsecutive`, `NothingDeliverableBuffered`, `RoleDiscipline` |
| `system` | two clients, symmetric, that connect, with idle and retransmission timers; or one client with two payloads and one from the server, with retransmission at the client and delayed ACK at the server or with retransmission on both sides; or one payload each way with both timers on both sides; or one client with a payload and a graceful close | `IndexesAgree`, `HandshakeAgreement`, `AckWithinSent`, `DeliveredOnce`, `NothingInvented`, `NoSilentLoss`, `CloseIsKnown` |
| `lossless` | explicit time, delays and reordering, no loss; one payload each way, or three from the client through a window of two, or two from the server | `LosslessConnects`, `LosslessDelivers`, `LosslessStaysUp`, `AckedAfterPause`, `ProbesEvery` |
| `lossy` | explicit time, losses without end; data in both directions, or three client payloads through a window of two, or one and a close at any moment | `ImplementsChannel` (refinement, with its fairness), `ServerPayloadResolved`, `HandshakeResolves`, `CloseEnds`, `NoStorm` |
| `tables` | two peers, symmetric, with every control packet; numbers can run out | `IndexesAgree`, `NeverMisdirected`, `EstablishedIsListed`, `TerminalIsRemoved`, `NumbersKeepTheirPeer` |
| `load` | two workers, a bootstrap file, two typed commands, a signal | `WorkerCountExact`, `HandedOverInOrder`, `StoppedMeansIdle`, `StopAllTerminates`, `LoadReachesSession`, `ExitsWhenOver`, `UnattendedSignalEndsLoad` |
| `wire` | headers at the edges of their fields, bytes of 4 values, four malformed formats, datagrams shorter than a header | `ReceivedAsSent` |
| `startup` | `.env` of up to two lines, profile of up to three, three environments | `EnvFileIsAtomic`, `DefaultChannelExists`, `ClientHasRemote`, `LogPathBelongsToMode` |

Why the bounds are enough for what they are used for: two packets per direction
are the least with which a gap and a fast retransmission occur. A full window that
holds data back needs a third one: in `lossless` and `lossy` the client queues three
payloads for a window of two, so the third waits, also after a stale
acknowledgement has moved `remote_ack` back and the window looks full with nothing in
flight; `LosslessDelivers` and `ImplementsChannel` show that sending resumes. Two
retransmissions the least with which the backoff, the limit and a success
after a failure occur; two peers the least with which a connection number can be
confused; two workers the least with which one leaves while another pushes;
three profile lines the least that reach a channel with a field, and two the
least in which one line overrides another. In the timed runs the intervals keep
the order they have in the code (ACK delay < keepalive < idle timeout, ACK delay
< first retransmission timeout < idle timeout), not their ratios.

`LosslessStaysUp` does depend on them. A fast retransmission needs no timeout and
counts against the retry limit, so acknowledgements that arrive while one packet
is delayed can use the limit up. With the limit of 2 used here, a keepalive
interval of 2 instead of 3, two payloads from the client and one from the server,
TLC finds a connection that is given up although nothing is lost; the code's defaults are a limit of 5 and an interval of 500 ms.

`system`, `lossless` and `lossy` have at most two packets outstanding in each
direction, and their results are about that case only: with two the bitmap defect
below cannot show, and with more it does. The runs are kept because they show
that the rest of the mechanism (retransmission, fast retransmission, duplicate
suppression, acknowledgement in both directions) is right where the bitmap is.
`system` does not follow a client that closes and reconnects (`NoReconnect`): a
closed client sends a SYN on its next poll, which would repeat the whole life of a
session. `lossy` does follow it, with one call of `request_close` and no data
after it. Larger instances have passed as well but take too long to be kept as
runs: `system` with delayed ACKs on both sides beside the three payloads (206,934
states), `lossless` with two payloads from one side and one from the other (155,401
and 142,965 states).

### Fairness

- `TimedSystem!FairSpec` says that time goes on: `now` changes again and again.
  `Tick` waits for both loops and for overdue datagrams, so this carries the
  fairness of the loops (they run until they are told to stop) and of delivery
  within `MaxDelay` (or loss). It would be an unfair assumption if the two sides
  could keep each other busy for ever between two ticks: `NoStorm` bounds what
  they send in between, and TLC finds no deadlock. Nothing is assumed about the
  user, and nothing about losses.
- `ClientApp!FairSpec` is weak fairness of the main thread and of each worker:
  the operating system schedules every thread, the queue's lock is held for one
  push or one drain, and `select` has a timeout. `getline` waits for the user, of
  whom nothing is assumed.
- `ReliableChannel!FairSpec` is what the refinement has to establish, not an
  assumption.

### Where the code and its documents disagree

Four runs are expected to end in a violation. `PROJECT.json` quotes, for each, the
line that the property is taken from.

- `silent_loss`: `advance_receive_window` moves the front by `1 + k` and shifts
  the bitmap by `k`. After numbers 10, 13, 11 arrive, the bit of 13 stands for 14:
  13 is delivered again when repeated, 14 is acknowledged unseen and dropped
  when it comes. `Protocol.md` 5.4 defines the bitmap otherwise, and 8 forbids
  silent loss.
- `ordered_start`: the ordered stream starts at the first ordered packet to
  arrive. If the second overtakes the first, the first is never delivered.
- `failure`: a server session that exceeds its retry limit is destroyed in the
  same `poll_tx`, with the `Error` event it queued.
- `mixed`: ordered delivery waits for consecutive numbers, and unordered packets
  draw from the same counter: an ordered payload behind an unordered one is
  acknowledged and never delivered, without any loss.

Eleven more configurations end in a violation. They are not part of the list of runs;
`tlc -config X.cfg M` reproduces each of them.

| Configuration, module | Property | What the code does | What it is held against |
|---|---|---|---|
| `MC_Wrap`, `MC_RudpSystem` | `NoSilentLoss` | Pure ACKs carry number 0 and are tracked as reliable. When 0 is the next expected number (the SYN had the largest), the final ACK takes it and the first payload is dropped. | `Protocol.md:100`: the receiver ignores `Seq` of non-reliable packets |
| `MC_EarlySend`, `MC_TimedSystem` | `LosslessConnects` | A line typed before the handshake is complete goes out with `conn_id` 0. If it arrives after the server's SYN-ACK has left, the server drops the pending session, and the client is connected to nobody until its idle timeout. | `session-types.md:59`: data transfer is allowed when established |
| `MC_Keepalive`, `MC_TimedSystem` | `ProbesEvery` | After one lost PING or PONG no probe is sent again. | `readme.md:234`: a probe every interval while established |
| `MC_AckPutOff`, `MC_TimedSystem` | `NoSpuriousTimeout` | Every reliable packet sets the time of the delayed ACK anew. A stream with one packet in each round of the server's loop puts the ACK off until the first packet's retransmission timeout has passed, although nothing is lost: 250 ms of such a stream are well within the window of 64. | `test_session_skeleton.cpp:646`: reliable data is acknowledged after the short delay |
| `MC_LastRetry`, `MC_TimedSystem` | `GivesUpAfterTimeout` | The retry limit is tested before the timeout, so the connection is given up on the poll that follows the last retransmission. | `test_tx_handler_ack.cpp:128`: the failure is expected at the timeout |
| `MC_HalfClose`, `MC_TimedSystem` | `CloseReleases` | A server session that has received a FIN stays in Closing, in the tables, for ever. | `Protocol.md:277`: half-close is not supported |
| `MC_StaleTarget`, `MC_ServerApp` | `PreferredIsLive` | `preferred_conn_id` may name a session that the manager has removed without an event. (`NeverMisdirected` shows that the line is then refused and not sent to someone else.) | `readme.md:249`: the most recent active session |
| `MC_StopSignal`, `MC_ClientApp` | `SignalEndsLoad` | A signal that interrupts `select` sends the main thread into `getline`, and the load goes on until the user presses return. | `readme.md:275`: until the runtime is torn down |
| `MC_Truncation`, `MC_UdpPath` | `ReceivedAsSent` | A datagram longer than `socket_buffer_size` is cut and accepted. | `Protocol.md:43`: one packet is one datagram |
| `MC_PortOverride`, `MC_Startup` | `ClientHasRemote` | An override that narrows to port 0 is applied after the validation that forbids 0. | the message of `Config.cpp:415` |
| `MC_OmittedRemote`, `MC_Startup` | `ClientDefinesRemote` | A client profile need not define the remote endpoint; the settings fill it in. | the message of `Config.cpp:415` |

## Proofs

All of them hold for every value of the constants that satisfies the named
assumptions of the modules (`ProtocolAssumption`, `SessionAssumption`, ...); what a
theorem assumes beyond these is said below. In particular windows, rings, sets of
peers (finite ones for the server's application) and sets of packets are of any
size, and nothing bounds the length of a behaviour.

### One session: `SessionProofs`, `OpenSessionProofs`

For windows smaller than half of the ring, and for a peer that may send anything:

- `TypeCorrect`: `Spec => []TypeOK`;
- `WindowSafe`: `Spec => []InflightInWindow`, the limit of `Protocol.md` 5.5 and
  the freshness of every number that is assigned;
- `AckedLeaves`: `Spec => []InflightNotAcked`;
- `RolesKept`: `Spec => []RoleDiscipline`;
- `NoneLeftWaiting`: `Spec => []NothingDeliverableBuffered`;
- `DeliveredInOrder`: `Spec => []OrderedConsecutive`.

The first three are inductive together (`IInv`; `OK` is the same, said of a
record). `InflightInWindow` alone is not inductive: `reliable_window_full` looks at
`remote_ack`, not at the in-flight table, so one has to know that nothing in flight
lies before `remote_ack`. That stays true even when a stale acknowledgement moves
`remote_ack` backwards, because the entries that survive it are not before it
either, and one from the future erases what it covers. `WindowStep` is the
arithmetic of that argument on the ring. `SessionProofs` follows the code: one lemma
per operator that returns a session shows that it keeps `OK`, and `NextOK` combines
them, one case per action.

`RolesKept` and `NoneLeftWaiting` add `Disciplined` and one more fact, that no entry
in flight is a probe (`NoProbe`): a retransmitted PING would make a server record an
outstanding one. The heart of the second is `DrainLeavesNone`: a drain stops at the
first number that is not buffered, or has emptied the whole ring.

`DeliveredInOrder` strengthens `OrderedConsecutive` by `Consecutive`: once a number
was delivered the stream has started, so the delivery point is never set again.
It says that what is delivered is consecutive, and not that it begins with the
first payload: that is what `ordered_start` refutes.

Loops of the code (draining the reorder buffer) are recursive functions on the ring
or on the natural numbers. Where a fact about all their iterations is needed, the
proof takes the least iteration at which it fails and shows that there is none.

### The manager and the server's application: `ManagerProofs`, `ServerAppProofs`

- `MapsAlwaysAgree`: `Spec => []IndexesAgree`;
- `EndedAreRemoved`: `Spec => []TerminalIsRemoved`;
- `NumbersStay`: `Spec => NumbersKeepTheirPeer`;
- `TextReachesItsPeer`: `Spec => []NeverMisdirected`;
- `EstablishedAreListed`: `PeersConform` implies `Spec => []EstablishedIsListed`.

The maps: `MapsAgree` alone is not inductive. A session that handles a packet or a
poll must remain a server's session with the number it is filed under, which holds
because only a client adopts a number. `ManagerOK` says that, and `Served` that each
session keeps `OK` and has not ended. One lemma per handler of `Session` and one per
table operation (promotion, clean-up, insertion) show that both are kept; the
resets of `poll_tx` return nothing to send, which is the condition for its clean-up.

The tables of the application: `NeverMisdirected` is about numbers that are live,
and a listed number whose session is gone could come to life again for somebody
else. `Known` says why it does not: a listed number is retired, or it belongs to
the endpoint it is listed with, and a retired number is never drawn. `SInv` is the
conjunction of the three. `NumbersStay` is an action property and follows from the
same invariant: each call of the manager leaves a live number where it is, moves it
from the pending map to the active one under the same endpoint, or retires it.

`EstablishedAreListed` needs to know what is in the event queues. Between two calls
they are empty (`Quiet`), and no pending session is Established (`Placed`), so the
`Connected` event of a promoted session is drained by the call that promoted it, in
whatever order the sessions are walked. `PeersConform` says that every flags byte is
one of the protocol and that a SYN carries no number. Without it the property is
false: a session answers any other packet with an `Error` event and stays
Established, while the application takes the error for the session's end and
strikes it off. The peers of the run `tables` conform (`ClientsConform`, which
TLC evaluates).

### Clients, network and server together: `RudpSystemProofs`

- `SystemMapsAgree`: `Spec => []IndexesAgree`;
- `HandshakesAgree`: `Spec => []HandshakeAgreement`;
- `OnlyWhatWasQueued`: `Spec => []NothingInvented`.

Any number of clients, any loss, repetition and reordering, any timers, any
scripts. Whether the server promotes the right session depends on a packet, so
the invariant `HInv` has to speak of all packets: whatever a client has sent, or has
in flight and may send again, carries 0 or the client's own number (`OwnNumber`).
A client adopts a number only while it has none, so the packets it has sent
before stay right. The packet that promotes has the session's number, which is
therefore the client's. `Unheard` (nobody has a session for a client that
never sent a SYN) and `OpensAgain` (a client that has a number and opens a
connection has closed one before) are needed for the part about the client's state.

`NothingInvented` is about payloads that were handed over. To be inductive it has to
follow each payload on its way (`Sourced`): what a session has queued, what it keeps
in flight to send again and what is in the network was queued at that end of the
endpoint, and what the other end holds for reordering, has delivered and not yet
drained, or has handed over, too. What has been queued only grows, so a datagram
that is delivered late, for whichever later session, is still right. `SessionProofs`
has the lemmas on one session: `Sends` (its send half) and `Holds` (its receive half)
are kept by `poll_tx`, `on_datagram_received`, `queue_send` and `request_close`. The
same lemmas with the number in place of the payload give `OwnNumber`.

The proof of the handshake changed its statement. `HandshakeAgreement` used to say that the client of
an active session is past the handshake. That is true in the run, which does not
follow a client that closes and reconnects, and false in general: such a client sends
a SYN while the server still has its old session. The property now says that the
client is past the handshake or was told that its connection is closed.

### The client's threads: `ClientAppProofs`

For any finite number of threads:

- `WorkersCounted`: `Spec => []WorkerCountExact`;
- `StoppedForGood`: `Spec => []StoppedMeansIdle`;
- `PayloadsHandedOver`: `Spec => []HandedOverInOrder`.

The first two are inductive together (`LoadOK`): `stop_all` stores 0, which is exact
only because all threads are joined, and while it waits the main thread cannot
spawn. The third is kept by `HandedOK`: what the session was given, followed by what
is still in the queue, holds of each thread's payloads those from the first to the
one it produced last, in this order (`Follows`); a push appends the next one, a
drain moves the border between the two. A thread that has not been started has
produced nothing, which is what a spawn relies on.

### Start-up: `StartupProofs`

For files of any length, any settings and any environments:

- `EnvFileWhole`: `Spec => []EnvFileIsAtomic`;
- `AlwaysDefaultChannel`: `Spec => []DefaultChannelExists`;
- `AlwaysRemote`: `Spec => []ClientHasRemote`, if every environment satisfies
  `KeepsRemotePort`;
- `LogPathOfMode`: `Spec => []LogPathBelongsToMode`.

`EnvOK`: while `.env` is read the settings in force are untouched and the copy holds,
for each key, the value of its last line or the default. `ProfileInv` follows the
parser: the fields of the profile and of its channels are well formed in every
phase, the default channel and the remote endpoint are there from the validation
on, and the overrides cannot take them away. `LogSays` is the part about the log
path: after each line the path is that of the last `log_path` line in the section
`runtime` that no `mode` line follows, or else that of `.env` for the mode so far.
As to the remote endpoint, one override can: a remote port whose low 16
bits are 0 (`MC_PortOverride`), which `KeepsRemotePort` excludes. TLC evaluates this
hypothesis on the environments of the run (`SoundOverridesKeepPort`).

### The wire: `UdpPathProofs`

`WireFaithful`: `ReceivedAsSent` for every size of a byte, so for 256, every header
and every payload that fits the buffer (`PayloadsFit`; `MC_Truncation` shows that
this is needed), whatever short or malformed datagrams arrive in between. It rests on the round trip of `writeU32` and `readU32`.

### Only model-checked

- `AckWithinSent`, `DeliveredOnce`, `NoSilentLoss` and `CloseIsKnown` of `RudpSystem`.
  They are not true for every value of the constants: the bitmap defect
  (`silent_loss`) breaks the first three with more than two packets outstanding,
  and the last rests on them (an acknowledged FIN was received).
- `LosslessStaysUp`, `AckedAfterPause`, `ProbesEvery` and `NoStorm` of `TimedSystem`:
  they depend on how the intervals, limits and delays compare, and the first is
  false for some of them (see above).
- Everything temporal (`LosslessConnects`, `LosslessDelivers`, `HandshakeResolves`,
  `CloseEnds`, `StopAllTerminates`, ...): liveness under fairness is beyond the
  prover.
- The refinement of `ReliableChannel`. Its fairness is liveness; its safety part
  says that deliveries follow what was accepted without repetition, which is
  `DeliveredOnce` again.

## Not modelled

- RuntimeLogger, the text of log lines, statistics, and the queries that only
  report (`/workers`, `/channels`, `/sessions`, `active_stats`, ...).
- How a command line or a file line is split into words; a command is its kind and
  its numbers.
- Creating, binding and closing sockets. If that fails the applications return
  before they have any state.
- `drain_active_events` of the manager, which no application calls.
- Activity ACKs in `TimedSystem` (off by default; `OpenSession` has them).
- `handle_monotonic_state` is modelled and its type is proved, but no run exercises
  its version test: every payload of the runs is too short to hold a version.
- Crash and restart: nothing is persisted, so a restarted program is a new one. A
  client that vanishes and returns is a new client of `RudpSystem`.
- Unbounded growth (`retired_conn_ids`, pending sessions that are never answered)
  is outside what a bounded instance can show.
