# Multilink: TLA+ models and proofs

Multilink joins several unreliable network connections into one. This directory
models its core, the event loop under it and the programs around it, checks the
models with TLC and proves the most important invariants with TLAPS.

## The system

Everything runs in one thread on an edge-triggered epoll reactor
(`libreactor/`): handlers run to completion and wake each other by scheduling
callbacks. There is no locking; what is hard is *who wakes whom*, what is
outstanding when a connection dies, and the order in which packets arrive.

    applications <-> Transport <-> Multilink <-> Link(s) <-> TLS/TCP <-> peer
    tun device <-> Terminator <-> Transport ...

A *client* process connects to the *server* from each of its addresses. The
server starts one *child* process per client and joins each connection to the
child's Unix socket; Multilink and Transport run in the client and the child.

| Component | State | Operations | Hard |
|---|---|---|---|
| Transport (`multilink/transport.cpp`) | children with reorder buffer, counters, target; queue of CLOSE packets | network/target ready handlers, `place_packet`, `close_channel`, `target_error` | reordered and repeated packets, full network, slow targets, CLOSE |
| Transport targets (`transport_targets.cpp`) | id counter | accept, connect, unknown id | asynchronous connect |
| Link (`multilink_link.cpp`) | send and receive buffer, ping/pong slots, in-flight queue, edge flag | read/write ready, `send`, `recv`, timer | lost wakeups, acknowledgement of what was not received, timeouts |
| Multilink (`multilink.cpp`) | global queue, assigned packets, links | `send_with_offset`, `link_send_ready`, `assign_links_until`, `add_link`, removal | packets of a removed link, dangling callbacks, links that break silently |
| Write/packet queues (`write_queue.cpp`, `packet_queue.cpp`) | bounded queue | `send`, `recv` | limit |
| Packet streams (`packet_stream_util.cpp`) | one packet buffer each way | framing, piping, closing | close while a callback is scheduled |
| Reactor (`reactor.cpp`, `epoll.cpp`) | scheduled functions, descriptors | `schedule`, `step`, `read`, `write`, errors | edges are reported once; limit of the queue |
| Timer (`timer.cpp`) | heap of events, timerfd | `schedule`, `once`, `each`, `timer_ready` | callbacks that change the heap |
| Processes and signals (`process.cpp`, `signals.cpp`) | table of children, flags of signals | `exec`, `wait`, SIGCHLD | merged signals, reused pids |
| TLS (`tls.cpp`), I/O helpers (`ioutil.cpp`) | memory buffers of OpenSSL, a packet stream; how much is read or written | `read`, `write`, `transport_send_ready`, `transport_recv_ready` | OpenSSL reads to write and writes to read; nothing moves but by callbacks |
| Client (`app/client.cpp`) | `running_links`, `instance_id`, timers | `add_bind_address`, `link_closed`, `abort_instance`, `reload_nm` | restarts between the steps of a handshake, retries that meet |
| Server and child (`app/server.cpp`, `server_child.cpp`, `rpc.cpp`) | `multilinks`: a child for each client id | welcome, `get_or_create`, `add_link` | order of bytes on two streams, children that end |
| Terminator (`terminate/`) | stream ids, header streams, tun queue | `tcp_accepted`, `create_target`, `from_tun`, set-up | closing while connecting, notifications, set-up order |
| Throttled and delayed streams, futures, codecs (`libreactor/`) | buffers; callback slots | | |

What makes them correct: a Transport forwards every channel
in order and exactly once and never stalls; a Link never acknowledges what the
peer has not received and never waits for an event that nobody will produce; a
Multilink forgets no packet whatever happens to its links; a pipe keeps the
order of bytes and never stops while some can move; a timer calls every event
exactly once; every wait for a child is answered once; a TLS stream never waits
for an event that nobody will produce; a client has one link per address, all to
one child, and tries an address again after its link or attempt has ended; a Terminator passes each stream on whole and
leaves no connection behind.

## Modules

| Module | Models |
|---|---|
| `OrderedChannels` | abstract: what a pair of Transports promises |
| `Transport`, `MCTransport` | both Transports over the network that `multilink.h` promises |
| `TransportProofs` | theorems about `Transport` |
| `Link`, `MCLink` | the two Links of one connection, and how Multilink feeds them |
| `LinkProofs` | theorems about `Link` |
| `Multilink`, `MCMultilink` | one direction of a Multilink with several links |
| `MultilinkProofs` | theorems about `Multilink` |
| `Pipe`, `MCPipe` | the Reactor, and one direction of two sockets joined by a Piper |
| `PipeProofs` | theorems about `Pipe` |
| `Timer`, `MCTimer` | Timer over its timerfd |
| `TimerProofs` | theorems about `Timer` |
| `Processes`, `MCProcesses` | child processes, signals and SIGCHLD |
| `ProcessesProofs` | theorems about `Processes` |
| `Tls`, `MCTls` | the two TlsStreams of one connection and the I/O helpers on them |
| `Session`, `MCSession` | clients, servers and children: how connections become links |
| `SessionProofs` | theorems about `Session` |
| `Terminator`, `MCTerminator` | the Terminators of client and child, with their Transports |
| `TerminatorProofs` | theorems about `Terminator` |

The modules lean on each other the way the components do. `Transport` assumes a
network that may reorder and repeat but delivers; `Multilink` shows when that is
true (`EventuallyArrives`) and when it is not (`AllArrive`). `Multilink` assumes
that only received packets are acknowledged; `Link` shows it (`NoLoss`). `Link`
and `Multilink` have timers as actions that happen once; `Timer` shows that.
`Terminator` is built on what `Transport` shows (items of a stream arrive in
order, a CLOSE may overtake them). `Session` takes a TLS handshake to end while
both sides serve it, which `Tls` shows (`EventuallyRead`), a Piper to move every
byte, as in `Pipe`, and the server to stand still while SIGCHLD is handled and
other children run, as in `Processes`.

### Transport

Variables carry the names of the fields of `Transport` and `ChildStream`, for
each end and channel. `source`, `forwarded` are histories of what the
application wrote and what the target was given; a chunk's number is its place
in `source`. `queued` is the Multilink queue (bounded by `QUEUE_SIZE`), `net`
the packets on the links: once there, a packet may be received any number of
times in any order. `failed` records the failed assertion of `place_packet`.

| Action | Code |
|---|---|
| `TargetRecvReady` | `target_recv_ready`, `target_recv_ready_once` |
| `NetworkSendReady` (`SpecialsFirst`, `Rounds`) | `network_send_ready` |
| `NetworkRecv` (`PlacePacket`, `CloseChannel`) | `network_recv_ready`, `place_packet`, `close_channel` |
| `TargetSendReady`, `Forward` | `target_send_ready` |
| `AddTarget`, `TargetConnected`, `TargetError` | `add_target`, its future, `target_error` |
| `AppWrite`, `Transmit` | environment: the application, Multilink |

`Rounds` describes the outcome of the loop of `network_send_ready`, not its
course: which channels get the last places depends on the order of an unordered
map and is left open.

### Link

`link[e]` is a record with the fields of the Link of end `e` and the set `sched`
of its callbacks that the reactor will run. Methods are functions from record
to record; actions are the callbacks. Packets are whole. A write that finds the
socket full sets `blocked` (epoll will report), arriving data sets `in_event`.
When the read loop ends because `recv_buffer` is full, `in_event` is cleared:
no further edge will tell of what stays in the socket, which is what makes the
wakeup from `recv` necessary. How old a packet is, and when a ping is due, are
nondeterministic. Round trip times are `low`, `between` or `high` relative to
the two bufferbloat marks. Reading `front()` of an empty deque yields any age.
`EpollWrite` may also be spurious, together with arriving data.

### Multilink

`link_send_ready` is a loop that calls back into Transport, assigns packets and
sends; it is taken apart into iterations (`SendIteration`), during which no
other handler runs (`running`). Which link gets a packet depends on measured
times and is left open. A link is reduced to what Multilink sees: its send
buffer accepts a packet or does not, a pong pops packets the peer has received,
it times out. `Break` breaks the connection; the code never looks at a link's
stream errors. Callbacks hold plain pointers; running `on_send_ready`, or the
function that calls it on an edge, for a destroyed link sets `crashed` and stops
the end. The other callbacks of a link (reading, writing, pings and the timer) hold
such pointers, too; they end with the link in the model.

### Pipe

The whole of `Reactor::step` is in the model: `scheduled` and `batch` are the
two vectors, `phase` says which part of the step is running, `events` are the
epoll results not yet dispatched. A handler takes the queue it appends to, so
that `write_ready` can call `send_ready` directly as the code does.

| Action | Code |
|---|---|
| `StepStart`, `RunScheduled`, `Wait`, `Dispatch`, `StepEnd` | `Reactor::step`, `run`, `EPoll::wait` |
| `PiperRecvReady` | `FreePacketStream::read_ready` and `recv`, `Piper::recv_ready`, `FD::read` |
| `PiperSendReady`, `Sent` | `Piper::send_ready`, `send_with_offset` |
| `WriteReady`, `WriteSize` | `FreeWriterPacketStream::write_ready`, `FD::write` |
| `HandleError`, `ErrorReady` | `FD::handle_error`, `error_ready` |
| `Produce`, `Consume`, `OtherWakeup`, `Break` | environment: peers, the other direction |

An edge is remembered until `epoll_pwait`, and reported only if its condition
still holds. `OtherWakeup` is the effect of the other direction: epoll reports
both conditions of a descriptor when either changes. At the end of a stream
`read` looks at an `errno` that it did not set, so whether it reports is left
open.

### Timer

`queue` is the heap as a set; ties at the top are broken either way. `Call`
starts a callback, `Once` may happen while it runs (or outside, also between
epoll's report and `timer_ready`), `Return` pops. `Popped` says what is at the
top then. `armed` and `expired` are the timerfd; setting it forgets an
expiration that was not read. `each` is an event with a `period`; its callback
ends with the next `each` (`ReturnEach`).

### Processes

`EpollPwait` delivers a pending SIGCHLD to `Signals::handle`, `CallHandlers`
calls `sigchld_handler`, and each iteration of its loop is a step: `Reap`,
`ReapNothing` (`waitpid` returns 0) or `HandlerReturn` (no children). Pids are
reused after a child was reaped; the table keeps its old entries.

### Tls

`end[e]` is a record of the TlsStream at end `e` with its `bio_in`, `bio_out`, the
send buffer of its packet stream and the set `sched` of functions the reactor
will run. Methods are functions from record to record, as in `Link`. OpenSSL is
external: four flights of a handshake, alternately by client and server, then
records; the server finds a wrong key in the client's second flight and sends an
alert. Bytes that are not the next flight, or not the whole of the next item
(`record` holds what was read of it), are an error and an alert, too. Data are *pieces*, what one chunk of the packet stream holds; an item of
data is two of them, so that it crosses every buffer in parts. The users are
those of the program: the client writes a welcome and reads the instance id, the
server reads and then writes (`ioutil`), and then links read and write.

| Action | Code |
|---|---|
| `RunScheduled` (`TransportSendReady`, `TransportRecvReady`, `WriteReady`, `OnRead`, `OnWrite`) | the functions in `Reactor::step`'s queue |
| `Epoll` (`Dispatch`) | an edge: read is served before write, both if both are possible |

### Session

`conns` has all connections ever begun, each with where the client (`c`) and the
server (`s`) are with it and what is under way: the welcome, the request to the
child, bytes from the child and to the client. Client ids and instance ids are
numbers that grow with each process. Everything a process holds ends with it;
what it had written may still be read.

| Action | Code |
|---|---|
| `ClientStart`, `TimerFires`, `ReloadNm` (`AddBindAddress`) | `on_init`, `add_bind_address`, `reload_nm` |
| `Connected`, `ConnectFails`, `WelcomeWritten` | `TCP::connect`, `TCP::listen`, `ioutil::write` |
| `InstanceRead`, `AbortInstance` | the last step of `add_bind_address`, `abort_instance` |
| `LinkReads`, `LinkTimesOut` | the link, `link_closed` |
| `ServerWelcome` (`GetOrCreate`, `HandedOver`), `ServerOk`, `PipeToClient` | `Server::run`, `get_or_create`, `add_link`, `pipe_both` |
| `ChildAddsLink` | `server_child`'s callback |
| `ServerStart`, `ServerStops`, `ClientStops`, `ChildStops`, `Break` | environment |

An exception ends the process, as nothing catches it: `AbortInstance` ends the
client, since `on_init` listens on a port (or opens a tun device) that the same
process still holds, and a connection for a child that has ended ends the server.

### Terminator

Streams may be opened at either end by lwIP (`TcpAccepted`). Items are numbers, 0
is the header. One end of a stream is a record that the methods of
`HeaderPacketStream`, `FreeWriterPacketStream` and `Transport` map to its possible
successors; `Becomes` puts it back and queues a CLOSE. Transport's reorder buffer
is reduced to items that arrive in order. `crashed` says how a process ended:
`"setup"` (called through an empty function or a null transport) or `"write"` (a
scheduled `write_ready` of a stream that was closed).

| Action | Code |
|---|---|
| `SetTun`, `SetTransport` | `create_terminate_target`, `setup_terminate_target`, `setup_tun` |
| `FromTun` | `tun_recv_ready`, `from_tun`, and Transport's `target_recv_ready` |
| `TcpAccepted`, `ChunkIn`, `TargetError` | `tcp_accepted`, `recv_from_pcb`, `TcpStream::read`, `target_error` |
| `TcpErr` | the callback of `tcp_err` |
| `NetworkSendReady`, `Arrive` | Transport; `HeaderPacketStream::send`, `RawPacketStream::send` |
| `Connects`, `ConnectFails` | the future of `create_target_2` |
| `WriteReady`, `Writable` | `FreeWriterPacketStream::write_ready`, scheduled or on an event |
| `OutsideCloses` | environment |

## Runs

| Run | Checks | Bounds |
|---|---|---|
| `transport` | `InOrder`, `NoStall`, `NoUnknownStream`, `WindowSuffices`, `ImplementsOrderedChannels`, `EventuallyForwarded` | 1 channel, 3 chunks, 2 buffer slots, 2 queue places, 2 data values |
| `link` | `LinkInv` (`LinkInOrder`, `StreamInv`, `AckInv`), `NoLoss`, `NoLostWakeup`, `AckMonotonic` | 2 data packets, 1 packet per buffer, all round trip times, a timeout at any moment |
| `link_live` | `EventuallyAcked` | 1 data packet, all round trip times, the sender may time out |
| `multilink` | `MultilinkInv` (`OneHome`, `Numbered`, `CarriedOnce`, `BufferedInFlight`), `NoLoss`, `DuplicateMeansTimeout` | 2 links (symmetric), 2 packets, 2 queue places |
| `multilink_live` | `EventuallyArrives` | 2 links, one mortal and slow, one with bufferbloat; 1 packet |
| `multilink_arrive` | violation of `AllArrive` | 2 links, one mortal; 1 packet |
| `pipe` | `PipeInv` (`BytesInOrder`, `StepPhases`), `NoStuckBytes`, `EventuallyThrough`, `EventuallyReported` | 5 bytes, packets of 2, sockets of 3, both peers may close |
| `timer` | `ExactlyOnce`, `Armed`, `EventuallyFired` | 3 events, 4 instants, delays 0 to 2, repeated ones too |
| `processes` | `ProcessesInv` (`AnsweredOnce`, `NoForgottenChild`, `TableCurrent`, `ChildHasObject`, `FollowsChild`), `EventuallyAnswered`, `HandlerReturns` | 3 objects, 2 pids, 1 wait each, code 0, 1 or killed |
| `session` | `SessionInv` (`OneLinkPerAddress`, `ProcessesKnown`, `HandoverOrder`), `OneInstance`, `NoForgottenAddress`, `HandoverInOrder`, `EventuallyLinked` | 2 addresses, 3 connections, 2 clients, 2 servers, one child or connection that fails |
| `terminator` | `TunInv` (`RawInOrder`, `ServerSetupSafe`), `StreamInOrder`, `NoOrphan`, `NoLostWakeup`, `CloseSpreads`, `EventuallyResolved` | 1 stream opened at either end, 2 chunks of the client and 1 of the server, 3 other packets (one QUIC), tun queue limit 1, 2 network places |
| `tls` | `TlsInv` (`ItemsInOrder`), `NoLostWakeup`, `EventuallyRead`, `WrongKeyReported` | 2 items each way, buffers and sockets of one piece, right and wrong key |

An invariant named `...Inv` is the type invariant of its module together with
the parts in brackets; those of `Link`, `Multilink`, `Pipe`, `Processes`
and `Session` are the inductive invariants of the proofs, or the greater part of them. `Transport`
and `Timer` have `TypeOK`, `OrderInv` and `TimerInv` proved instead, `Terminator`
has `Inv` of `TerminatorProofs`.

The bounds are small but every buffer, queue and slot can be empty, full and in
between, and holes, duplicates and overtaking occur with three packets. With
two places a queue reaches its limit and both its marks. In `pipe` a packet is
split between two writes and each of the two buffers is full while the other is
not. In `processes` a pid is used twice and two exits share a signal. In
`session` both addresses and a retry, or a second client, fit into three
connections, and the second server meets handshakes that the first began. In
`tls` an item is larger than any buffer. `transport`'s liveness needs two queue
places, one more than a CLOSE takes; the other direction and further channels
are covered by the proofs for every bound, and so are packets that a full tun
queue refuses in `terminator`. Deadlock
is checked for `Processes` only, whose reactor always steps; elsewhere an idle
system is quiet, and the bounds on chunks, packets and events stop it.

### What the violation shows

* `multilink_arrive`: a connection that breaks while nothing is in flight is
  never noticed; packets assigned to the link afterwards wait for ever, although
  `multilink.h` promises that all packets eventually arrive.

### Behaviour to know of

The models have these behaviours, and the properties are stated around them. The
first contradicts a comment, the others no document.

* `transport.h:10` says that Transport "handles multiplexing, reordering and flow
  control". There is no flow control, and packets are put in order only as far as the
  reorder buffer reaches: when a target does not drain, and also when a target that is
  ready waits for a chunk that is late on a slow link while one
  `MAX_BUFFER_PACKETS` ahead of it arrives on another, the process ends in
  `assert(false)` (`transport.cpp:187`, with a `TODO`). `failed` has this in the model,
  and `InOrder` and `EventuallyForwarded` promise nothing beyond it.
  `WindowSuffices` says what would prevent it: no more chunks that are sent and not
  forwarded than the buffer has slots.
* `sigchld_handler` ends its loop only when `waitpid` fails, but `waitpid` returns 0
  while other children run: the server stands still until the last of them ends
  (`process.cpp:137`). `HandlerReturns` says that nothing else holds it.
* `abort_instance` initialises a second time in a process that still holds its
  port or tun device, so that the client ends when it meets a new server or child
  (`client.cpp:116`). Nothing removes an ended child from `multilinks`: the next
  connection of its client ends the server (`server.cpp:94`).
* A connection that breaks during the handshake leaves its address in
  `running_links` for ever, because the futures of `ioutil` never fail
  (`ioutil.cpp:12`; `TODO.md` asks for timeouts). `NoForgottenAddress` counts such
  an address as being connected, and `EventuallyLinked` excuses it (`Disturbed`).
* A packet on the client's tun device before `set_transport` ends the client
  (`terminate.cpp:92`). `ServerSetupSafe` says that this cannot happen to the child.
* When data and then CLOSE arrive in one burst, the stream is closed while its
  `write_ready` is scheduled, and the process crashes
  (`packet_stream_util.cpp:59`).
* lwIP has freed its connection when it calls the callback of `tcp_err`, but
  `TcpStream` keeps the pointer and closes it again (`lwip_tcp.cpp:182`). In
  `TcpErr` the stream is closed, and what `close` does to freed memory is left out.
* The server's stream ids start at 102, not at 2^63 (`terminate.cpp:33`); the client
  refuses all of them, and they meet its own third id.
* A write on a TlsStream during the handshake makes the reactor spin until the
  handshake ends (`tls.cpp:126`). `read` leaves bytes in `bio_out` without
  scheduling their sending; they leave because epoll reports a descriptor that
  became readable as writable, too.
* `server_child` exits when `target-port` is given, since `tun-prefix` has a default
  (`server_child.cpp:103`).

* A CLOSE has no sequence number and closes the target before data that was
  sent earlier has arrived (`transport.cpp:133`). `InOrder` promises a prefix.
* `maybe_retransmit` reads the front of an empty queue when bufferbloat
  avoidance is on (`multilink_link.cpp:60-62`); the link may time out with
  nothing in flight.
* `write_ready` both schedules and calls `on_send_ready`
  (`packet_stream_util.cpp:62,70`). An edge that calls it while packets flow
  sends one packet more in that step, and with it one more pair of `write_ready`
  and `recv_ready` is scheduled that lives on while packets come. With an
  invariant that bounds the length of `scheduled`, TLC finds 10 functions after
  5 packets of one byte, 15 after 12, 21 after 20, 25 after 30. The assertion of
  `Reactor::schedule` allows 1000, out of TLC's reach.

## Fairness

*Transport*: weak fairness of every handler, of the network's delivery of each
packet, and of connecting. The reactor serves its events in turn; delivery is
what Multilink promises. Applications need not write, targets need not fail.

*Link*: weak fairness of callbacks, epoll events and the timer. In addition
`PromptNext` states that a ping falls due only when no callback of the link is
due and no ping or pong is stuck in the send buffer: `PING_INTERVAL` is 250 ms,
a ping 19 bytes. Without this assumption TLC finds that pings can starve data:
on a link that needs longer than 250 ms for each ping, no data packet is ever
sent.

*Multilink*: as for Link; pings and changes of the round trip time occur when
nothing is scheduled, and the round trip time rises only with data in flight.
Handlers interrupt each other's turns, so what is served once per reactor step
has strong fairness.

*Pipe*: weak fairness of the steps of the reactor, and of a reader that reads.
Writers need not write; no edge of the other direction is relied on.

*Timer*: weak fairness of the clock, the timerfd and the reactor; callbacks
return, except that `EventuallyFired` excuses (`Stopped`) a callback of `each`
whose next event lies beyond the bounds of the model.

*Processes*: weak fairness of the reactor and the handler's iterations; children
may run for ever.

*Tls*: weak fairness of each scheduled function and of epoll. The reactor runs
all that is scheduled in each step.

*Session*: weak fairness, for each connection, of what a process does when its
descriptor is ready, and of connecting, which TCP ends in either way. Processes
need not start, stop or time out.

*Terminator*: weak fairness of what is due at an end as a whole, which is less
than the reactor gives; the network delivers and an attempt to connect ends.
Nobody outside has to write, and no connection need become writable.

## Proofs

The theorems hold for all values of the constants that meet the assumption of
the module (`ConstantsAssumption`, `LinkAssumption` and `NoneAssumption`,
`MultilinkAssumption`, `PipeAssumption`, `TimerAssumption`,
`ProcessesAssumption`, `SessionAssumption`, `TerminatorAssumption`), which only say
what the constants are. So they hold for any number of channels, links, packets,
bytes, events, children, addresses, connections and streams (finitely many at a
time), and buffers of any size.

`TransportProofs`:

* `TransportInvariant`: `Spec => [](TypeOK /\ OrderInv)`;
* `TransportInOrder`, `TransportNoStall`, `TransportNoUnknownStream`,
  `TransportWindow`: `Spec => []I` for `I` one of `InOrder`, `NoStall`,
  `NoUnknownStream`, `WindowSuffices`;
* `TransportImplementsChannels`: `Spec => OC!OCSpec`, the refinement.

`InOrder` alone is not inductive. `OrderInv` adds that counters do not exceed
what was written (`SentInv`), that every packet in the queue or the network
carries the chunk of its number (`PacketInv`), that every occupied slot of a
reorder buffer holds the chunk of its place (`BufferInv`), and that
`last_forwarded_packet` counts what was forwarded (`CountInv`). Then what
`target_send_ready` takes from the front of the buffer continues the prefix
(`ForwardInOrder`), and a packet put into slot `seq - last_forwarded_packet`
has the right content (`PlacedInOrder`). There is one lemma per action and
`NextInv` joins them. `NoUnknownStream` needs `Known`: packets and queued CLOSEs
name only ids below `next_id`, and the client has a child, open or closed, for
each of them; so that it never creates one (`NeverUnknown`). `NoStall` is inductive
with these: the loop of `target_send_ready` ends only at a hole or at a target that
has enough (`ForwardStops`), and `place_packet` fills slot 0 only to call it. For
`WindowSuffices`, a failure records a packet beyond the buffer
(`FailsBehind`), and after it that end's target takes no more (`FailedStops`),
while what was sent only grows (`SentGrows`). In the
refinement `Deliver` is any number of chunks, because a packet in the first hole
releases all behind it; each action is a `Write`, a delivery, a `Shut` or a
stutter (`NextStep`).

`LinkProofs`:

* `LinkSafe`: `Spec => []LinkInv`; `LinkNoLoss`: `Spec => []NoLoss`;
* `LinkAckMonotonic`: `Spec => AckMonotonic`;
* `LinkNoLostWakeup`: `Spec => []NoLostWakeup`.

A packet is acknowledged by a pong for a ping that was sent behind it, so
`NoLoss` depends on the order of everything between two Links. The argument looks
at one stream per direction, what is in the reader's `recv_buffer`, the socket
and the writer's `send_buffer`, joined (`Stream`). `StreamInv`: it continues with
the data packet after the last one parsed, each ping has the number of the data
packet before it, and no packet is missing. `AckInv`: `in_flight` is what follows
the last acknowledgement, and each pong, on its way or owed, has a number that
Multilink has reached, in ascending order. `Forth` and `Back` state this for any
sequence. Each step does one of five things (`KindOfStep`): nothing to the
streams (`Silent`: moving bytes between buffers and the socket is silent), one
packet behind a stream (`Emits`), one packet from its front (`Absorbs`), a parsed
packet to Multilink (`Hands`), or the end of a Link (`Dies`); and each kind keeps
the invariant. For `NoLostWakeup` each of its five parts is followed through the
methods of Link (`WriteDue`, `EdgeDue`, `PongDue`, `RecvDue`, `ReadDue`); only the
types of `LinkInv` are used.

`MultilinkProofs`:

* `MultilinkSafe`: `Spec => []MultilinkInv`;
* `MultilinkNoLoss`: `Spec => []NoLoss`;
* `MultilinkDuplicates`: `Spec => []DuplicateMeansTimeout`.

`OneHome` and `NoLoss` are about where the sender has a packet, but a pong takes
packets away that the peer may have, and a removal puts them back. `CarriedOnce`
says that what went out over a link that exists waits nowhere else, and
`BufferedInFlight` that what is still in the send buffer is not among what a pong
can acknowledge; `Numbered` bounds all of it by what was accepted. `Accounted`
puts these together, and every way in which packets move keeps it: arrival in the
queue, sharing out, sending and removal (`FreshAccounted`, `AssignedAccounted`,
`SentAccounted`, `RemovedAccounted`). That sharing out is a partition of the queue
in order, whichever link each packet gets, rests on ranks in a finite set
(`RanksEnumerate`, `ShareOfLink`, `SharedOut`).

`PipeProofs`:

* `PipeBytesInOrder`: `Spec => []PipeInv`; `PipeNoStuckBytes`: `Spec => []NoStuckBytes`.

`BytesInOrder` says that what the reader has, what waits in the two sockets and
the two buffers between them, and what was not yet read make up what was
written; a part of a packet that a full socket refuses stays in front
(`TakeDrop`, `SentKeeps`). `NoStuckBytes` follows each place where bytes can wait
through every handler (`RecvKeeps`, `SendKeeps`, `WriteKeeps`); that handlers
append to the queue and that a batch runs to its end (`StepPhases`) is why what is
due stays due.

`ProcessesProofs`:

* `ProcessesSafe`: `Spec => []ProcessesInv`.

`AnsweredOnce` needs that `Reap` finds the right object for a pid that was used
before: `ChildHasObject` says that each child which the kernel still has belongs to
the object in the table, and `FollowsChild` that the fields of an object agree
with the life of its child, so that all calls of `wait` before its end are in
`on_finish`.

`TimerProofs`:

* `TimerInvariant`: `Spec => []TimerInv`;
* `TimerExactlyOnce`: `Spec => []ExactlyOnce`;
* `TimerArmed`: `Spec => []Armed`.

`ExactlyOnce` depends on what `pop` removes after a callback. `TimerInv` adds
that ids are unique and issued, that `current` is not ahead of the clock, and
that the event whose callback runs is at the top. A callback schedules for a
time not before the clock, hence not before that event (`StaysTop`), so it
stays there. `Armed` follows from `TimerInv`, since all times are positive and
0 is what disarms a timerfd.

`SessionProofs`:

* `SessionSafe`: `Spec => []SessionInv`; `SessionHandover`: `Spec => []HandoverInOrder`;
* `SessionOneInstance`: `Spec => []OneInstance`;
* `SessionNoForgottenAddress`: `Spec => []NoForgottenAddress`.

`HandoverInOrder` speaks of the moments when the client or the server reads.
`HandoverOrder` says what is on the two streams of a connection at every moment:
nothing before the welcome is read, no answer while the request is under way, then
the answer in front of packets, and the instance id in front of what the client
has not read. Two conjuncts of it are there because the proof asked for them: a
connection that is waiting or piped has a child, or `PipeToClient` could put a
packet where the id belongs; and a request that the child has not seen has no
answer, or `ServerOk` could go on with it open. `ProcessesKnown` has the facts
behind `OneInstance`: a connection of an earlier client process is closed, and
`multilinks` names a child of the right client; and no linked connection has
child 0, so that an `instance_id` of 0 means there is no link. `OneLinkPerAddress`
is a statement about cardinality and is used in the form "`running_links` is 0 and
nothing is active, or it is 1 and one connection is" (`OneActive`); seven of the
steps change one connection and no address (`OneConnectionSteps`). A start of the
client lists its new connections in an order that is left open (`SetToSeq`);
`Listed` shows that it lists each once.

`TerminatorProofs`:

* `TerminatorSafe`: `Spec => []TunInv`;
* `TerminatorStreamInOrder`: `Spec => []StreamInOrder`;
* `TerminatorNoOrphan`: `Spec => []NoOrphan`;
* `TerminatorNoLostWakeup`: `Spec => []NoLostWakeup`.

None of these is inductive; all follow from `Inv`, whose parts are:

* `ItemsOK`: at each end of a stream, what was written to the connection, what is
  being sent and what FreeWriterPacketStream has buffered are consecutive items,
  and together with the header, if the HeaderPacketStream has taken it or still
  has it in front, they are as many as have arrived;
* `StagesOK` and `WakesOK`: which states of target, header and connection go
  together (an open connection has its target, `target_error` was called for
  exactly the closed targets), and buffered items wait only for a send or for the
  connection;
* `SourcesOK`, `PacketsOK`: an end has sent no more than was read and its header,
  and each data packet carries the item of its number;
* `ClosesOK`: a stream has at most one CLOSE in the queue and the network
  together, and only once its end can queue no other. Without it a CLOSE that is
  sent could already be in the network, and the count of the network be wrong;
* `RawOK`: the numbers of the raw packets increase from what was written over what
  is in the network to what is queued;
* `SetupOK` and `ServerSetupSafe`: the server has its tun device only with a
  transport;
* `NetworkOK`: an end whose network has room, and which is not about to be told
  so, has nothing to send.

The steps are of three sorts, and a lemma for each sort shows that it keeps `Inv`.
The first changes one end of one stream and may queue or send its CLOSE (`Moves`,
`MovesInv`): connecting, writing, an error and the arrival of data or a CLOSE. The
second gives packets to the network (`Sends`, `SendsInv`): packets of the tun
device, chunks that are read, and `network_send_ready`. The rest sets up or opens a
stream, and has a lemma for each action.
The hard part is `NetworkOK` after a send. Transport takes from its targets in
rounds until the network is full, so one must count what it put there: pairs of a
channel and a number correspond one to one to packets (`DataPacketsCount`,
`ReadPacketsCount`), and the rounds end when all is taken or no
room is left (`RoundsFacts`). The proof also corrected the model: `error` was one
flag of a stream, while each end has a target of its own and calls
`target_error` for it; it is now one per end.

Only model-checked: the liveness properties (fairness is beyond the prover), and
everything about `Tls`. For `Tls` no proof was written: its safety properties depend
on what the two OpenSSL objects hold at each flight of the handshake, and these are
external to the code and modelled from its use of them.

## Plan

1. Core: `Transport`, `Link`, `Multilink`, `Pipe`, `Timer`, `Processes` (done).
2. The programs: `Tls`, `Session`, `Terminator` (done).
3. Proofs: the safety properties and the refinement of the core and the safety
   properties of `Session` and `Terminator` (done); `Tls!ItemsInOrder` and
   `NoLostWakeup` stay with TLC.

## Not modelled

* System calls, OpenSSL and lwIP internals, logging, JSON, option parsing,
  checksums and address formatting, memory and its layout.
* `libreactor/future.h`, buffers and strings: plumbing. Where a future completes,
  the models have its continuation as an action.
* `libreactor/misc.cpp`: `hex_decode` shifts the high digit by 8 bits instead of 4,
  so that ids and keys keep only every second digit. Both ends do the same; the
  models take ids to be distinct.
* `write_queue.cpp`, `packet_queue.cpp` (used by tests only), `throttled.cpp`
  (simulates slow links), `LengthPacketStream` (used by `app/app.cpp` and tests),
  and `app/app.cpp` with the Python prototype in `client/` that drives it.
* Closing of TLS streams and descriptors, except where `Session` and `Terminator`
  have it as the end of a connection.
* Bandwidth estimates (floating point; they only guide a choice that the model
  leaves open), and `multilink/reorder_stream.cpp`, which is not part of the build.
