----------------------------- MODULE Terminator -----------------------------
(***************************************************************************)
(* The tun transport (terminate/): a Terminator at the client and one at   *)
(* the server, each between its tun device and its Transport.              *)
(*                                                                         *)
(* TCP connections that reach a tun device end in lwIP.  Each becomes a    *)
(* stream whose first packet, made up by ReadHeaderPacketStream, says where *)
(* to connect; at the other end a HeaderPacketStream takes it, connects,   *)
(* and passes on what follows.  Other packets go through RawPacketStream   *)
(* and its bounded queue as channel 0.                                     *)
(*                                                                         *)
(* Transport and Multilink are what their modules promise: packets of a    *)
(* stream arrive in order, CLOSE may overtake them, and the network takes  *)
(* QUEUE_SIZE packets.  An item of a stream is a number: 0 is the header,  *)
(* 1, 2, ... the chunks written at that end.  lwIP, the tun devices and    *)
(* the connections outside are the environment.  Ids are taken to be       *)
(* distinct: the client's start at 100 and the server's at 102, so that    *)
(* this holds for the first two streams of the client only.                *)
(***************************************************************************)
EXTENDS Integers, Sequences, FiniteSets

CONSTANTS
    Streams,             \* the streams that may be opened
    MaxChunks,           \* bound: chunks written at an end of a stream
    MaxRaw,              \* bound: packets that are not TCP from a tun device
    Quic,                \* which of them go to UDP port 443
    MAX_TUN_QUEUE_SIZE,  \* of ippacket.cpp
    QUEUE_SIZE           \* what the network takes

Ends == {"client", "server"}

ASSUME TerminatorAssumption ==
    /\ IsFiniteSet(Streams) /\ "raw" \notin Streams
    /\ MaxChunks \in [Ends -> Nat] /\ MaxRaw \in [Ends -> Nat]
    /\ Quic \subseteq Nat
    /\ MAX_TUN_QUEUE_SIZE \in Nat /\ QUEUE_SIZE \in Nat \ {0}

Other(e) == IF e = "client" THEN "server" ELSE "client"

VARIABLES
    has_tun,        \* set_tun was called
    has_transport,  \* set_transport was called
    crashed,        \* the process has ended: "no", "setup" or "write"
    raw_in,         \* packets that came from a tun device
    from_tun_queue, \* RawPacketStream::from_tun_queue
    raw_out,        \* packets written to a tun device
    opener,         \* the end at which a stream is opened, "none" before
    target,         \* the child of Transport: none, or its target is there or not
    written,        \* chunks written outside at an end of a stream
    eof,            \* the outside connection of an end was closed by its peer
    sent,           \* items that Transport has read and sent
    arrived,        \* items that have arrived
    buffer,         \* those that wait for the target (ChildStream::buffer)
    header,         \* HeaderPacketStream: "none", "fresh", "connecting" or "done"
    error,          \* the stream of an end was closed: HeaderPacketStream::error
    sock,           \* the outside connection of an end: "none", "open" or "closed"
    sending,        \* FreeWriterPacketStream::send_buffer_current
    write_due,      \* its write_ready is scheduled
    out,            \* what was written to the outside connection
    net,            \* packets in the network, by the end that sent them
    special,        \* Transport::special_packet_queue, streams to be closed
    notify          \* network_send_ready is due

setup == <<has_tun, has_transport>>
raw == <<raw_in, from_tun_queue, raw_out>>
sources == <<written, eof>>
sinks == <<header, error, sock, sending, write_due, out>>
network == <<net, special, notify>>
vars == <<setup, crashed, raw, opener, target, sources, sent, arrived, buffer, sinks, network>>

Item == 0 .. MaxChunks["client"] + MaxChunks["server"]
EndsOf(S) == [Ends -> [Streams -> S]]
Packet ==
    [kind : {"raw"}, n : Nat]
        \cup [kind : {"data"}, st : Streams, seq : Nat, item : Item]
        \cup [kind : {"close"}, st : Streams]

TypeOK ==
    /\ has_tun \in [Ends -> BOOLEAN] /\ has_transport \in [Ends -> BOOLEAN]
    /\ crashed \in [Ends -> {"no", "setup", "write"}]
    /\ raw_in \in [Ends -> Nat] /\ from_tun_queue \in [Ends -> Seq(Nat)]
    /\ raw_out \in [Ends -> Seq(Nat)]
    /\ net \in [Ends -> SUBSET Packet] /\ special \in [Ends -> Seq(Streams)]
    /\ \A e \in Ends :
         /\ raw_in[e] <= MaxRaw[e] /\ Len(from_tun_queue[e]) <= MAX_TUN_QUEUE_SIZE + 1
         /\ IsFiniteSet(net[e]) /\ Cardinality(net[e]) <= QUEUE_SIZE
    /\ opener \in [Streams -> Ends \cup {"none"}]
    /\ target \in EndsOf({"none", "attached", "closed"})
    /\ written \in EndsOf(Nat) /\ sent \in EndsOf(Nat) /\ arrived \in EndsOf(Nat)
    /\ buffer \in EndsOf(Seq(Item)) /\ sending \in EndsOf(Seq(Item)) /\ out \in EndsOf(Seq(Item))
    /\ \A e \in Ends, st \in Streams :
         /\ written[e][st] <= MaxChunks[e] /\ sent[e][st] <= written[e][st] + 1
         /\ arrived[e][st] <= sent[Other(e)][st] /\ Len(sending[e][st]) <= 1
    /\ eof \in EndsOf(BOOLEAN) /\ write_due \in EndsOf(BOOLEAN) /\ error \in EndsOf(BOOLEAN)
    /\ sock \in EndsOf({"none", "open", "closed"})
    /\ header \in [Streams -> {"none", "fresh", "connecting", "done"}]
    /\ notify \in [Ends -> BOOLEAN]

All(x) == [e \in Ends |-> [st \in Streams |-> x]]

Init ==
    /\ has_tun = [e \in Ends |-> FALSE] /\ has_transport = [e \in Ends |-> FALSE]
    /\ crashed = [e \in Ends |-> "no"]
    /\ raw_in = [e \in Ends |-> 0]
    /\ from_tun_queue = [e \in Ends |-> << >>] /\ raw_out = [e \in Ends |-> << >>]
    /\ opener = [st \in Streams |-> "none"] /\ target = All("none")
    /\ written = All(0) /\ eof = All(FALSE)
    /\ sent = All(0) /\ arrived = All(0) /\ buffer = All(<< >>)
    /\ header = [st \in Streams |-> "none"] /\ error = All(FALSE)
    /\ sock = All("none") /\ sending = All(<< >>) /\ write_due = All(FALSE)
    /\ out = All(<< >>)
    /\ net = [e \in Ends |-> {}] /\ special = [e \in Ends |-> << >>]
    /\ notify = [e \in Ends |-> FALSE]

Lesser(m, n) == IF m <= n THEN m ELSE n
Room(e) == QUEUE_SIZE - Cardinality(net[e])

-----------------------------------------------------------------------------
(* Setting up.                                                             *)

\* create_terminate_target of the client has its tun device before it has its
\* transport, setup_terminate_target and setup_tun of the server after it.
TunFirst(e) == e = "client"

\* Terminator::set_tun; from here on the tun device is read, also by the
\* reactor that runs while the ip commands are waited for.
SetTun(e) ==
    /\ ~has_tun[e] /\ (TunFirst(e) \/ has_transport[e])
    /\ has_tun' = [has_tun EXCEPT ![e] = TRUE]
    /\ UNCHANGED <<has_transport, crashed, raw, opener, target, sources, sent, arrived, buffer,
                   sinks, network>>

\* Transport::create, which schedules network_send_ready, and
\* Terminator::set_transport.
SetTransport(e) ==
    /\ crashed[e] = "no"
    /\ ~has_transport[e] /\ (~TunFirst(e) \/ has_tun[e])
    /\ has_transport' = [has_transport EXCEPT ![e] = TRUE]
    /\ notify' = [notify EXCEPT ![e] = TRUE]
    /\ UNCHANGED <<has_tun, crashed, raw, opener, target, sources, sent, arrived, buffer, sinks,
                   net, special>>

\* Links are added after both.
Running(e) == crashed[e] = "no" /\ has_tun[e] /\ has_transport[e]

-----------------------------------------------------------------------------
(* Packets that are not TCP.                                               *)

\* n packets from the front of queue q, as packets of channel 0.
RawPackets(q, n) == {[kind |-> "raw", n |-> q[i]] : i \in 1 .. n}

\* Faulty Checked: QUIC passes.
NoFilter(e, n) == TRUE

\* check_udp: the client keeps QUIC out.
Checked(e, n) == e = "server" \/ n \notin Quic

\* The limit is compared before the packet is added.
Enqueued(q, n) == IF Len(q) <= MAX_TUN_QUEUE_SIZE THEN Append(q, n) ELSE q

\* Faulty Notifies: looks at the size before the packet was added.
NotifiesSecond(q) == Len(q) = 2

\* on_recv_ready is called for the first packet of the queue only.
Notifies(q) == Len(q) = 1

\* tun_recv_ready and RawPacketStream::from_tun with a packet that is not TCP.
\* Transport reads it at once if the network has room; before set_transport
\* there is no on_recv_ready to call, and the exception ends the process.
FromTun(e) ==
    LET n == raw_in[e] + 1
        q == IF Checked(e, n) THEN Enqueued(from_tun_queue[e], n) ELSE from_tun_queue[e]
        calls == q # from_tun_queue[e] /\ Notifies(q)
        taken == IF calls /\ has_transport[e] THEN Lesser(Len(q), Room(e)) ELSE 0
    IN /\ crashed[e] = "no" /\ has_tun[e]
       /\ raw_in[e] < MaxRaw[e]
       /\ raw_in' = [raw_in EXCEPT ![e] = n]
       /\ crashed' = [crashed EXCEPT ![e] =
              IF calls /\ ~has_transport[e] THEN "setup" ELSE "no"]
       /\ from_tun_queue' = [from_tun_queue EXCEPT ![e] = SubSeq(q, taken + 1, Len(q))]
       /\ net' = [net EXCEPT ![e] = @ \cup RawPackets(q, taken)]
       /\ UNCHANGED <<setup, raw_out, opener, target, sources, sent, arrived, buffer, sinks,
                      special, notify>>

-----------------------------------------------------------------------------
(* Reading from the streams.                                               *)

\* Faulty Recv: the header is returned again.
RecvHeaderAgain(e, st, k) == IF e = opener[st] THEN 0 ELSE k

\* Item number k of what an end reads: ReadHeaderPacketStream::recv returns
\* its header before anything else.
Recv(e, st, k) == IF e = opener[st] THEN k - 1 ELSE k

\* How many items an end can read.
Readable(e, st) ==
    IF target[e][st] # "attached" THEN 0
    ELSE (IF e = opener[st] THEN 1 ELSE 0) + written[e][st] - sent[e][st]

DataPackets(e, st, n) ==
    {[kind |-> "data", st |-> st, seq |-> k, item |-> Recv(e, st, k)] :
        k \in sent[e][st] + 1 .. sent[e][st] + n}

HeaderPacket(st, n) == {[kind |-> "data", st |-> st, seq |-> k, item |-> 0] : k \in 1 .. n}

\* TcpListener::accept, Terminator::tcp_accepted and Transport::add_target.
\* Without a transport this is a call through a null pointer.
TcpAccepted(e, st) ==
    LET taken == Lesser(1, Room(e))
    IN /\ crashed[e] = "no" /\ has_tun[e] /\ opener[st] = "none"
       /\ opener' = [opener EXCEPT ![st] = e]
       /\ IF ~has_transport[e]
          THEN /\ crashed' = [crashed EXCEPT ![e] = "setup"]
               /\ UNCHANGED <<target, sock, sent, net>>
          ELSE /\ target' = [target EXCEPT ![e][st] = "attached"]
               /\ sock' = [sock EXCEPT ![e][st] = "open"]
               /\ sent' = [sent EXCEPT ![e][st] = taken]
               /\ net' = [net EXCEPT ![e] = @ \cup HeaderPacket(st, taken)]
               /\ UNCHANGED crashed
       /\ UNCHANGED <<setup, raw, sources, arrived, buffer, header, error, sending,
                      write_due, out, special, notify>>

\* A chunk comes from outside, and target_recv_ready is called: by epoll, or
\* by recv_from_pcb if recv_queue was empty; the header is not in that queue.
ChunkIn(e, st) ==
    LET calls == e # opener[st] \/ Readable(e, st) = 0 \/ written[e][st] = 0
        n == IF calls THEN Lesser(Readable(e, st) + 1, Room(e)) ELSE 0
    IN /\ Running(e)
       /\ sock[e][st] = "open" /\ target[e][st] = "attached"
       /\ ~eof[e][st] /\ written[e][st] < MaxChunks[e]
       /\ written' = [written EXCEPT ![e][st] = @ + 1]
       /\ sent' = [sent EXCEPT ![e][st] = @ + n]
       /\ net' = [net EXCEPT ![e] = @ \cup DataPackets(e, st, n)]
       /\ UNCHANGED <<setup, crashed, raw, opener, target, eof, arrived, buffer, sinks, special,
                      notify>>

\* The outside connection is closed by its peer.
OutsideCloses(e, st) ==
    /\ sock[e][st] = "open" /\ ~eof[e][st]
    /\ eof' = [eof EXCEPT ![e][st] = TRUE]
    /\ UNCHANGED <<setup, crashed, raw, opener, target, written, sent, arrived, buffer, sinks, network>>

\* Faulty SpecialsFirst: the queue is not looked at.
SpecialsForgotten(e) == 0

\* The CLOSE packets that network_send_ready sends first.
SpecialsFirst(e) == Lesser(Room(e), Len(special[e]))

\* What it then takes from the raw queue and the streams, in rounds.
Rounds(e, room) ==
    LET readable == [c \in Streams \cup {"raw"} |->
                        IF c = "raw" THEN Len(from_tun_queue[e]) ELSE Readable(e, c)]
        Total(take) == Cardinality({x \in (DOMAIN readable) \X (1 .. room) : x[2] <= take[x[1]]})
    IN {take \in [DOMAIN readable -> 0 .. room] :
          /\ \A c \in DOMAIN take : take[c] <= readable[c]
          /\ Total(take) <= room
          /\ Total(take) < room => take = readable
          /\ \A c, d \in DOMAIN take : take[c] > take[d] + 1 => take[d] = readable[d]}

\* Transport::network_send_ready.
NetworkSendReady(e) ==
    LET n == SpecialsFirst(e)
        q == from_tun_queue[e]
    IN /\ crashed[e] = "no" /\ has_transport[e] /\ notify[e]
       /\ notify' = [notify EXCEPT ![e] = FALSE]
       /\ special' = [special EXCEPT ![e] = SubSeq(@, n + 1, Len(@))]
       /\ \E take \in Rounds(e, Room(e) - n) :
            /\ from_tun_queue' = [from_tun_queue EXCEPT ![e] = SubSeq(q, take["raw"] + 1, Len(q))]
            /\ sent' = [sent EXCEPT ![e] = [st \in Streams |-> @[st] + take[st]]]
            /\ net' = [net EXCEPT ![e] = @
                   \cup {[kind |-> "close", st |-> special[e][i]] : i \in 1 .. n}
                   \cup RawPackets(q, take["raw"])
                   \cup UNION {DataPackets(e, st, take[st]) : st \in Streams}]
       /\ UNCHANGED <<setup, crashed, raw_in, raw_out, opener, target, sources, arrived, buffer, sinks>>

-----------------------------------------------------------------------------
(* Writing to the streams.  A record c is what one end has of a stream;    *)
(* `closes' says that Transport is to send CLOSE.                          *)

Now(e, st) == [
    target |-> target[e][st], buffer |-> buffer[e][st],
    header |-> header[st], error |-> error[e][st],
    sock |-> sock[e][st], sending |-> sending[e][st], due |-> write_due[e][st],
    closes |-> FALSE]

\* Transport drops its target and closes it: HeaderPacketStream::close or
\* ReadHeaderPacketStream::close, and below them that of the connection.
Closed(c) ==
    [c EXCEPT !.target = "closed", !.error = TRUE, !.sock = IF @ = "open" THEN "closed" ELSE @]

\* Faulty Errored: the peer is not told.
ErroredSilently(c) == Closed(c)

\* Transport::target_error.
Errored(c) == [Closed(c) EXCEPT !.closes = TRUE]

\* is_send_ready of the target: a HeaderPacketStream takes the header, then
\* nothing until it is connected.
IsSendReady(e, st, c) ==
    IF e # opener[st] /\ c.header # "done" THEN c.header = "fresh" ELSE c.sending = << >>

\* Transport::target_send_ready: the target takes an item and is not ready for
\* another one.  The first is the header, and create_target_2 connects or
\* fails at once; others go to the send buffer of FreeWriterPacketStream.
TargetSendReady(e, st, c) ==
    LET rest == [c EXCEPT !.buffer = Tail(@)]
    IN IF c.buffer = << >> \/ c.target # "attached" \/ ~IsSendReady(e, st, c) THEN {c}
       ELSE IF e # opener[st] /\ c.header = "fresh"
            THEN {[rest EXCEPT !.header = "connecting"],
                  Errored([rest EXCEPT !.header = "done"])}
            ELSE {[rest EXCEPT !.sending = <<Head(c.buffer)>>, !.due = TRUE]}

\* The new state of end e of a stream.  A CLOSE is queued, and the first one
\* of the queue is sent if there is room; packets in `taken' are received.
Becomes(e, st, c, taken) ==
    LET queue == IF c.closes THEN Append(special[e], st) ELSE special[e]
        n == IF c.closes THEN Lesser(1, Room(e)) ELSE 0
    IN /\ target' = [target EXCEPT ![e][st] = c.target]
       /\ buffer' = [buffer EXCEPT ![e][st] = c.buffer]
       /\ header' = [header EXCEPT ![st] = c.header]
       /\ error' = [error EXCEPT ![e][st] = c.error]
       /\ sock' = [sock EXCEPT ![e][st] = c.sock]
       /\ sending' = [sending EXCEPT ![e][st] = c.sending]
       /\ write_due' = [write_due EXCEPT ![e][st] = c.due]
       /\ special' = [special EXCEPT ![e] = SubSeq(queue, n + 1, Len(queue))]
       /\ net' = [net EXCEPT ![Other(e)] = @ \ taken,
                             ![e] = @ \cup {[kind |-> "close", st |-> queue[i]] : i \in 1 .. n}]
       /\ notify' = IF taken = {} THEN notify ELSE [notify EXCEPT ![Other(e)] = TRUE]

\* Transport::get_child_stream: Terminator::create_target looks at bit 63 of
\* the id, which no id has, so that the server takes every stream and the
\* client none.
Child(e, st) ==
    LET c == Now(e, st)
    IN IF c.target # "none" THEN c
       ELSE IF e = "server" THEN [c EXCEPT !.target = "attached", !.header = "fresh"]
       ELSE Errored(c)

\* Transport::place_packet, for the packet whose turn it is.
DataArrives(e, m) ==
    LET c == Child(e, m.st)
        placed == [c EXCEPT !.buffer = Append(@, m.item)]
    IN /\ m.kind = "data" /\ m.seq = arrived[e][m.st] + 1
       /\ arrived' = [arrived EXCEPT ![e][m.st] = @ + 1]
       /\ \E d \in IF c.buffer = << >> THEN TargetSendReady(e, m.st, placed) ELSE {placed} :
             Becomes(e, m.st, d, {m})
       /\ UNCHANGED raw_out

\* Transport::close_channel.
CloseArrives(e, m) ==
    LET c == Child(e, m.st)
    IN /\ m.kind = "close"
       /\ Becomes(e, m.st, IF c.target = "attached" THEN Closed(c) ELSE c, {m})
       /\ UNCHANGED <<arrived, raw_out>>

\* RawPacketStream::send: to the tun device.
RawArrives(e, m) ==
    /\ m.kind = "raw"
    /\ \A l \in net[Other(e)] : l.kind = "raw" => l.n >= m.n
    /\ raw_out' = [raw_out EXCEPT ![e] = Append(@, m.n)]
    /\ net' = [net EXCEPT ![Other(e)] = @ \ {m}]
    /\ notify' = [notify EXCEPT ![Other(e)] = TRUE]
    /\ UNCHANGED <<target, arrived, buffer, header, error, sock, sending, write_due, special>>

\* A packet arrives.
Arrive(e) ==
    /\ Running(e)
    /\ \E m \in net[Other(e)] : DataArrives(e, m) \/ CloseArrives(e, m) \/ RawArrives(e, m)
    /\ UNCHANGED <<setup, crashed, raw_in, from_tun_queue, opener, sources, sent, out>>

Steps(e, st, S) ==
    /\ \E c \in S : Becomes(e, st, c, {})
    /\ UNCHANGED <<setup, raw, opener, sources, sent, arrived>>

\* Faulty NewStream: does not see that the stream was closed.
LateConnectionKept(e, st, c) == TargetSendReady(e, st, c)

\* What HeaderPacketStream does with its new stream: closes it if it was
\* closed itself in the meantime, or passes on what waits.
NewStream(e, st, c) == IF c.error THEN {Closed(c)} ELSE TargetSendReady(e, st, c)

\* The connection that create_target_2 began is there.
Connects(st) ==
    LET e == Other(opener[st])
    IN /\ crashed[e] = "no" /\ header[st] = "connecting"
       /\ Steps(e, st, NewStream(e, st, [Now(e, st) EXCEPT !.header = "done", !.sock = "open"]))
       /\ UNCHANGED <<crashed, out>>

\* It has failed: on_error leads to target_error, also if Transport has closed
\* the stream before.
ConnectFails(st) ==
    LET e == Other(opener[st])
    IN /\ crashed[e] = "no" /\ header[st] = "connecting"
       /\ Steps(e, st, {Errored([Now(e, st) EXCEPT !.header = "done"])})
       /\ UNCHANGED <<crashed, out>>

\* FreeWriterPacketStream::write_ready writes the whole send buffer and calls
\* on_send_ready.
Writes(e, st) ==
    /\ out' = [out EXCEPT ![e][st] = @ \o sending[e][st]]
    /\ Steps(e, st, TargetSendReady(e, st, [Now(e, st) EXCEPT !.sending = << >>, !.due = FALSE]))

\* The scheduled write_ready: the connection takes everything or nothing.  If
\* it was closed meanwhile, its pointer is null and the process crashes.
WriteReady(e, st) ==
    /\ crashed[e] = "no" /\ write_due[e][st]
    /\ \/ sock[e][st] = "open" /\ Writes(e, st) /\ UNCHANGED crashed
       \/ /\ sock[e][st] = "open"
          /\ Steps(e, st, {[Now(e, st) EXCEPT !.due = FALSE]})
          /\ UNCHANGED <<crashed, out>>
       \/ /\ sock[e][st] = "closed"
          /\ crashed' = [crashed EXCEPT ![e] = "write"]
          /\ UNCHANGED <<setup, raw, opener, target, sources, sent, arrived, buffer, sinks, network>>

\* The connection has room again: epoll, or tcp_sent of lwIP.
Writable(e, st) ==
    /\ crashed[e] = "no" /\ sock[e][st] = "open"
    /\ ~write_due[e][st] /\ sending[e][st] # << >>
    /\ Writes(e, st) /\ UNCHANGED crashed

\* The end of the outside connection is noticed.  TcpStream::read comes to it
\* after all chunks, FD may report it earlier.
TargetError(e, st) ==
    /\ crashed[e] = "no" /\ eof[e][st] /\ target[e][st] = "attached"
    /\ e = opener[st] => Readable(e, st) = 0
    /\ Steps(e, st, {Errored(Now(e, st))})
    /\ UNCHANGED <<crashed, out>>

\* lwIP gives its connection up, as it may at any time: the callback of tcp_err
\* calls on_error at once, before what is still in recv_queue.
TcpErr(e, st) ==
    /\ crashed[e] = "no" /\ e = opener[st]
    /\ sock[e][st] = "open" /\ target[e][st] = "attached"
    /\ Steps(e, st, {Errored(Now(e, st))})
    /\ UNCHANGED <<crashed, out>>

-----------------------------------------------------------------------------

Next ==
    \/ \E e \in Ends :
         \/ SetTun(e) \/ SetTransport(e) \/ FromTun(e)
         \/ NetworkSendReady(e) \/ Arrive(e)
    \/ \E st \in Streams : Connects(st) \/ ConnectFails(st)
    \/ \E e \in Ends, st \in Streams :
         \/ TcpAccepted(e, st) \/ ChunkIn(e, st) \/ OutsideCloses(e, st) \/ TargetError(e, st)
         \/ TcpErr(e, st) \/ WriteReady(e, st) \/ Writable(e, st)

Spec == Init /\ [][Next]_vars

\* What is due at an end.
Due(e) ==
    \/ SetTun(e) \/ SetTransport(e) \/ NetworkSendReady(e) \/ Arrive(e)
    \/ \E st \in Streams :
         \/ TargetError(e, st) \/ WriteReady(e, st)
         \/ e = Other(opener[st]) /\ (Connects(st) \/ ConnectFails(st))

\* Both processes are set up and their reactors run, the network delivers,
\* and an attempt to connect ends; nobody outside has to read or write.
FairSpec == Spec /\ \A e \in Ends : WF_vars(Due(e))

-----------------------------------------------------------------------------
(* Properties.                                                             *)

\* What an end writes to its outside connection is what the other end read
\* there, in order and without the header, whatever is closed or connected
\* in the meantime.
StreamInOrder ==
    \A e \in Ends, st \in Streams :
        /\ Len(out[e][st]) <= written[Other(e)][st]
        /\ out[e][st] = [i \in 1 .. Len(out[e][st]) |-> i]

\* An outside connection is open only while Transport has it as a target, in
\* particular also when the stream was closed while it was being connected.
NoOrphan ==
    \A e \in Ends, st \in Streams :
        crashed[e] = "no" /\ sock[e][st] = "open" => target[e][st] = "attached"

\* Nothing waits without somebody who takes it up again: packets of the tun
\* device and chunks wait only for the network, arrived items only for the
\* connection.
NoLostWakeup ==
    \A e \in Ends : crashed[e] = "no" =>
        /\ has_transport[e] /\ Room(e) > 0 /\ ~notify[e] =>
             /\ from_tun_queue[e] = << >> /\ special[e] = << >>
             /\ \A st \in Streams : Readable(e, st) = 0
        /\ \A st \in Streams : target[e][st] = "attached" /\ buffer[e][st] # << >> =>
             sending[e][st] # << >> \/ (e # opener[st] /\ header[st] = "connecting")

\* Packets keep their order, none is repeated, and none for QUIC leaves the
\* client.
RawInOrder ==
    \A e \in Ends :
        /\ \A i, j \in DOMAIN raw_out[e] : i < j => raw_out[e][i] < raw_out[e][j]
        /\ e = "server" => \A i \in DOMAIN raw_out[e] : raw_out[e][i] \notin Quic

\* The server, which has its transport first, does not fail when packets reach
\* its tun device while it is being set up.
ServerSetupSafe == crashed["server"] # "setup"

\* A stream that is closed at one end is closed at the other.
CloseSpreads ==
    \A st \in Streams :
        (\E e \in Ends : target[e][st] = "closed")
            ~> ((\A e \in Ends : target[e][st] # "attached") \/ \E e \in Ends : crashed[e] # "no")

\* A connection that lwIP has accepted is connected at the other end, or
\* closed.
EventuallyResolved ==
    \A st \in Streams :
        (opener[st] # "none")
            ~> \E e \in Ends :
                 \/ opener[st] = e /\ (sock[Other(e)][st] = "open" \/ target[e][st] = "closed")
                 \/ crashed[e] # "no"

\* What holds for the tun devices: the types with the limit of the queue,
\* RawInOrder and ServerSetupSafe.
TunInv == TypeOK /\ RawInOrder /\ ServerSetupSafe

=============================================================================
