-------------------------------- MODULE Link --------------------------------
(***************************************************************************)
(* The two Link objects (multilink/multilink_link.cpp) at the ends of one  *)
(* connection, and the part of Multilink that feeds and drains them.       *)
(*                                                                         *)
(* A Link frames data, ping and pong packets on a byte stream.  A ping     *)
(* carries the number of the last data packet sent, the pong returns it,   *)
(* and that is how the sender learns what was received.  Everything is     *)
(* event driven: a handler runs only because it was scheduled on the       *)
(* reactor (the field sched), because epoll reported an edge (in_event,    *)
(* blocked), or because of the timer.  Scheduled callbacks may run in any  *)
(* order here, which allows more than the reactor's queue does.            *)
(*                                                                         *)
(* Packets are whole: one that is partly written still counts as being in  *)
(* the sender's buffer.  Data packets are known by their sequence number;  *)
(* Multilink's numbers may have gaps, which is immaterial to a single      *)
(* link, so packets are numbered 1, 2, 3, ... here.                        *)
(***************************************************************************)
EXTENDS Integers, Sequences

CONSTANTS
    MaxData,    \* bound: data packets Multilink assigns to the link of an end
    WireCap,    \* packets that the socket buffers of a direction hold
    RecvCap,    \* packets that fit into recv_buffer
    RoundTrips, \* the round trip times that occur, relative to the two marks
    Pingers,    \* the ends at which PING_INTERVAL may pass
    MayTimeOut, \* the ends at which RETRANSMISSION_TIMEOUT may pass
    None

Ends == {"client", "server"}

Peer(e) == IF e = "client" THEN "server" ELSE "client"

ASSUME LinkAssumption ==
    /\ MaxData \in [Ends -> Nat]
    /\ WireCap \in Nat \ {0}
    /\ RecvCap \in Nat \ {0}
    /\ RoundTrips \subseteq {"low", "between", "high"}
    /\ Pingers \subseteq Ends
    /\ MayTimeOut \subseteq Ends

Packet == [kind : {"data", "ping", "pong"}, seq : Nat]

ASSUME NoneAssumption == None \notin Packet /\ None \notin Nat

VARIABLES
    link,       \* link[e]: the fields of the Link object of e, and its callbacks that are due
    wire,       \* wire[e]: packets written by e and not yet read by its peer
    todo,       \* packets assigned to the link of e (Multilink::assigned_packets)
    delivered   \* numbers of the packets Multilink::recv took from the link of e

vars == <<link, wire, todo, delivered>>

\* transport_write_ready, on_send_ready_edge_fn, send_aux, transport_read_ready,
\* on_recv_ready, on_send_ready
Callbacks == {"write", "edge", "aux", "read", "recv", "ready"}

LinkState ==
    [sendbuf : Packet \cup {None},   \* send_buffer_current
     edge : BOOLEAN,                 \* send_buffer_edge
     bloat : BOOLEAN,                \* bufferbloat_avoidance
     ping_due : BOOLEAN,             \* should_ping()
     pong_request : Nat \cup {None}, \* last_pong_request_seq, None if last_pong_request_time = 0
     last_seq_sent : Nat,
     ack : Nat,                      \* last_pong_recv_seq
     in_flight : Seq(Nat),           \* in_flight_queue
     recvbuf : Seq(Packet),          \* complete packets in recv_buffer
     waiting : Nat \cup {None},      \* waiting_recv_packet
     timed_out : BOOLEAN,
     removed : BOOLEAN,              \* the Link was destroyed by Multilink
     sched : SUBSET Callbacks,       \* callbacks of the link in Reactor::scheduled_functions
     blocked : BOOLEAN,              \* a write found the socket full; epoll will report
     in_event : BOOLEAN]             \* epoll has an edge for arrived data to report

\* Every field has its type.
TypeOK ==
    /\ link \in [Ends -> LinkState]
    /\ wire \in [Ends -> Seq(Packet)]
    /\ todo \in [Ends -> Nat]
    /\ delivered \in [Ends -> Seq(Nat)]

\* The constructor and Multilink::add_link.  The callbacks they schedule find
\* nothing to do on a link without packets and are left out.
NewLink ==
    [sendbuf |-> None, edge |-> TRUE, bloat |-> FALSE, ping_due |-> FALSE,
     pong_request |-> None, last_seq_sent |-> 0, ack |-> 0, in_flight |-> <<>>,
     recvbuf |-> <<>>, waiting |-> None, timed_out |-> FALSE, removed |-> FALSE,
     sched |-> {}, blocked |-> FALSE, in_event |-> FALSE]

Init ==
    /\ link = [e \in Ends |-> NewLink]
    /\ wire = [e \in Ends |-> <<>>]
    /\ todo = [e \in Ends |-> 0]
    /\ delivered = [e \in Ends |-> <<>>]

-----------------------------------------------------------------------------
(* The methods of Link, as functions from the state of the object before   *)
(* the call to its state after.                                            *)

Elements(s) == {s[i] : i \in 1 .. Len(s)}

\* reactor.schedule.  A callback scheduled twice is due once: what a second
\* run could find to do schedules the callback again.
Schedule(l, f) == [l EXCEPT !.sched = @ \cup {f}]

\* raw_send_packet
RawSend(l, kind, seq) ==
    Schedule([l EXCEPT !.sendbuf = [kind |-> kind, seq |-> seq]], "write")

\* Faulty SendAux: a ping carries the number of packets in flight.
SendAuxCount(l) ==
    CASE l.sendbuf # None -> l
      [] l.sendbuf = None /\ l.pong_request # None ->
            [RawSend(l, "pong", l.pong_request) EXCEPT !.pong_request = None]
      [] l.sendbuf = None /\ l.pong_request = None /\ l.ping_due ->
            [RawSend(l, "ping", Len(l.in_flight)) EXCEPT !.ping_due = FALSE]
      [] OTHER -> l

\* send_aux: a pong that is owed first, then a ping that is due, and only if
\* the send buffer is empty.
SendAux(l) ==
    CASE l.sendbuf # None -> l
      [] l.sendbuf = None /\ l.pong_request # None ->
            [RawSend(l, "pong", l.pong_request) EXCEPT !.pong_request = None]
      [] l.sendbuf = None /\ l.pong_request = None /\ l.ping_due ->
            [RawSend(l, "ping", l.last_seq_sent) EXCEPT !.ping_due = FALSE]
      [] OTHER -> l

\* send_aux returns true iff the send buffer is in use after the call.
InUse(l) == l.sendbuf # None

\* Link::send for the next data packet.  It returns true iff Sends(l).
Sends(l) == ~l.timed_out /\ ~l.bloat /\ ~InUse(SendAux(l))

Send(l) ==
    LET seq == l.last_seq_sent + 1
    IN  IF l.timed_out \/ l.bloat THEN l
        ELSE IF InUse(SendAux(l)) THEN SendAux(l)
        ELSE [RawSend(l, "data", seq) EXCEPT
                 !.last_seq_sent = seq, !.in_flight = Append(@, seq)]

\* transport_write_ready when the socket has room for a packet or not.
WriteReady(l, room) ==
    CASE l.timed_out -> l
      [] ~l.timed_out /\ InUse(l) /\ ~room -> [l EXCEPT !.blocked = TRUE]
      [] ~l.timed_out /\ (InUse(l) => room) ->
            LET flushed == [l EXCEPT !.sendbuf = None, !.edge = FALSE]
            IN  IF l.edge THEN Schedule(flushed, "edge") ELSE flushed

\* maybe_retransmit: the states it may leave at end e.  How long the first
\* packet has been in flight is not modelled, so the timeout may strike
\* whenever there is one.  With bufferbloat avoidance on, the front of an
\* empty deque may be read, which yields any transmit time.
MaybeRetransmit(e, l) ==
    {l} \cup (IF e \notin MayTimeOut \/ (l.in_flight = <<>> /\ ~l.bloat) THEN {}
              ELSE {Schedule([l EXCEPT !.timed_out = TRUE], "ready")})

\* Faulty Flushed: one packet too many is popped.
FlushedOneMore(q, seq) ==
    LET n == CHOOSE n \in 0 .. Len(q) :
                 /\ \A i \in 1 .. n : q[i] <= seq + 1
                 /\ n < Len(q) => q[n + 1] > seq + 1
    IN  SubSeq(q, n + 1, Len(q))

\* flush_in_flight_queue: packets are popped from the front while they are
\* acknowledged.
Flushed(q, seq) ==
    LET n == CHOOSE n \in 0 .. Len(q) :
                 /\ \A i \in 1 .. n : q[i] <= seq
                 /\ n < Len(q) => q[n + 1] > seq
    IN  SubSeq(q, n + 1, Len(q))

\* bufferbloat_check with round trip time rtt.
BufferbloatCheck(l, rtt) ==
    CASE l.bloat /\ rtt = "low" -> Schedule([l EXCEPT !.bloat = FALSE], "ready")
      [] ~l.bloat /\ rtt = "high" -> [l EXCEPT !.bloat = TRUE]
      [] OTHER -> l

\* parse_recv_packet of a pong.
Pong(l, seq) ==
    {[BufferbloatCheck(l, rtt) EXCEPT !.ack = seq, !.in_flight = Flushed(@, seq)]
        : rtt \in RoundTrips}

\* parse_recv_packet
Parse(l, p) ==
    CASE p.kind = "data" -> {Schedule([l EXCEPT !.waiting = p.seq], "recv")}
      [] p.kind = "ping" -> {Schedule([l EXCEPT !.pong_request = p.seq], "aux")}
      [] p.kind = "pong" -> Pong(l, p.seq)

-----------------------------------------------------------------------------
(* Actions of the end e: one per callback.  A removed link runs none.      *)

Alive(e) == ~link[e].removed

\* The reactor takes the scheduled callback f, which leaves the link in state
\* Taken(e, f).
Runs(e, f) == Alive(e) /\ f \in link[e].sched

Taken(e, f) == [link[e] EXCEPT !.sched = @ \ {f}]

\* Writing fails when the socket buffers are full or the peer closed.
Room(e) == Len(wire[e]) < WireCap /\ ~link[Peer(e)].removed

\* The link is destroyed; what counts afterwards is what was in flight.
Destroyed(l) ==
    [NewLink EXCEPT !.timed_out = TRUE, !.removed = TRUE,
                    !.last_seq_sent = l.last_seq_sent, !.ack = l.ack, !.in_flight = l.in_flight]

\* Multilink::link_send_ready for a link in state l: a link that timed out is
\* destroyed, any other is given packets until send refuses one, which it
\* does at the latest when the send buffer holds the first.
LinkSendReady(e, l) ==
    CASE l.timed_out ->
            link' = [link EXCEPT ![e] = Destroyed(l)] /\ UNCHANGED todo
      [] ~l.timed_out /\ todo[e] = 0 ->
            link' = [link EXCEPT ![e] = l] /\ UNCHANGED todo
      [] OTHER ->
            /\ link' = [link EXCEPT ![e] = Send(l)]
            /\ todo' = [todo EXCEPT ![e] = IF Sends(l) THEN @ - 1 ELSE @]

\* on_send_ready scheduled by add_link, bufferbloat_check, maybe_retransmit,
\* or by Multilink for all links.
OnSendReady(e) ==
    /\ Runs(e, "ready")
    /\ LinkSendReady(e, Taken(e, "ready"))
    /\ UNCHANGED <<wire, delivered>>

OnSendReadyEdge(e) ==
    LET l == SendAux([Taken(e, "edge") EXCEPT !.edge = TRUE])
    IN  /\ Runs(e, "edge")
        /\ \/ InUse(l) /\ link' = [link EXCEPT ![e] = l] /\ UNCHANGED todo
           \/ ~InUse(l) /\ LinkSendReady(e, l)
        /\ UNCHANGED <<wire, delivered>>

\* Faulty TimerCallback: no ping when there is no other traffic.
TimerCallbackSilent(e) ==
    /\ Alive(e) /\ ~link[e].timed_out
    /\ \E l \in MaybeRetransmit(e, link[e]) : link' = [link EXCEPT ![e] = l]
    /\ UNCHANGED <<wire, todo, delivered>>

TimerCallback(e) ==
    /\ Alive(e) /\ ~link[e].timed_out
    /\ \E l \in MaybeRetransmit(e, SendAux(link[e])) : link' = [link EXCEPT ![e] = l]
    /\ UNCHANGED <<wire, todo, delivered>>

\* send_aux scheduled when a ping was parsed.
ScheduledAux(e) ==
    /\ Runs(e, "aux")
    /\ link' = [link EXCEPT ![e] = SendAux(Taken(e, "aux"))]
    /\ UNCHANGED <<wire, todo, delivered>>

\* transport_write_ready run from state l: the packet goes to the wire if
\* there is room, and its arrival is an event for the peer.
TransportWriteReady(e, l) ==
    LET after == WriteReady(l, Room(e))
        wrote == InUse(l) /\ ~InUse(after)
    IN  /\ wire' = [wire EXCEPT ![e] = IF wrote THEN Append(@, l.sendbuf) ELSE @]
        /\ link' = [link EXCEPT ![e] = after, ![Peer(e)].in_event = @ \/ (wrote /\ Alive(Peer(e)))]
        /\ UNCHANGED <<todo, delivered>>

ScheduledWrite(e) ==
    /\ Runs(e, "write")
    /\ TransportWriteReady(e, Taken(e, "write"))

\* epoll reports the socket writable after a write that blocked, or, being
\* asked for both, together with arrived data.
EpollWrite(e) ==
    /\ Alive(e) /\ Room(e)
    /\ link[e].blocked \/ link[e].in_event
    /\ TransportWriteReady(e, [link[e] EXCEPT !.blocked = FALSE])

\* Does the loop of transport_read_ready go on from state l with w in the
\* socket?
More(l, w) ==
    IF l.waiting = None THEN l.recvbuf \o w # <<>> ELSE w # <<>> /\ Len(l.recvbuf) < RecvCap

\* transport_read_ready run from state l: one iteration of its loops.  A
\* packet is parsed if none waits for recv(); otherwise it is moved into
\* recv_buffer as long as there is space.  When more can be done the handler
\* goes on, which is the same as more data arriving later; when it cannot,
\* no further edge reports what stays in the socket.
TransportReadReady(e, l) ==
    LET in == wire[Peer(e)]
        left(m, w) == link' = [link EXCEPT ![e] = [m EXCEPT !.in_event = More(m, w)]]
    IN  /\ \/ /\ ~l.timed_out /\ l.waiting = None /\ l.recvbuf # <<>>
              /\ \E m \in Parse([l EXCEPT !.recvbuf = Tail(@)], Head(l.recvbuf)) : left(m, in)
              /\ UNCHANGED wire
           \/ /\ ~l.timed_out /\ l.waiting = None /\ l.recvbuf = <<>> /\ in # <<>>
              /\ \E m \in Parse(l, Head(in)) : left(m, Tail(in))
              /\ wire' = [wire EXCEPT ![Peer(e)] = Tail(@)]
           \/ /\ ~l.timed_out /\ l.waiting # None /\ More(l, in)
              /\ left([l EXCEPT !.recvbuf = Append(@, Head(in))], Tail(in))
              /\ wire' = [wire EXCEPT ![Peer(e)] = Tail(@)]
           \/ /\ l.timed_out \/ ~More(l, in)
              /\ link' = [link EXCEPT ![e] = [l EXCEPT !.in_event = FALSE]]
              /\ UNCHANGED wire
        /\ UNCHANGED <<todo, delivered>>

ScheduledRead(e) ==
    /\ Runs(e, "read")
    /\ TransportReadReady(e, Taken(e, "read"))

EpollRead(e) ==
    /\ Alive(e) /\ link[e].in_event
    /\ TransportReadReady(e, link[e])

\* Faulty LinkRecv: the packet is copied instead of swapped out.
LinkRecvCopies(e, l) ==
    IF l.waiting # None /\ ~l.timed_out
    THEN /\ link' = [link EXCEPT ![e] = Schedule(l, "read")]
         /\ delivered' = [delivered EXCEPT ![e] = Append(@, l.waiting)]
    ELSE link' = [link EXCEPT ![e] = l] /\ UNCHANGED delivered

\* Faulty LinkRecv: reading is not resumed.
LinkRecvOnly(e, l) ==
    IF l.waiting # None /\ ~l.timed_out
    THEN /\ link' = [link EXCEPT ![e] = [l EXCEPT !.waiting = None]]
         /\ delivered' = [delivered EXCEPT ![e] = Append(@, l.waiting)]
    ELSE link' = [link EXCEPT ![e] = l] /\ UNCHANGED delivered

\* Link::recv, called on link state l.
LinkRecv(e, l) ==
    IF l.waiting # None /\ ~l.timed_out
    THEN /\ link' = [link EXCEPT ![e] = Schedule([l EXCEPT !.waiting = None], "read")]
         /\ delivered' = [delivered EXCEPT ![e] = Append(@, l.waiting)]
    ELSE link' = [link EXCEPT ![e] = l] /\ UNCHANGED delivered

\* on_recv_ready: Multilink::recv is called until it returns nothing.
OnRecvReady(e) ==
    /\ Runs(e, "recv")
    /\ LinkRecv(e, Taken(e, "recv"))
    /\ UNCHANGED <<wire, todo>>

\* Multilink::recv takes the packet because another link called on_recv_ready.
RecvForOtherLink(e) ==
    /\ Alive(e) /\ link[e].waiting # None /\ ~link[e].timed_out
    /\ LinkRecv(e, link[e])
    /\ UNCHANGED <<wire, todo>>

-----------------------------------------------------------------------------
(* The environment.                                                        *)

\* Multilink assigns a packet to the link (assign_links_until); whether
\* link_send_ready is going to be called for this link is not certain.
Assign(e, wake) ==
    /\ Alive(e)
    /\ link[e].last_seq_sent + todo[e] < MaxData[e]
    /\ todo' = [todo EXCEPT ![e] = @ + 1]
    /\ link' = [link EXCEPT ![e] = IF wake THEN Schedule(@, "ready") ELSE @]
    /\ UNCHANGED <<wire, delivered>>

\* PING_INTERVAL has passed since the last ping (or since the start: the
\* first ping is due at once, and may be this action's first step).
PingInterval(e) ==
    /\ Alive(e) /\ e \in Pingers /\ ~link[e].ping_due
    /\ link' = [link EXCEPT ![e].ping_due = TRUE]
    /\ UNCHANGED <<wire, todo, delivered>>

Next ==
    \E e \in Ends :
        \/ OnSendReady(e)
        \/ OnSendReadyEdge(e)
        \/ TimerCallback(e)
        \/ ScheduledAux(e)
        \/ ScheduledWrite(e)
        \/ EpollWrite(e)
        \/ ScheduledRead(e)
        \/ EpollRead(e)
        \/ OnRecvReady(e)
        \/ RecvForOtherLink(e)
        \/ \E wake \in BOOLEAN : Assign(e, wake)
        \/ PingInterval(e)

Spec == Init /\ [][Next]_vars

\* PING_INTERVAL is a quarter of a second: more than the reactor needs to run
\* the callbacks of a link that are due, and more than a socket needs to take
\* the 19 bytes of a ping or a pong.  Only a data packet keeps the send buffer
\* for so long.  Were it not so, ping could follow ping, and no data packet
\* would ever find the send buffer empty.
Quiet(e) ==
    link[e].sched = {} /\ (InUse(link[e]) => link[e].sendbuf.kind = "data")

PromptNext ==
    /\ Next
    /\ \A e \in Ends : ~link[e].ping_due /\ link'[e].ping_due => Quiet(e)

\* The reactor runs what is scheduled and what epoll reports, the timer fires
\* and time passes.  Spurious write events and assignments need not happen.
Fairness ==
    \A e \in Ends :
        /\ WF_vars(OnSendReady(e))
        /\ WF_vars(OnSendReadyEdge(e))
        /\ WF_vars(ScheduledAux(e))
        /\ WF_vars(ScheduledWrite(e))
        /\ WF_vars(ScheduledRead(e))
        /\ WF_vars(OnRecvReady(e))
        /\ WF_vars(link[e].blocked /\ EpollWrite(e))
        /\ WF_vars(EpollRead(e))
        /\ WF_vars(TimerCallback(e))
        /\ WF_vars(Quiet(e) /\ PingInterval(e))

FairSpec == Init /\ [][PromptNext]_vars /\ Fairness

-----------------------------------------------------------------------------
(* Properties.                                                             *)

\* A packet leaves in_flight_queue only when the peer's Multilink has taken it
\* out of the link: a ping behind a data packet is answered only after that
\* packet was received.  So get_packets_to_retransmit returns every packet
\* that may be lost when the link is destroyed, at whatever moment.
NoLoss ==
    \A e \in Ends : \A seq \in 1 .. link[e].last_seq_sent :
        seq \in Elements(delivered[Peer(e)]) \/ seq \in Elements(link[e].in_flight)

\* A link by itself neither reorders nor repeats packets.
LinkInOrder ==
    \A e \in Ends : delivered[e] = [i \in 1 .. Len(delivered[e]) |-> i]

\* Acknowledgements never go back, although the single pong slot may be
\* overwritten by a later ping before it was answered.
AckMonotonic == [][\A e \in Ends : link'[e].ack >= link[e].ack]_vars

\* No lost wakeup: a packet in the send buffer, in the receive buffer or in
\* the socket, and a packet that waits for recv(), each has a callback that
\* is scheduled or that epoll will make.
NoLostWakeup ==
    \A e \in Ends :
        LET l == link[e]
            due(f) == f \in l.sched
        IN  ~l.timed_out =>
              /\ InUse(l) => due("write") \/ l.blocked
              /\ l.edge <=> ~due("edge")
              /\ l.pong_request # None => due("aux") \/ due("edge") \/ InUse(l)
              /\ l.waiting # None => due("recv")
              /\ l.waiting = None /\ l.recvbuf \o wire[Peer(e)] # <<>> => due("read") \/ l.in_event

Broken(e) == \E x \in Ends : link[x].timed_out

\* Every data packet handed to a link is eventually acknowledged, unless an
\* end gives the link up, or keeps it idle to avoid bufferbloat.
EventuallyAcked ==
    \A e \in Ends : \A n \in 1 .. MaxData[e] :
        link[e].last_seq_sent + todo[e] >= n ~>
            link[e].ack >= n \/ Broken(e) \/ link[e].bloat

\* Packets on their way from e to the Link of its peer, the oldest first.
Stream(e) ==
    link[Peer(e)].recvbuf \o wire[e] \o (IF InUse(link[e]) THEN <<link[e].sendbuf>> ELSE <<>>)

\* How many data packets of e the Link of its peer has parsed.
Parsed(e) == Len(delivered[Peer(e)]) + (IF link[Peer(e)].waiting = None THEN 0 ELSE 1)

IsData(p) == p.kind = "data"
IsPong(p) == p.kind = "pong"

\* The number that may follow m in a packet p that is no pong: a data packet
\* has a new number, a ping repeats the last one.
Follows(p, m) == IF IsData(p) THEN p.seq > m ELSE p.seq >= m

HasData(s, q) == \E j \in 1 .. Len(s) : IsData(s[j]) /\ s[j].seq = q

\* s goes on with the data packets after number n: nothing is left out before
\* any of its data packets and pings, and nothing is repeated.
Continues(s, n) ==
    \A i \in 1 .. Len(s) : ~IsPong(s[i]) =>
        /\ Follows(s[i], n)
        /\ \A j \in 1 .. i - 1 : ~IsPong(s[j]) => Follows(s[i], s[j].seq)
        /\ \A q \in n + 1 .. s[i].seq : \E j \in 1 .. i : IsData(s[j]) /\ s[j].seq = q

\* What is on its way from e to a Link that still reads.
StreamInv ==
    \A e \in Ends :
        LET n == Parsed(e)
            last == link[e].last_seq_sent
            s == Stream(e)
            reader == link[Peer(e)]
        IN  /\ n <= last
            /\ reader.waiting # None => reader.waiting = n
            /\ ~reader.removed =>
                  /\ Continues(s, n)
                  /\ \A i \in 1 .. Len(s) : ~IsPong(s[i]) => s[i].seq <= last
                  /\ ~link[e].removed => \A q \in n + 1 .. last : HasData(s, q)

\* What e has been told, and is going to be told by the pongs on their way, is
\* true, and pongs do not overtake each other.
AckInv ==
    \A e \in Ends :
        LET l == link[e]
            got == Len(delivered[Peer(e)])
            s == Stream(Peer(e))
            request == link[Peer(e)].pong_request
        IN  /\ l.ack <= got
            /\ l.in_flight = [i \in 1 .. l.last_seq_sent - l.ack |-> l.ack + i]
            /\ \A i \in 1 .. Len(s) : IsPong(s[i]) =>
                  /\ s[i].seq \in l.ack .. got
                  /\ \A j \in 1 .. i - 1 : IsPong(s[j]) => s[j].seq <= s[i].seq
                  /\ request # None => s[i].seq <= request
            /\ request # None => request \in l.ack .. got

\* The inductive invariant behind LinkInOrder, NoLoss and AckMonotonic.
LinkInv == TypeOK /\ LinkInOrder /\ StreamInv /\ AckInv

=============================================================================
