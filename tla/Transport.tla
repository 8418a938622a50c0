------------------------------ MODULE Transport ------------------------------
(***************************************************************************)
(* Two Transport objects (multilink/transport.cpp), one at each end of a   *)
(* Multilink, multiplexing byte streams called channels.  The client end   *)
(* numbers the connections it accepts (transport_targets.cpp); the server  *)
(* end creates a channel when the first packet that names it arrives and   *)
(* connects to a target asynchronously.                                    *)
(*                                                                         *)
(* The network is what multilink.h promises: "all packets eventually       *)
(* arrive", "may arrive reordered", "may arrive duplicated".  A packet     *)
(* handed to it waits in the bounded Multilink queue and is then           *)
(* receivable any number of times, at any time.                            *)
(*                                                                         *)
(* Each action is one run of a handler to completion: the reactor is       *)
(* single threaded, so the loops inside a handler are not interrupted.     *)
(***************************************************************************)
EXTENDS Integers, Sequences, FiniteSets

CONSTANTS
    Data,                \* what a target's recv() can return
    Empty,               \* an AllocBuffer that holds nothing
    MaxChannels,         \* bound: connections accepted by the client
    MaxChunks,           \* bound: chunks written by the application of an end
    MAX_BUFFER_PACKETS,  \* transport.cpp:7
    QUEUE_SIZE           \* multilink.cpp:6

Ends == {"client", "server"}

Peer(e) == IF e = "client" THEN "server" ELSE "client"

ASSUME ConstantsAssumption ==
    /\ Empty \notin Data
    /\ MaxChannels \in Nat
    /\ MaxChunks \in [Ends -> Nat]
    /\ MAX_BUFFER_PACKETS \in Nat \ {0}
    /\ QUEUE_SIZE \in Nat \ {0}

\* Channel ids: next_id is a counter that starts at 0.
Channels == 0 .. MaxChannels - 1

VARIABLES
    next_id,               \* next channel id of the listening client
    target,                \* target[e][c]: no child yet, future pending, open, closed
    target_ready,          \* target[e][c]->is_send_ready()
    source,                \* all chunks the application at e wrote to channel c
    readable,              \* an edge-triggered read event of the target is due
    last_sent_packet,      \* chunks of source already read and sent
    buffer,                \* reorder buffer of the child
    last_forwarded_packet, \* sequence number of the first buffer slot
    forwarded,             \* history: what was given to target->send
    special_packet_queue,  \* channels whose CLOSE packet is still to be sent
    queued,                \* packets in the Multilink queue of e
    net,                   \* packets Multilink has put on some link
    failed                 \* the assertion in place_packet has failed at e

sendVars == <<source, readable, last_sent_packet>>
recvVars == <<buffer, last_forwarded_packet, forwarded>>
vars == <<next_id, target, target_ready, sendVars, recvVars,
          special_packet_queue, queued, net, failed>>

DataPacket == [kind : {"data"}, id : Channels, seq : Nat, data : Data]
ClosePacket == [kind : {"close"}, id : Channels]
Packet == DataPacket \cup ClosePacket

PerChannel(S) == [Ends -> [Channels -> S]]

\* Every variable has its type.
TypeOK ==
    /\ next_id \in 0 .. MaxChannels
    /\ target \in PerChannel({"none", "pending", "open", "closed"})
    /\ target_ready \in PerChannel(BOOLEAN)
    /\ source \in PerChannel(Seq(Data))
    /\ readable \in PerChannel(BOOLEAN)
    /\ last_sent_packet \in PerChannel(Nat)
    /\ buffer \in PerChannel(Seq(Data \cup {Empty}))
    /\ last_forwarded_packet \in PerChannel(Nat)
    /\ forwarded \in PerChannel(Seq(Data))
    /\ special_packet_queue \in [Ends -> Seq(Channels)]
    /\ queued \in [Ends -> SUBSET Packet]
    /\ \A e \in Ends : IsFiniteSet(queued[e])
    /\ net \in [Ends -> SUBSET Packet]
    /\ failed \in [Ends -> BOOLEAN]

All(v) == [e \in Ends |-> [c \in Channels |-> v]]

Init ==
    /\ next_id = 0
    /\ target = All("none")
    /\ target_ready = All(TRUE)
    /\ source = All(<<>>)
    /\ readable = All(FALSE)
    /\ last_sent_packet = All(0)
    /\ buffer = All(<<>>)
    /\ last_forwarded_packet = All(0)
    /\ forwarded = All(<<>>)
    /\ special_packet_queue = [e \in Ends |-> <<>>]
    /\ queued = [e \in Ends |-> {}]
    /\ net = [e \in Ends |-> {}]
    /\ failed = [e \in Ends |-> FALSE]

-----------------------------------------------------------------------------
(* The network as Transport sees it. *)

\* How many packets Multilink takes before is_send_ready() turns false.
Room(e) ==
    IF Cardinality(queued[e]) < QUEUE_SIZE THEN QUEUE_SIZE - Cardinality(queued[e]) ELSE 0

CloseMsg(c) == [kind |-> "close", id |-> c]

\* Packet number i of channel c (numbers start at 0).
DataMsg(e, c, i) == [kind |-> "data", id |-> c, seq |-> i, data |-> source[e][c][i + 1]]

Lesser(m, n) == IF m <= n THEN m ELSE n

-----------------------------------------------------------------------------
(* Sending: chunks read from the targets become packets.                   *)

\* Numbers of the chunks that target->recv() still has for channel c.
Unread(e, c) ==
    IF target[e][c] = "open" THEN last_sent_packet[e][c] .. Len(source[e][c]) - 1 ELSE {}

\* Packets number from .. from + n - 1 of channel c.
Chunks(e, c, from, n) == {DataMsg(e, c, i) : i \in from .. from + n - 1}

\* target_recv_ready: read and send while the network is ready and there is
\* something to read.
TargetRecvReady(e, c) ==
    LET n == Lesser(Room(e), Cardinality(Unread(e, c)))
    IN  /\ ~failed[e]
        /\ target[e][c] = "open"
        /\ readable[e][c]
        /\ readable' = [readable EXCEPT ![e][c] = FALSE]
        /\ last_sent_packet' = [last_sent_packet EXCEPT ![e][c] = @ + n]
        /\ queued' = [queued EXCEPT ![e] = @ \cup Chunks(e, c, last_sent_packet[e][c], n)]
        /\ UNCHANGED <<next_id, target, target_ready, source, recvVars,
                       special_packet_queue, net, failed>>

\* send_special_packet on queue sq: the first CLOSE, if the network is ready.
SpecialSent(e, sq) ==
    IF Room(e) > 0 /\ sq # <<>> THEN {CloseMsg(Head(sq))} ELSE {}

SpecialLeft(e, sq) ==
    IF Room(e) > 0 /\ sq # <<>> THEN Tail(sq) ELSE sq

\* network_send_ready sends queued CLOSE packets before any data.
SpecialsFirst(e) == Lesser(Room(e), Len(special_packet_queue[e]))

\* Faulty Rounds: no child is visited.
RoundsWithoutVisits(e, room) == {[c \in Channels |-> 0]}

\* Then it visits the children in rounds, one packet from each, until the
\* network is full or a whole round finds nothing: take[c] packets of channel
\* c in all, no channel more than a round ahead of one that has more to read.
Rounds(e, room) ==
    {take \in [Channels -> 0 .. room] :
        LET unread(c) == Cardinality(Unread(e, c))
            total == Cardinality({x \in Channels \X (1 .. room) : x[2] <= take[x[1]]})
        IN  /\ \A c \in Channels : take[c] <= unread(c)
            /\ total <= room
            /\ total < room => \A c \in Channels : take[c] = unread(c)
            /\ \A c, d \in Channels : take[c] > take[d] + 1 => take[d] = unread(d)}

\* Multilink calls on_send_ready whenever its queue is below three quarters
\* (multilink.cpp:93); the call is without effect when nothing is to be sent.
NetworkSendReady(e) ==
    LET sq == special_packet_queue[e]
        sent == last_sent_packet[e]
        n == SpecialsFirst(e)
    IN  /\ ~failed[e]
        /\ Cardinality(queued[e]) < (QUEUE_SIZE * 3) \div 4
        /\ sq # <<>> \/ \E c \in Channels : Unread(e, c) # {}
        /\ special_packet_queue' =
             [special_packet_queue EXCEPT ![e] = SubSeq(sq, n + 1, Len(sq))]
        /\ \E take \in Rounds(e, Room(e) - n) :
             /\ queued' = [queued EXCEPT ![e] =
                    @ \cup {CloseMsg(sq[i]) : i \in 1 .. n}
                      \cup UNION {Chunks(e, c, sent[c], take[c]) : c \in Channels}]
             /\ last_sent_packet' =
                  [last_sent_packet EXCEPT ![e] = [c \in Channels |-> sent[c] + take[c]]]
        /\ UNCHANGED <<next_id, target, target_ready, source, readable, recvVars, net, failed>>

-----------------------------------------------------------------------------
(* Receiving: packets are put in order and forwarded to the target.        *)

\* Faulty Forwarding: one packet is forwarded, without a loop.
ForwardingOnce(b, open, ready) ==
    {o \in [n : 0 .. Lesser(1, Len(b)), ready : BOOLEAN] :
        /\ \A i \in 1 .. o.n : b[i] # Empty
        /\ o.n > 0 => open /\ ready
        /\ o.n = 0 => o.ready = ready /\ (open /\ ready => b = <<>> \/ b[1] = Empty)}

\* What the loop of target_send_ready may do with buffer b: forward n
\* packets from its front and leave the target ready or not.  It stops at a
\* hole or when the target is full, never earlier.
Forwarding(b, open, ready) ==
    {o \in [n : 0 .. Len(b), ready : BOOLEAN] :
        /\ \A i \in 1 .. o.n : b[i] # Empty
        /\ o.n > 0 => open /\ ready
        /\ o.n = 0 => o.ready = ready
        /\ open /\ o.ready => o.n = Len(b) \/ b[o.n + 1] = Empty}

\* target_send_ready at child c of e, whose buffer is b.
Forward(e, c, b, open, ready) ==
    \E o \in Forwarding(b, open, ready) :
        /\ buffer' = [buffer EXCEPT ![e][c] = SubSeq(b, o.n + 1, Len(b))]
        /\ forwarded' = [forwarded EXCEPT ![e][c] = @ \o SubSeq(b, 1, o.n)]
        /\ last_forwarded_packet' = [last_forwarded_packet EXCEPT ![e][c] = @ + o.n]
        /\ target_ready' = [target_ready EXCEPT ![e][c] = o.ready]

\* The target has room again and calls on_send_ready.
TargetSendReady(e, c) ==
    /\ ~failed[e]
    /\ target[e][c] = "open"
    /\ ~target_ready[e][c]
    /\ Forward(e, c, buffer[e][c], TRUE, TRUE)
    /\ UNCHANGED <<next_id, target, sendVars, special_packet_queue, queued, net, failed>>

\* get_child_stream: a child is created for an unknown id.  The server's
\* creator starts connecting; the client's fails (unknown_stream_target_creator),
\* so the new child is closed and a CLOSE packet is due.
ChildTarget(e, c) ==
    IF target[e][c] # "none" THEN target[e][c]
    ELSE IF e = "server" THEN "pending" ELSE "closed"

UnknownStream(e, c) == target[e][c] = "none" /\ e = "client"

CreateChild(e, c, newTarget) ==
    LET sq == IF UnknownStream(e, c) THEN Append(special_packet_queue[e], c)
              ELSE special_packet_queue[e]
    IN  /\ target' = [target EXCEPT ![e][c] = newTarget]
        /\ special_packet_queue' = [special_packet_queue EXCEPT ![e] =
               IF UnknownStream(e, c) THEN SpecialLeft(e, sq) ELSE sq]
        /\ queued' = [queued EXCEPT ![e] =
               IF UnknownStream(e, c) THEN @ \cup SpecialSent(e, sq) ELSE @]

Larger(m, n) == IF m >= n THEN m ELSE n

\* The buffer after resize and assignment of slot rel (counted from 0).
Placed(b, rel, d) ==
    [i \in 1 .. Larger(Len(b), rel + 1) |->
        IF i = rel + 1 THEN d ELSE IF i <= Len(b) THEN b[i] ELSE Empty]

\* Faulty RelSeq: computed without a sign check, an old packet gets slot 0.
RelSeqClamped(e, p) == Larger(0, p.seq - last_forwarded_packet[e][p.id])

\* Faulty RelSeq: unsigned, an old packet seems to be far ahead.
RelSeqUnsigned(e, p) == (p.seq - last_forwarded_packet[e][p.id]) % 65536

\* Slot of packet p in the buffer: negative if it was already forwarded.
RelSeq(e, p) == p.seq - last_forwarded_packet[e][p.id]

\* place_packet.  Old packets and packets whose slot is taken are dropped;
\* a packet too far ahead fails the assertion.
PlacePacket(e, p) ==
    LET c == p.id
        b == buffer[e][c]
        rel == RelSeq(e, p)
        open == ChildTarget(e, c) = "open"
    IN  /\ ~failed[e]
        /\ CreateChild(e, c, ChildTarget(e, c))
        /\ failed' = [failed EXCEPT ![e] = rel >= MAX_BUFFER_PACKETS]
        /\ \/ /\ rel < 0 \/ rel >= MAX_BUFFER_PACKETS
              /\ UNCHANGED <<recvVars, target_ready>>
           \/ /\ rel \in 0 .. MAX_BUFFER_PACKETS - 1
              /\ rel < Len(b)
              /\ b[rel + 1] # Empty
              /\ UNCHANGED <<recvVars, target_ready>>
           \/ /\ rel = 0
              /\ b # <<>> => b[1] = Empty
              /\ Forward(e, c, Placed(b, rel, p.data), open, target_ready[e][c])
           \/ /\ rel \in 1 .. MAX_BUFFER_PACKETS - 1
              /\ rel < Len(b) => b[rel + 1] = Empty
              /\ buffer' = [buffer EXCEPT ![e][c] = Placed(b, rel, p.data)]
              /\ UNCHANGED <<last_forwarded_packet, forwarded, target_ready>>
        /\ UNCHANGED <<next_id, sendVars, net>>

\* close_channel: only a target that is already there is closed; the CLOSE
\* of a channel whose target is still connecting has no effect on it.
CloseChannel(e, p) ==
    LET t == ChildTarget(e, p.id)
    IN  /\ ~failed[e]
        /\ CreateChild(e, p.id, IF t = "open" THEN "closed" ELSE t)
        /\ UNCHANGED <<next_id, target_ready, sendVars, recvVars, net, failed>>

\* network_recv_ready: one iteration for one packet; the loop is a sequence
\* of such receptions.
NetworkRecv(e, p) ==
    \/ p.kind = "data" /\ PlacePacket(e, p)
    \/ p.kind = "close" /\ CloseChannel(e, p)

-----------------------------------------------------------------------------
(* Targets come and go.                                                    *)

\* The listening socket accepts a connection: add_target with an immediate
\* future.  Nothing is buffered or readable yet.
AddTarget ==
    /\ ~failed["client"]
    /\ next_id < MaxChannels
    /\ next_id' = next_id + 1
    /\ target' = [target EXCEPT !["client"][next_id] = "open"]
    /\ UNCHANGED <<target_ready, sendVars, recvVars, special_packet_queue, queued, net, failed>>

\* The future of a connecting target succeeds.
TargetConnected(e, c) ==
    /\ ~failed[e]
    /\ target[e][c] = "pending"
    /\ target' = [target EXCEPT ![e][c] = "open"]
    /\ Forward(e, c, buffer[e][c], TRUE, target_ready[e][c])
    /\ UNCHANGED <<next_id, sendVars, special_packet_queue, queued, net, failed>>

\* Faulty TargetError: the child is erased together with its target.
TargetErrorErases(e, c) ==
    LET sq == Append(special_packet_queue[e], c)
    IN  /\ ~failed[e]
        /\ target[e][c] \in {"pending", "open"}
        /\ target' = [target EXCEPT ![e][c] = "none"]
        /\ special_packet_queue' = [special_packet_queue EXCEPT ![e] = SpecialLeft(e, sq)]
        /\ queued' = [queued EXCEPT ![e] = @ \cup SpecialSent(e, sq)]
        /\ UNCHANGED <<next_id, target_ready, sendVars, recvVars, net, failed>>

\* target_error: the future fails, or the open target reports an error or
\* the end of its stream (once: FD::error_reported).
TargetError(e, c) ==
    LET sq == Append(special_packet_queue[e], c)
    IN  /\ ~failed[e]
        /\ target[e][c] \in {"pending", "open"}
        /\ target' = [target EXCEPT ![e][c] = "closed"]
        /\ special_packet_queue' = [special_packet_queue EXCEPT ![e] = SpecialLeft(e, sq)]
        /\ queued' = [queued EXCEPT ![e] = @ \cup SpecialSent(e, sq)]
        /\ UNCHANGED <<next_id, target_ready, sendVars, recvVars, net, failed>>

-----------------------------------------------------------------------------
(* The environment.                                                        *)

\* The application at the other side of the target socket writes a chunk.
AppWrite(e, c, d) ==
    /\ ~failed[e]
    /\ target[e][c] = "open"
    /\ Len(source[e][c]) < MaxChunks[e]
    /\ source' = [source EXCEPT ![e][c] = Append(@, d)]
    /\ readable' = [readable EXCEPT ![e][c] = TRUE]
    /\ UNCHANGED <<next_id, target, target_ready, last_sent_packet, recvVars,
                   special_packet_queue, queued, net, failed>>

\* Multilink puts a queued packet on one of its links.
Transmit(e, p) ==
    /\ ~failed[e]
    /\ p \in queued[e]
    /\ queued' = [queued EXCEPT ![e] = @ \ {p}]
    /\ net' = [net EXCEPT ![e] = @ \cup {p}]
    /\ UNCHANGED <<next_id, target, target_ready, sendVars, recvVars,
                   special_packet_queue, failed>>

Next ==
    \/ AddTarget
    \/ \E e \in Ends : NetworkSendReady(e)
    \/ \E e \in Ends, c \in Channels :
          \/ TargetRecvReady(e, c)
          \/ TargetSendReady(e, c)
          \/ TargetConnected(e, c)
          \/ TargetError(e, c)
          \/ \E d \in Data : AppWrite(e, c, d)
    \/ \E e \in Ends : \E p \in queued[e] : Transmit(e, p)
    \/ \E e \in Ends : \E p \in net[Peer(e)] : NetworkRecv(e, p)

\* Every handler that is due runs: the reactor serves its events in turn,
\* Multilink delivers every packet, a target drains and a connect resolves.
Fairness ==
    /\ \A e \in Ends :
         /\ WF_vars(NetworkSendReady(e))
         /\ WF_vars(\E p \in queued[e] : Transmit(e, p))
    /\ \A e \in Ends, c \in Channels :
         /\ WF_vars(TargetRecvReady(e, c))
         /\ WF_vars(TargetSendReady(e, c))
         /\ WF_vars(TargetConnected(e, c) \/ (target[e][c] = "pending" /\ TargetError(e, c)))
    /\ \A e \in Ends, c \in Channels : \A i \in 0 .. MaxChunks[Peer(e)] - 1 :
         WF_vars(\E p \in net[Peer(e)] :
                    p.kind = "data" /\ p.id = c /\ p.seq = i /\ PlacePacket(e, p))
    /\ \A e \in Ends, c \in Channels :
         WF_vars(CloseMsg(c) \in net[Peer(e)] /\ CloseChannel(e, CloseMsg(c)))

Spec == Init /\ [][Next]_vars

FairSpec == Spec /\ Fairness

-----------------------------------------------------------------------------
(* Properties.                                                             *)

Prefix(s, t) == Len(s) <= Len(t) /\ \A i \in 1 .. Len(s) : s[i] = t[i]

\* Each end gives its target the chunks that the application at the other
\* end wrote to the channel, in order, none twice and none skipped, although
\* the network reorders and repeats packets (place_packet, target_send_ready).
InOrder ==
    \A e \in Ends, c \in Channels : Prefix(forwarded[e][c], source[Peer(e)][c])

\* The parts of the inductive invariant behind InOrder: what was sent, what
\* is in the network, what waits in the reorder buffers and what was
\* forwarded all agree with the chunks that were written.
SentInv ==
    \A e \in Ends, c \in Channels : last_sent_packet[e][c] <= Len(source[e][c])

PacketInv ==
    \A e \in Ends : \A p \in queued[e] \cup net[e] :
        p.kind = "data" => /\ p.seq < last_sent_packet[e][p.id]
                           /\ p.data = source[e][p.id][p.seq + 1]

BufferInv ==
    \A e \in Ends, c \in Channels : \A i \in 1 .. Len(buffer[e][c]) :
        buffer[e][c][i] # Empty =>
            /\ last_forwarded_packet[e][c] + i <= Len(source[Peer(e)][c])
            /\ buffer[e][c][i] = source[Peer(e)][c][last_forwarded_packet[e][c] + i]

CountInv ==
    \A e \in Ends, c \in Channels : last_forwarded_packet[e][c] = Len(forwarded[e][c])

\* Every packet that is queued, in the network, in a reorder buffer or
\* forwarded carries the chunk that was written at its place in the channel.
OrderInv == SentInv /\ PacketInv /\ BufferInv /\ CountInv /\ InOrder

\* No stall: when no handler runs, a packet that is next in order does not
\* wait while its target could take it.  Only place_packet at slot 0 and the
\* loop of target_send_ready see to that; nothing polls the buffer.
NoStall ==
    \A e \in Ends, c \in Channels :
        target[e][c] = "open" /\ target_ready[e][c] /\ buffer[e][c] # <<>>
            => buffer[e][c][1] = Empty

\* The client never meets a channel it does not know, so its creator's
\* "use of unknown stream" (transport_targets.cpp:32) is not reached.
NoUnknownStream ==
    \A p \in queued["server"] \cup net["server"] : target["client"][p.id] # "none"

\* Every chunk written is eventually forwarded at the other end unless the
\* channel is closed at one end or an end has failed: no wakeup is lost
\* between the targets' edges and the network's on_send_ready.
EventuallyForwarded ==
    \A e \in Ends, c \in Channels : \A n \in 1 .. MaxChunks[e] :
        Len(source[e][c]) >= n ~>
            \/ Len(forwarded[Peer(e)][c]) >= n
            \/ \E x \in Ends : target[x][c] = "closed" \/ failed[x]

\* The pair implements ordered exactly-once channels.
OC == INSTANCE OrderedChannels WITH
    Flows <- Ends \X Channels,
    written <- [f \in Ends \X Channels |-> source[f[1]][f[2]]],
    delivered <- [f \in Ends \X Channels |-> forwarded[Peer(f[1])][f[2]]],
    shut <- {f \in Ends \X Channels : target[Peer(f[1])][f[2]] = "closed"}

ImplementsOrderedChannels == OC!OCSpec

\* A window of MAX_BUFFER_PACKETS chunks would be enough: the assertion in
\* place_packet fails only if the peer has sent more chunks that the target has
\* not been given than the reorder buffer has slots.  Either the target is slow,
\* or it is ready and later packets have overtaken the chunk it is to get next
\* (NoStall).  Old and repeated packets never fail it.
WindowSuffices ==
    \A e \in Ends : failed[e] =>
        \E c \in Channels :
            last_sent_packet[Peer(e)][c] > last_forwarded_packet[e][c] + MAX_BUFFER_PACKETS

=============================================================================
