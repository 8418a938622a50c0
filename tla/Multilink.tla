------------------------------ MODULE Multilink ------------------------------
(***************************************************************************)
(* One direction of a Multilink (multilink/multilink.cpp): the sending     *)
(* object with its global queue, the packets assigned to each link, and    *)
(* the links that carry them to the peer, which may stall, time out and    *)
(* be removed, after which what they had not acknowledged is queued again. *)
(*                                                                         *)
(* A link is here what Multilink sees of it; module Link has the details.  *)
(* In particular an acknowledged packet is one the peer's Multilink has    *)
(* received (Link!NoLoss).                                                 *)
(*                                                                         *)
(* The reactor is single threaded: a handler runs to its end before        *)
(* another starts.  The loop of link_send_ready is taken apart into its    *)
(* iterations; running holds the links it is still to be called for, and   *)
(* no other handler of Multilink starts while it is not empty.             *)
(***************************************************************************)
EXTENDS Integers, Sequences, FiniteSets

CONSTANTS
    Links,       \* the links that may be added, each once
    MaxPackets,  \* bound: packets given to send_with_offset
    QUEUE_SIZE,  \* multilink.cpp:6
    Mortal,      \* links whose connection may break
    Slow,        \* links that may time out although their connection works
    Bloated      \* links that may see a round trip time above the high mark

ASSUME MultilinkAssumption ==
    /\ IsFiniteSet(Links)
    /\ MaxPackets \in Nat
    /\ QUEUE_SIZE \in Nat \ {0}
    /\ Mortal \subseteq Links
    /\ Slow \subseteq Links
    /\ Bloated \subseteq Links

\* Packets are numbered in the order they are given to send_with_offset.
Packets == 1 .. MaxPackets

VARIABLES
    queue,      \* packets not assigned to a link
    accepted,   \* history: how many packets send_with_offset has taken
    status,     \* "absent", "up", "timed_out" or "removed" (destroyed)
    assigned,   \* assigned_packets[link]
    in_flight,  \* in_flight_queue of the link
    sendbuf,    \* what the send buffer of the link holds: nothing, the last packet in flight, or a ping or pong
    bloat,      \* bufferbloat_avoidance of the link
    broken,     \* links whose connection is broken
    wire,       \* packets written to the link and not yet received by the peer
    received,   \* history: packets that the peer's recv() took from the link
    scheduled,  \* callbacks in Reactor::scheduled_functions
    running,    \* links for which the current handler still has to run link_send_ready
    crashed     \* a callback of a destroyed link was run

linkVars == <<status, assigned, in_flight, sendbuf, bloat>>
netVars == <<broken, wire, received>>
vars == <<queue, accepted, linkVars, netVars, scheduled, running, crashed>>

\* some_link_send_ready, and for a link its on_send_ready_edge_fn and
\* link_send_ready itself.
Some == <<"some">>
Edge(l) == <<"edge", l>>
Ready(l) == <<"ready", l>>
Callbacks == {Some} \cup {Edge(l) : l \in Links} \cup {Ready(l) : l \in Links}

\* Every variable has its type.
TypeOK ==
    /\ queue \in Seq(Packets)
    /\ accepted \in 0 .. MaxPackets
    /\ status \in [Links -> {"absent", "up", "timed_out", "removed"}]
    /\ assigned \in [Links -> Seq(Packets)]
    /\ in_flight \in [Links -> Seq(Packets)]
    /\ sendbuf \in [Links -> {"empty", "data", "aux"}]
    /\ bloat \in [Links -> BOOLEAN]
    /\ broken \subseteq Links
    /\ wire \in [Links -> Seq(Packets)]
    /\ received \in [Links -> SUBSET Packets]
    /\ scheduled \subseteq Callbacks
    /\ running \in Seq(Links)
    /\ crashed \in BOOLEAN

Init ==
    /\ queue = <<>>
    /\ accepted = 0
    /\ status = [l \in Links |-> "absent"]
    /\ assigned = [l \in Links |-> <<>>]
    /\ in_flight = [l \in Links |-> <<>>]
    /\ sendbuf = [l \in Links |-> "empty"]
    /\ bloat = [l \in Links |-> FALSE]
    /\ broken = {}
    /\ wire = [l \in Links |-> <<>>]
    /\ received = [l \in Links |-> {}]
    /\ scheduled = {}
    /\ running = <<>>
    /\ crashed = FALSE

\* The vector links of the Multilink; a link that timed out is in it until
\* link_send_ready removes it.
Present == {l \in Links : status[l] \in {"up", "timed_out"}}

\* No handler of the Multilink is running.
Idle == running = <<>> /\ ~crashed

-----------------------------------------------------------------------------
(* Multilink.                                                              *)

AddLink(l) ==
    /\ Idle /\ status[l] = "absent"
    /\ status' = [status EXCEPT ![l] = "up"]
    /\ scheduled' = scheduled \cup {Ready(l)}
    /\ UNCHANGED <<queue, accepted, assigned, in_flight, sendbuf, bloat, netVars, running, crashed>>

\* The next n packets.
Fresh(n) == [i \in 1 .. n |-> accepted + i]

\* What send_with_offset schedules when it is called n times.
Wakeup(n) == IF queue = <<>> /\ n > 0 THEN {Some} ELSE {}

\* Packets that is_send_ready() lets the Transport send now.
Room ==
    {n \in 0 .. MaxPackets - accepted : Len(queue) + n <= QUEUE_SIZE}

\* send_with_offset, called by the Transport after is_send_ready().
SendWithOffset ==
    /\ Idle /\ 1 \in Room
    /\ queue' = queue \o Fresh(1)
    /\ accepted' = accepted + 1
    /\ scheduled' = scheduled \cup Wakeup(1)
    /\ UNCHANGED <<linkVars, netVars, running, crashed>>

\* Faulty RemoveLink: packets that are assigned but not sent are dropped.
RemoveLinkDrops(l) ==
    /\ queue' = queue \o in_flight[l]
    /\ assigned' = [assigned EXCEPT ![l] = <<>>]
    /\ in_flight' = [in_flight EXCEPT ![l] = <<>>]
    /\ status' = [status EXCEPT ![l] = "removed"]
    /\ scheduled' = scheduled \cup {Some}
    /\ running' = Tail(running)
    /\ UNCHANGED <<accepted, sendbuf, bloat, netVars, crashed>>

\* Faulty RemoveLink: assigned_packets keeps the entry of the link.
RemoveLinkKeeps(l) ==
    /\ queue' = queue \o in_flight[l] \o assigned[l]
    /\ in_flight' = [in_flight EXCEPT ![l] = <<>>]
    /\ status' = [status EXCEPT ![l] = "removed"]
    /\ scheduled' = scheduled \cup {Some}
    /\ running' = Tail(running)
    /\ UNCHANGED <<accepted, assigned, sendbuf, bloat, netVars, crashed>>

\* link_send_ready for a link that timed out: its packets return to the queue
\* and it is destroyed.  Callbacks that refer to it stay scheduled.
RemoveLink(l) ==
    /\ queue' = queue \o in_flight[l] \o assigned[l]
    /\ assigned' = [assigned EXCEPT ![l] = <<>>]
    /\ in_flight' = [in_flight EXCEPT ![l] = <<>>]
    /\ status' = [status EXCEPT ![l] = "removed"]
    /\ scheduled' = scheduled \cup {Some}
    /\ running' = Tail(running)
    /\ UNCHANGED <<accepted, sendbuf, bloat, netVars, crashed>>

\* The Transport is asked for packets when the queue is not too full; how
\* many it has is its business.
Asked == IF Len(queue) < (QUEUE_SIZE * 3) \div 4 THEN Room ELSE {0}

\* How many packets assign_links_until leaves in the queue q.
DrainTo(q) == IF Len(q) < (QUEUE_SIZE * 2) \div 3 THEN 0 ELSE Len(q) \div 2

\* assign_links_until on queue q gives packet i to link owner[i]; the choice
\* depends on measured times and is left open.  Nothing is assigned when the
\* link that asks has packets, and k packets otherwise.
Assignments(l, q) ==
    LET k == IF assigned[l] = <<>> THEN Len(q) - DrainTo(q) ELSE 0
    IN  [1 .. k -> Present]

\* Faulty Share: every link is given every packet.
ShareAll(q, owner, m) ==
    IF m \in Present THEN SubSeq(q, 1, Cardinality(DOMAIN owner)) ELSE <<>>

\* The packets of the queue q that the assignment gives to link m.
Share(q, owner, m) ==
    LET mine == {i \in DOMAIN owner : owner[i] = m}
        nth(n) == CHOOSE i \in mine : Cardinality({j \in mine : j < i}) = n - 1
    IN  [n \in 1 .. Cardinality(mine) |-> q[nth(n)]]

Rest(q, owner) == SubSeq(q, Cardinality(DOMAIN owner) + 1, Len(q))

\* Does Link::send accept a packet?
Accepts(l) == sendbuf[l] = "empty" /\ ~bloat[l]

\* One iteration of the loop of link_send_ready.
SendIteration(l) ==
    \E n \in Asked :
        LET q == queue \o Fresh(n)
        IN  /\ accepted' = accepted + n
            /\ scheduled' = scheduled \cup Wakeup(n)
            /\ \E owner \in Assignments(l, q) :
                 LET now == [m \in Links |-> assigned[m] \o Share(q, owner, m)]
                 IN  /\ queue' = Rest(q, owner)
                     /\ \/ /\ now[l] # <<>> /\ Accepts(l)
                           /\ assigned' = [now EXCEPT ![l] = Tail(@)]
                           /\ in_flight' = [in_flight EXCEPT ![l] = Append(@, Head(now[l]))]
                           /\ sendbuf' = [sendbuf EXCEPT ![l] = "data"]
                           /\ UNCHANGED running
                        \/ /\ now[l] = <<>> \/ ~Accepts(l)
                           /\ assigned' = now
                           /\ running' = Tail(running)
                           /\ UNCHANGED <<in_flight, sendbuf>>
            /\ UNCHANGED <<status, bloat, netVars, crashed>>

LinkSendReady(l) ==
    /\ running # <<>> /\ l = Head(running)
    /\ \/ status[l] = "timed_out" /\ RemoveLink(l)
       \/ status[l] = "up" /\ SendIteration(l)

\* The orders in which shuffle_links may leave the set S.
Orders(S) ==
    {s \in [1 .. Cardinality(S) -> S] : \A i, j \in DOMAIN s : s[i] = s[j] => i = j}

SomeLinkSendReady ==
    /\ Idle /\ Some \in scheduled
    /\ scheduled' = scheduled \ {Some}
    /\ running' \in Orders(Present)
    /\ UNCHANGED <<queue, accepted, linkVars, netVars, crashed>>

\* on_send_ready that add_link, bufferbloat_check or maybe_retransmit
\* scheduled.  It holds a plain pointer to the link.
ScheduledReady(l) ==
    /\ Idle /\ Ready(l) \in scheduled
    /\ scheduled' = scheduled \ {Ready(l)}
    /\ running' = IF status[l] = "removed" THEN <<>> ELSE <<l>>
    /\ crashed' = (status[l] = "removed")
    /\ UNCHANGED <<queue, accepted, linkVars, netVars>>

\* Faulty ScheduledEdge: on_send_ready is not called.
ScheduledEdgeSilent(l) ==
    /\ Idle /\ Edge(l) \in scheduled
    /\ scheduled' = scheduled \ {Edge(l)}
    /\ crashed' = (status[l] = "removed")
    /\ UNCHANGED <<queue, accepted, linkVars, netVars, running>>

\* on_send_ready_edge_fn: on_send_ready is called unless a ping or pong took
\* the send buffer.
ScheduledEdge(l) ==
    /\ Idle /\ Edge(l) \in scheduled
    /\ scheduled' = scheduled \ {Edge(l)}
    /\ running' = IF status[l] = "removed" \/ sendbuf[l] # "empty" THEN <<>> ELSE <<l>>
    /\ crashed' = (status[l] = "removed")
    /\ UNCHANGED <<queue, accepted, linkVars, netVars>>

-----------------------------------------------------------------------------
(* The links.                                                              *)

\* send_aux finds the send buffer empty and a ping or a pong to send.
SendAux(l) ==
    /\ ~crashed /\ l \in Present /\ sendbuf[l] = "empty"
    /\ sendbuf' = [sendbuf EXCEPT ![l] = "aux"]
    /\ UNCHANGED <<queue, accepted, status, assigned, in_flight, bloat, netVars,
                   scheduled, running, crashed>>

\* transport_write_ready empties the send buffer.
TransportWriteReady(l) ==
    /\ Idle /\ status[l] = "up" /\ l \notin broken /\ sendbuf[l] # "empty"
    /\ sendbuf' = [sendbuf EXCEPT ![l] = "empty"]
    /\ wire' = [wire EXCEPT ![l] =
                   IF sendbuf[l] = "data" THEN Append(@, in_flight[l][Len(in_flight[l])]) ELSE @]
    /\ scheduled' = scheduled \cup {Edge(l)}
    /\ UNCHANGED <<queue, accepted, status, assigned, in_flight, bloat, broken, received,
                   running, crashed>>

\* A pong acknowledges the first packet in flight, which the peer received.
FlushInFlight(l) ==
    /\ Idle /\ status[l] = "up" /\ l \notin broken
    /\ in_flight[l] # <<>> /\ Head(in_flight[l]) \in received[l]
    /\ in_flight' = [in_flight EXCEPT ![l] = Tail(@)]
    /\ UNCHANGED <<queue, accepted, status, assigned, sendbuf, bloat, netVars,
                   scheduled, running, crashed>>

\* bufferbloat_check, when a pong arrives.
BufferbloatCheck(l) ==
    /\ Idle /\ status[l] = "up" /\ l \notin broken /\ l \in Bloated
    /\ bloat' = [bloat EXCEPT ![l] = ~@]
    /\ scheduled' = IF bloat[l] THEN scheduled \cup {Ready(l)} ELSE scheduled
    /\ UNCHANGED <<queue, accepted, status, assigned, in_flight, sendbuf, netVars, running, crashed>>

\* maybe_retransmit: the first packet in flight is too old.  (With bufferbloat
\* avoidance on, the age of a packet that is not there may be looked at.)
MaybeRetransmit(l) ==
    /\ Idle /\ status[l] = "up" /\ l \in broken \cup Slow
    /\ in_flight[l] # <<>> \/ bloat[l]
    /\ status' = [status EXCEPT ![l] = "timed_out"]
    /\ scheduled' = scheduled \cup {Ready(l)}
    /\ UNCHANGED <<queue, accepted, assigned, in_flight, sendbuf, bloat, netVars, running, crashed>>

-----------------------------------------------------------------------------
(* The network and the peer.                                               *)

\* The peer's Multilink takes a packet from the link, even when this end has
\* closed its side.
PeerRecv(l) ==
    /\ wire[l] # <<>>
    /\ received' = [received EXCEPT ![l] = @ \cup {Head(wire[l])}]
    /\ wire' = [wire EXCEPT ![l] = Tail(@)]
    /\ UNCHANGED <<queue, accepted, linkVars, broken, scheduled, running, crashed>>

\* The connection breaks; nothing watches the stream's error callback.
Break(l) ==
    /\ l \in Mortal /\ status[l] = "up" /\ l \notin broken
    /\ broken' = broken \cup {l}
    /\ wire' = [wire EXCEPT ![l] = <<>>]
    /\ UNCHANGED <<queue, accepted, linkVars, received, scheduled, running, crashed>>

Next ==
    \/ SendWithOffset
    \/ SomeLinkSendReady
    \/ \E l \in Links :
          \/ AddLink(l)
          \/ LinkSendReady(l)
          \/ ScheduledReady(l)
          \/ ScheduledEdge(l)
          \/ SendAux(l)
          \/ TransportWriteReady(l)
          \/ FlushInFlight(l)
          \/ BufferbloatCheck(l)
          \/ MaybeRetransmit(l)
          \/ PeerRecv(l)
          \/ Break(l)

Spec == Init /\ [][Next]_vars

\* Pings, pongs and changes of the round trip time are PING_INTERVAL apart,
\* more than it takes to run what is scheduled, so they find nothing due, and
\* it is the data in flight that makes the round trip time rise.
Quiet == Idle /\ scheduled = {}

PromptNext ==
    /\ Next
    /\ \A l \in Links :
          /\ sendbuf'[l] = "aux" => sendbuf[l] = "aux" \/ Quiet
          /\ bloat'[l] # bloat[l] => Quiet /\ (bloat[l] \/ in_flight[l] # <<>>)

\* Loops go on and what is scheduled runs.  Each step of the reactor serves
\* all that epoll and the timers report, so what is enabled again and again
\* between the handlers of other links is served: strong fairness.  A working
\* connection takes data, delivers it, returns pongs, and sees its round trip
\* time fall once it is spared; on a broken one the retransmission timeout
\* passes.  Every link is pinged.
Fairness ==
    /\ WF_vars(SomeLinkSendReady)
    /\ \A l \in Links :
          /\ WF_vars(LinkSendReady(l))
          /\ WF_vars(ScheduledReady(l))
          /\ WF_vars(ScheduledEdge(l))
          /\ SF_vars(Quiet /\ SendAux(l))
          /\ SF_vars(TransportWriteReady(l))
          /\ SF_vars(FlushInFlight(l))
          /\ SF_vars(Quiet /\ bloat[l] /\ BufferbloatCheck(l))
          /\ SF_vars(l \in broken /\ MaybeRetransmit(l))
          /\ WF_vars(PeerRecv(l))

FairSpec == Init /\ [][PromptNext]_vars /\ Fairness

-----------------------------------------------------------------------------
(* Properties.                                                             *)

Elements(s) == {s[i] : i \in DOMAIN s}

\* Packets that went out over the link.
Carried(l) == Elements(wire[l]) \cup received[l]

Arrived(p) == \E l \in Links : p \in received[l]

\* The sender still has the packet: in the queue, or with a link that exists.
Kept(p) ==
    \/ p \in Elements(queue)
    \/ \E l \in Present : p \in Elements(assigned[l]) \cup Elements(in_flight[l])

\* Whenever a link times out and is removed, and wherever its packets were,
\* no packet that has not arrived is forgotten.
NoLoss == \A p \in 1 .. accepted : Arrived(p) \/ Kept(p)

\* The sequences in which the sender holds packets.
Holders == {<<"queue">>} \cup ({"assigned", "in_flight"} \X Links)

Held(h) ==
    CASE h[1] = "queue" -> queue
      [] h[1] = "assigned" -> assigned[h[2]]
      [] h[1] = "in_flight" -> in_flight[h[2]]

\* The sender holds a packet in one place only: what is assigned leaves the
\* queue, what is sent leaves the assigned packets, and what a removed link
\* returns to the queue is gone from the link.
OneHome ==
    \A h, k \in Holders : \A i \in DOMAIN Held(h), j \in DOMAIN Held(k) :
        Held(h)[i] = Held(k)[j] => h = k /\ i = j

\* The peer gets a packet twice only because a link that carried it timed
\* out: assignment and removal hold every packet in one place.
DuplicateMeansTimeout ==
    \A k, l \in Links :
        k # l /\ received[k] \cap received[l] # {} => ~(status[k] = "up" /\ status[l] = "up")

\* A packet waits at a link that is broken, has nothing in flight, and so
\* never times out.
Stranded(p) ==
    \E l \in broken \cap Present : in_flight[l] = <<>> /\ p \in Elements(assigned[l])

Working == \E l \in Links : status[l] = "up" /\ l \notin broken

\* As long as a link works, every packet eventually arrives, whatever other
\* links do, except that it may be stranded, and unless the program crashes.
EventuallyArrives ==
    \A p \in Packets :
        accepted >= p /\ Working ~> Arrived(p) \/ Stranded(p) \/ ~Working \/ crashed

\* What multilink.h:9 says ("all packets eventually arrive"), as long as one
\* link works.
AllArrive ==
    \A p \in Packets : accepted >= p /\ Working ~> Arrived(p) \/ ~Working \/ crashed

\* What the sender has numbered so far, and nothing else, is anywhere.
Numbered ==
    /\ Elements(queue) \subseteq 1 .. accepted
    /\ \A l \in Links :
          /\ Elements(assigned[l]) \cup Elements(in_flight[l]) \subseteq 1 .. accepted
          /\ Carried(l) \subseteq 1 .. accepted
          /\ status[l] = "absent" => Carried(l) = {}

\* A packet that went out over a link that still exists waits nowhere else,
\* and went out over no other such link.
CarriedOnce ==
    \A l \in Present :
        /\ Carried(l) \cap Elements(queue) = {}
        /\ \A m \in Links : Carried(l) \cap Elements(assigned[m]) = {}
        /\ \A m \in Links \ {l} : Carried(l) \cap Elements(in_flight[m]) = {}
        /\ \A m \in Present \ {l} : Carried(l) \cap Carried(m) = {}

\* The packet in the send buffer is the last one in flight, and has not gone
\* out yet: an acknowledgement cannot take it away.
BufferedInFlight ==
    \A l \in Links : status[l] # "removed" /\ sendbuf[l] = "data" =>
        in_flight[l] # <<>> /\ in_flight[l][Len(in_flight[l])] \notin Carried(l)

\* The parts of the inductive invariant behind OneHome, NoLoss and
\* DuplicateMeansTimeout.
MultilinkInv == TypeOK /\ OneHome /\ Numbered /\ CarriedOnce /\ BufferedInFlight

=============================================================================
