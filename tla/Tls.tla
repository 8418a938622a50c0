-------------------------------- MODULE Tls --------------------------------
(***************************************************************************)
(* TlsStream (libreactor/tls.cpp): OpenSSL between memory buffers, over a  *)
(* FreePacketStream, at the two ends of one connection, and the ioutil     *)
(* functions (libreactor/ioutil.cpp) and streams that use it.              *)
(*                                                                         *)
(* Nothing but callbacks moves data: write schedules transport_send_ready, *)
(* read schedules transport_recv_ready, and OpenSSL may need to receive    *)
(* before it can write and leaves bytes to be sent when it reads.          *)
(*                                                                         *)
(* The client writes its welcome and then reads, the server reads and then *)
(* writes; after that both read and write as links do.  OpenSSL is         *)
(* external: a PSK handshake of four flights, then records.  A piece of a  *)
(* record is what fits into one chunk of the FreePacketStream; a flight    *)
(* is one piece, an item of data two.  Functions that the reactor has      *)
(* scheduled are a set, run in any order.                                  *)
(***************************************************************************)
EXTENDS Integers, Sequences, FiniteSetsExt, TLC

CONSTANTS
    MaxItems,        \* bound: items that an end writes
    MAX_BIO_BUFFER,  \* of tls.cpp, in pieces
    SocketSize       \* what a connection holds in one direction, in pieces

Ends == {"client", "server"}
Other(e) == IF e = "client" THEN "server" ELSE "client"

ASSUME TlsAssumption ==
    /\ MaxItems \in [Ends -> Nat \ {0}] /\ MAX_BIO_BUFFER \in Nat \ {0}
    /\ SocketSize \in Nat \ {0}

VARIABLES
    end,        \* end[e]: the TlsStream of end e and those around it
    wire,       \* wire[e]: what e has written to its socket and is not yet read
    keys_match  \* both ends have the same key

vars == <<end, wire, keys_match>>

FLIGHTS == 4

Piece == [type : {"flight", "item", "alert"}, n : Nat, last : BOOLEAN]

Flight(n) == <<[type |-> "flight", n |-> n, last |-> TRUE]>>
Alert == <<[type |-> "alert", n |-> 0, last |-> TRUE]>>
Item(n) == <<[type |-> "item", n |-> n, last |-> FALSE], [type |-> "item", n |-> n, last |-> TRUE]>>

\* Functions that the reactor runs: callbacks of the TlsStream, of its
\* packet_stream, and of its user.
Functions == {"transport_send_ready", "transport_recv_ready", "write_ready",
              "on_write", "on_read", "on_error"}

TlsEnd == [
    flights : 0 .. FLIGHTS,      \* how far the handshake is
    failed : BOOLEAN,            \* OpenSSL reports an error from now on
    bio_in : Seq(Piece),
    record : Seq(Piece),         \* what OpenSSL has read of a record
    bio_out : Seq(Piece),
    sending : Seq(Piece),        \* packet_stream's send_buffer_current
    blocked : BOOLEAN,           \* its last write found the socket full
    event : BOOLEAN,             \* epoll has an edge of the socket
    sched : SUBSET Functions,
    written : Nat,               \* items that the user has written
    got : Nat,                   \* items that the user has read
    reported : BOOLEAN]          \* on_error was called

TypeOK ==
    /\ end \in [Ends -> TlsEnd]
    /\ wire \in [Ends -> Seq(Piece)]
    /\ \A e \in Ends :
         /\ Len(end[e].bio_in) <= MAX_BIO_BUFFER
         /\ Len(end[e].bio_out) <= MAX_BIO_BUFFER + 1
         /\ Len(end[e].sending) <= 1 /\ Len(end[e].record) <= 1
         /\ Len(wire[e]) <= SocketSize
    /\ keys_match \in BOOLEAN

\* TlsStream::create and FreePacketStream::create, and then the first calls:
\* ioutil::write of the client, which leaves its first flight in bio_out, and
\* ioutil::read of the server, which finds nothing.
Init ==
    /\ end = [e \in Ends |-> [
           flights |-> IF e = "client" THEN 1 ELSE 0, failed |-> FALSE,
           bio_in |-> << >>, record |-> << >>, bio_out |-> IF e = "client" THEN Flight(1) ELSE << >>,
           sending |-> << >>, blocked |-> FALSE, event |-> FALSE,
           sched |-> {"write_ready", "transport_recv_ready"}
                         \cup (IF e = "client" THEN {"transport_send_ready"} ELSE {}),
           written |-> 0, got |-> 0, reported |-> FALSE]]
    /\ wire = [e \in Ends |-> << >>]
    /\ keys_match \in BOOLEAN

-----------------------------------------------------------------------------
(* Methods take the record r of end e, with the connection in its fields   *)
(* rx (to be read) and tx (written), and return the new one.               *)

\* F(x), where x is evaluated once.
With(x, F(_)) == CHOOSE y \in {F(z) : z \in {x}} : TRUE

Scheduled(r, F) == [r EXCEPT !.sched = @ \cup F]

\* OpenSSL meets bytes that are not what the other end is to send next.
Fails(r) == [r EXCEPT !.failed = TRUE, !.bio_out = @ \o Alert]

\* OpenSSL takes the next flight, or an alert, from bio_in.  With a wrong key
\* the server finds that it cannot decrypt the client's second flight.
FlightRead(e, r) ==
    IF r.bio_in = << >> \/ r.failed THEN r
    ELSE LET m == Head(r.bio_in)
             s == [r EXCEPT !.bio_in = Tail(@)]
         IN IF m.type = "alert" THEN [s EXCEPT !.failed = TRUE]
            ELSE IF r.flights = FLIGHTS THEN r
            ELSE IF <<m>> # Flight(r.flights + 1) \/ (m.n = 3 /\ ~keys_match) THEN Fails(s)
                 ELSE [s EXCEPT !.flights = m.n]

\* OpenSSL's handshake, which SSL_read and SSL_write continue: the flight that
\* is there is read, and if the next one is e's it is put into bio_out.
Handshake(e, r) ==
    LET mine == IF e = "client" THEN {3} ELSE {2, 4}
    IN With(FlightRead(e, r), LAMBDA s :
           IF s.failed \/ s.flights + 1 \notin mine THEN s
           ELSE [s EXCEPT !.flights = @ + 1, !.bio_out = @ \o Flight(s.flights + 1)])

\* TlsStream::write of the next item: refused if bio_out is full.
Write(e, r) ==
    IF Len(r.bio_out) >= MAX_BIO_BUFFER THEN r
    ELSE With(Scheduled(Handshake(e, r), {"transport_send_ready"}), LAMBDA s :
           IF s.failed THEN Scheduled(s, {"on_error"})
           ELSE IF s.flights < FLIGHTS THEN Scheduled(s, {"transport_recv_ready"})
           ELSE [s EXCEPT !.bio_out = @ \o Item(r.written + 1), !.written = @ + 1])

\* SSL_read takes from bio_in what is there of a record.  Records are numbered
\* and have a checksum: a complete one must be the next item, whole.
SslRead(r) ==
    LET lasts == {i \in DOMAIN r.bio_in : r.bio_in[i].last}
        n == IF lasts = {} THEN Len(r.bio_in) ELSE Min(lasts)
        record == r.record \o SubSeq(r.bio_in, 1, n)
        s == [r EXCEPT !.bio_in = SubSeq(@, n + 1, Len(@)),
                       !.record = IF lasts = {} THEN record ELSE << >>]
    IN IF lasts = {} THEN s
       ELSE IF record = Item(r.got + 1) THEN [s EXCEPT !.got = @ + 1]
       ELSE Fails(s)

\* SSL_read: the handshake, and when it is over a record.
SslReads(e, r) ==
    With(Handshake(e, r), LAMBDA s : IF s.failed \/ s.flights < FLIGHTS THEN s ELSE SslRead(s))

\* Faulty Read: schedules transport_recv_ready only during the handshake.
ReadOnce(e, r) ==
    With(SslReads(e, r), LAMBDA s :
        IF s.failed THEN Scheduled(s, {"on_error"})
        ELSE IF s.flights < FLIGHTS THEN Scheduled(s, {"transport_recv_ready"})
        ELSE s)

\* TlsStream::read, into a buffer for one item.
Read(e, r) ==
    With(SslReads(e, r), LAMBDA s :
        Scheduled(s, {IF s.failed THEN "on_error" ELSE "transport_recv_ready"}))

-----------------------------------------------------------------------------
(* The users.  First the client calls ioutil::write and then ioutil::read  *)
(* for one item each, and the server ioutil::read and then ioutil::write;  *)
(* then both are read and written by links.                                *)

\* The items that the user may have written, and read, at its stage.
MayWrite(e, r) == IF r.got > 0 THEN MaxItems[e] ELSE IF e = "client" THEN 1 ELSE 0
MayRead(e, r) ==
    IF e = "client" /\ r.written = 0 THEN 0
    ELSE IF IF e = "client" THEN r.got = 0 ELSE r.written = 0 THEN 1
    ELSE MaxItems[Other(e)]

Reading(e, r) == r.got < MayRead(e, r)
Writing(e, r) == r.written < MayWrite(e, r)

\* on_read of ioutil::read, or a link's.  Whoever has read an item does not
\* want another before its on_read is scheduled again; the first item starts
\* the next stage.  Until then on_read_ready does nothing.
OnRead(e, r) ==
    IF ~Reading(e, r) \/ "on_read" \in r.sched THEN r
    ELSE With(Read(e, r), LAMBDA s :
           IF s.got = r.got THEN s
           ELSE Scheduled(s, {"on_read"} \cup (IF r.got = 0 THEN {"on_write"} ELSE {})))

\* on_write of ioutil::write, or a link's, which tries to go on after an item.
\* After its first item the client calls ioutil::read, which reads at once,
\* and the server's stream is given to a Piper.
OnWrite(e, r) ==
    IF ~Writing(e, r) THEN r
    ELSE With(Write(e, r), LAMBDA s :
           IF s.written = r.written THEN s
           ELSE IF e = "client" /\ s.written = 1 THEN OnRead(e, s)
           ELSE Scheduled(s, {"on_read", "on_write"}))

-----------------------------------------------------------------------------
(* Between the TlsStream and the socket.                                   *)

\* TlsStream::transport_recv_ready.
TransportRecvReady(e, r) ==
    LET n == Min({Len(r.rx), MAX_BIO_BUFFER - Len(r.bio_in)})
    IN IF n <= 0 THEN r
       ELSE With([r EXCEPT !.bio_in = @ \o SubSeq(r.rx, 1, n), !.rx = SubSeq(@, n + 1, Len(@))],
                 LAMBDA s : OnRead(e, s))

\* Faulty TransportSendReady: does not ask is_send_ready.
SendAlways(e, r) ==
    IF r.bio_out = << >> THEN OnWrite(e, r)
    ELSE Scheduled([r EXCEPT !.sending = <<Head(r.bio_out)>>, !.bio_out = Tail(@)],
                   {"write_ready"})

\* TlsStream::transport_send_ready: gives a chunk to packet_stream, which is
\* then not ready for another, or tells the user that all is sent.
TransportSendReady(e, r) ==
    IF r.sending # << >> THEN r
    ELSE IF r.bio_out = << >> THEN OnWrite(e, r)
    ELSE Scheduled([r EXCEPT !.sending = <<Head(r.bio_out)>>, !.bio_out = Tail(@)],
                   {"write_ready"})

\* FreeWriterPacketStream::write_ready, which both schedules and calls
\* on_send_ready.
WriteReady(e, r) ==
    IF r.sending # << >> /\ Len(r.tx) >= SocketSize
    THEN [r EXCEPT !.blocked = TRUE]
    ELSE With(Scheduled([r EXCEPT !.tx = @ \o r.sending, !.sending = << >>],
                        {"transport_send_ready"}),
              LAMBDA s : TransportSendReady(e, s))

\* Runs one scheduled function.
Call(f, e, r) ==
    CASE f = "transport_send_ready" -> TransportSendReady(e, r)
      [] f = "transport_recv_ready" -> TransportRecvReady(e, r)
      [] f = "write_ready" -> WriteReady(e, r)
      [] f = "on_write" -> OnWrite(e, r)
      [] f = "on_read" -> OnRead(e, r)
      [] f = "on_error" -> [r EXCEPT !.reported = TRUE]

\* End e with its connection.
Now(e) == end[e] @@ [rx |-> wire[Other(e)], tx |-> wire[e]]

\* End e becomes r.  What it has written is an edge at the other end, and so
\* is the room it has made if the other end waits for that.
Becomes(e, r) ==
    LET o == Other(e)
        arrives == Len(r.tx) > Len(wire[e])
        room == end[o].blocked /\ Len(r.rx) < Len(wire[o])
    IN /\ end' = [end EXCEPT
              ![e] = [x \in DOMAIN @ |-> r[x]],
              ![o] = [@ EXCEPT !.event = @ \/ arrives \/ room, !.blocked = @ /\ ~room]]
       /\ wire' = [wire EXCEPT ![e] = r.tx, ![o] = r.rx]
       /\ UNCHANGED keys_match

\* Reactor::step runs what was scheduled.
RunScheduled(e, f) ==
    /\ f \in end[e].sched
    /\ \E n \in {[Now(e) EXCEPT !.sched = @ \ {f}]} : \E r \in {Call(f, e, n)} : Becomes(e, r)

\* Faulty Dispatch: what is ready for reading hides that it can be written.
DispatchOne(e, r) ==
    IF r.rx # << >> THEN TransportRecvReady(e, r)
    ELSE IF Len(r.tx) < SocketSize THEN WriteReady(e, r) ELSE r

\* Reactor::step with an edge: epoll reports all that the socket is ready for,
\* reading is served before writing.
Dispatch(e, r) ==
    With(IF r.rx # << >> THEN TransportRecvReady(e, r) ELSE r, LAMBDA s :
        IF Len(r.tx) < SocketSize THEN WriteReady(e, s) ELSE s)

Epoll(e) ==
    /\ end[e].event
    /\ \E n \in {[Now(e) EXCEPT !.event = FALSE]} : \E r \in {Dispatch(e, n)} : Becomes(e, r)

-----------------------------------------------------------------------------

Next == \E e \in Ends : Epoll(e) \/ \E f \in Functions : RunScheduled(e, f)

Spec == Init /\ [][Next]_vars

\* The reactors serve their events and run what is scheduled.
FairSpec ==
    /\ Spec
    /\ \A e \in Ends :
         WF_vars(Epoll(e)) /\ \A f \in Functions : WF_vars(RunScheduled(e, f))

-----------------------------------------------------------------------------
(* Properties.                                                             *)

\* The pieces of items on the way to end e: in OpenSSL, bio_in, the socket, the
\* packet_stream of the other end and its bio_out.
OnTheWay(e) ==
    LET r == end[e]
        o == end[Other(e)]
    IN SelectSeq(r.record \o r.bio_in \o wire[Other(e)] \o o.sending \o o.bio_out,
                 LAMBDA m : m.type = "item")

\* The pieces of items n + 1 to k.
ItemsBetween(n, k) ==
    [i \in 1 .. 2 * (k - n) |-> Item(n + (i + 1) \div 2)[2 - (i % 2)]]

\* Between the two users no byte is lost, repeated or overtaken: what is on the
\* way is all that was written and not yet read, in order and every piece of
\* it, so that with the right key OpenSSL never meets an error.
ItemsInOrder ==
    \A e \in Ends :
        /\ OnTheWay(e) = ItemsBetween(end[e].got, end[Other(e)].written)
        /\ keys_match => ~end[e].failed

\* Nothing waits without somebody who takes it up again: a chunk waits only
\* for a socket that is full, encrypted bytes for such a chunk, received bytes
\* for a user that does not read yet, and bytes in the socket for those.
NoLostWakeup ==
    \A e \in Ends :
        LET r == end[e]
            writes == "write_ready" \in r.sched
                        \/ r.event \/ (r.blocked /\ Len(wire[e]) = SocketSize)
        IN /\ r.sending # << >> => writes
           /\ r.bio_out # << >> =>
                r.sending # << >> \/ writes \/ "transport_send_ready" \in r.sched
           /\ r.bio_in # << >> /\ Reading(e, r) /\ ~r.failed => "on_read" \in r.sched
           /\ wire[Other(e)] # << >> =>
                \/ r.event \/ "transport_recv_ready" \in r.sched
                \/ Len(r.bio_in) = MAX_BIO_BUFFER
                \/ r.failed

\* With one key at both ends the handshake ends, and everything that is
\* written is read, although each side waits for the other in turn.
EventuallyRead ==
    keys_match ~> \A e \in Ends : end[e].got = MaxItems[Other(e)]

\* With different keys both users are told.
WrongKeyReported ==
    ~keys_match ~> \A e \in Ends : end[e].reported

\* With the types and the limits of the buffers: ItemsInOrder.
TlsInv == TypeOK /\ ItemsInOrder

=============================================================================
