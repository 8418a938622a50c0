-------------------------------- MODULE Pipe --------------------------------
(***************************************************************************)
(* One direction of pipe_both: a FreePacketStream over the descriptor      *)
(* "in", a Piper, and a FreePacketStream over the descriptor "out"         *)
(* (libreactor/packet_stream_util.cpp), driven by the Reactor              *)
(* (libreactor/reactor.cpp) and by edge triggered epoll.                   *)
(*                                                                         *)
(* The Reactor runs the scheduled functions in order, those they schedule  *)
(* in the next step; then it waits for edges and dispatches them.  The     *)
(* other direction uses other fields of the same objects: what is left of  *)
(* it here is that it may cause an edge of either descriptor (OtherWakeup).*)
(* The sockets, the kernel's edges and the peers are the environment.      *)
(* Bytes are numbered in the order in which the peer of "in" writes them.  *)
(***************************************************************************)
EXTENDS Integers, Sequences

CONSTANTS
    MaxBytes,   \* bound: bytes the peer of "in" writes
    MTU,        \* size of recv_buffer and of the Piper's buffer
    SockRoom,   \* bytes that a socket holds
    MayBreak    \* the descriptors whose peer may close

FDs == {"in", "out"}

ASSUME PipeAssumption ==
    /\ MaxBytes \in Nat
    /\ MTU \in Nat \ {0}
    /\ SockRoom \in Nat \ {0}
    /\ MayBreak \subseteq FDs

VARIABLES
    produced,       \* number of bytes the peer of "in" wrote
    in_sock,        \* bytes the kernel holds for "in"
    current,        \* Piper::current, << >> for none
    sending,        \* FreeWriterPacketStream::send_buffer_current of the output
    out_sock,       \* bytes written to "out" that its peer did not read yet
    consumed,       \* bytes the peer of "out" read
    blocked,        \* a write to "out" returned EAGAIN: room will raise an edge
    edges,          \* descriptors with an edge that epoll did not report yet
    gone,           \* descriptors whose peer closed
    error_reported, \* FD::error_reported
    errors,         \* errors[f]: number of calls of on_error of f
    scheduled,      \* Reactor::scheduled_functions
    batch,          \* what is left of scheduled_functions_copy in step()
    events,         \* epoll results that step() did not dispatch yet
    phase           \* where step() is: "start", "run" or "dispatch"

data == <<produced, in_sock, current, sending, out_sock, consumed>>
kernel == <<blocked, edges, gone>>
reactor == <<scheduled, batch, events, phase>>
vars == <<data, kernel, reactor, error_reported, errors>>

Byte == 1 .. MaxBytes

Lesser(m, n) == IF m < n THEN m ELSE n

Take(s, n) == SubSeq(s, 1, n)
Drop(s, n) == SubSeq(s, n + 1, Len(s))

Functions == {"recv_ready", "send_ready", "write_ready", "error_in", "error_out"}

ErrorFn(f) == IF f = "in" THEN "error_in" ELSE "error_out"

\* The types, the sizes that Piper::recv_ready asserts, and that of the socket.
TypeOK ==
    /\ produced \in 0 .. MaxBytes
    /\ \A s \in {in_sock, current, sending, out_sock, consumed} : s \in Seq(Byte)
    /\ Len(current) <= MTU /\ Len(sending) <= MTU /\ Len(out_sock) <= SockRoom
    /\ blocked \in BOOLEAN
    /\ edges \subseteq FDs /\ gone \subseteq FDs /\ error_reported \subseteq FDs
    /\ errors \in [FDs -> Nat]
    /\ scheduled \in Seq(Functions) /\ batch \in Seq(Functions)
    /\ events \subseteq [fd : FDs, error : BOOLEAN]
    /\ phase \in {"start", "run", "dispatch"}

\* FreePacketStream::create schedules the handlers of both streams; which of
\* the two is created first depends on the direction.
Init ==
    /\ produced = 0
    /\ in_sock = << >> /\ current = << >> /\ sending = << >>
    /\ out_sock = << >> /\ consumed = << >>
    /\ blocked = FALSE /\ edges = {} /\ gone = {}
    /\ error_reported = {} /\ errors = [f \in FDs |-> 0]
    /\ scheduled \in {<<"recv_ready", "write_ready">>, <<"write_ready", "recv_ready">>}
    /\ batch = << >> /\ events = {} /\ phase = "start"

-----------------------------------------------------------------------------
(* The handlers.  Each is given what scheduled holds when it is called, and *)
(* whether epoll has an error to report for the descriptor afterwards.      *)

\* FD::handle_error schedules on_error the first time it is called.
HandleError(f, failed, queue) ==
    /\ error_reported' = IF failed THEN error_reported \cup {f} ELSE error_reported
    /\ scheduled' = IF failed /\ f \notin error_reported
                    THEN Append(queue, ErrorFn(f)) ELSE queue

\* What a read that returns nothing does not report: errno is what an earlier
\* call left when the peer has closed, and EAGAIN is then taken for "no data".
ReadFails == IF "in" \in gone /\ in_sock = << >> THEN BOOLEAN ELSE {FALSE}

\* A read returns what there is, up to the size of recv_buffer.
ReadSize == Lesser(MTU, Len(in_sock))

\* Faulty PiperRecvReady: does not look whether a packet is held.
PiperRecvReadyOverwrites(queue, hup) ==
    /\ HandleError("in", hup,
                   IF ReadSize = 0 THEN queue ELSE Append(queue, "send_ready"))
    /\ current' = IF ReadSize = 0 THEN current ELSE Take(in_sock, ReadSize)
    /\ in_sock' = Drop(in_sock, ReadSize)
    /\ UNCHANGED <<produced, sending, out_sock, consumed, kernel, errors>>

\* FreePacketStream::read_ready calls on_recv_ready, that is
\* Piper::recv_ready, which takes one packet if it holds none.
PiperRecvReady(queue, hup) ==
    /\ IF current # << >> \/ ReadSize = 0
       THEN /\ \E failed \in ReadFails :
                 HandleError("in", (current = << >> /\ failed) \/ hup, queue)
            /\ UNCHANGED <<current, in_sock>>
       ELSE /\ HandleError("in", hup, Append(queue, "send_ready"))
            /\ current' = Take(in_sock, ReadSize)
            /\ in_sock' = Drop(in_sock, ReadSize)
    /\ UNCHANGED <<produced, sending, out_sock, consumed, kernel, errors>>

\* Faulty Sent: recv_ready is not scheduled.
SentSilently(queue, p) == queue \o IF p = << >> THEN << >> ELSE <<"write_ready">>

\* What Piper::send_ready does with packet p when the output takes it: send
\* copies it and schedules write_ready, then recv_ready is scheduled.
Sent(queue, p) == queue \o IF p = << >> THEN << >> ELSE <<"write_ready", "recv_ready">>

\* Piper::send_ready, called by the reactor.
PiperSendReady(queue) ==
    /\ IF sending = << >>
       THEN sending' = current /\ current' = << >> /\ scheduled' = Sent(queue, current)
       ELSE scheduled' = queue /\ UNCHANGED <<sending, current>>
    /\ UNCHANGED <<produced, in_sock, out_sock, consumed, kernel, error_reported, errors>>

\* What write takes of the buffer before it returns 0.
WriteSize == IF "out" \in gone THEN 0
             ELSE Lesser(Len(sending), SockRoom - Len(out_sock))

\* Faulty WriteReady: on_send_ready is not called.
WriteReadySilent(queue, hup) ==
    /\ out_sock' = out_sock \o Take(sending, WriteSize)
    /\ sending' = Drop(sending, WriteSize)
    /\ blocked' = (blocked \/ (WriteSize < Len(sending) /\ "out" \notin gone))
    /\ HandleError("out", hup \/ (WriteSize < Len(sending) /\ "out" \in gone), queue)
    /\ UNCHANGED <<produced, in_sock, current, consumed, edges, gone, errors>>

\* FreeWriterPacketStream::write_ready: writes until the buffer is empty or
\* the socket full (blocked) or broken (error); with an empty buffer it
\* schedules on_send_ready and also calls it, that is Piper::send_ready.
WriteReady(queue, hup) ==
    /\ out_sock' = out_sock \o Take(sending, WriteSize)
    /\ IF WriteSize = Len(sending)
       THEN /\ sending' = current /\ current' = << >>
            /\ HandleError("out", hup, Sent(Append(queue, "send_ready"), current))
            /\ UNCHANGED blocked
       ELSE /\ sending' = Drop(sending, WriteSize)
            /\ blocked' = (blocked \/ "out" \notin gone)
            /\ HandleError("out", hup \/ "out" \in gone, queue)
            /\ UNCHANGED current
    /\ UNCHANGED <<produced, in_sock, consumed, edges, gone, errors>>

\* FreeWriterPacketStream::error_ready calls on_error, which nobody set.
ErrorReady(f) ==
    /\ errors' = [errors EXCEPT ![f] = @ + 1]
    /\ UNCHANGED <<data, kernel, error_reported, scheduled>>

-----------------------------------------------------------------------------
(* Reactor::step.                                                          *)

\* The scheduled functions become the batch to run.
StepStart ==
    /\ phase = "start"
    /\ batch' = scheduled /\ scheduled' = << >>
    /\ phase' = "run"
    /\ UNCHANGED <<data, kernel, error_reported, errors, events>>

\* The first function of the batch is called.
RunScheduled ==
    /\ phase = "run" /\ batch # << >>
    /\ batch' = Tail(batch)
    /\ CASE Head(batch) = "recv_ready"  -> PiperRecvReady(scheduled, FALSE)
         [] Head(batch) = "send_ready"  -> PiperSendReady(scheduled)
         [] Head(batch) = "write_ready" -> WriteReady(scheduled, FALSE)
         [] Head(batch) = "error_in"    -> ErrorReady("in")
         [] Head(batch) = "error_out"   -> ErrorReady("out")
    /\ UNCHANGED <<events, phase>>

\* epoll reports an edge only while its condition holds.
Ready(f) == \/ f \in gone
            \/ f = "in" /\ in_sock # << >>
            \/ f = "out" /\ Len(out_sock) < SockRoom

\* Faulty Wait: errors of descriptors are not looked at.
WaitWithoutErrors ==
    /\ phase = "run" /\ batch = << >>
    /\ scheduled # << >> \/ \E f \in edges : Ready(f)
    /\ events' = {[fd |-> f, error |-> FALSE] : f \in {g \in edges : Ready(g)}}
    /\ edges' = {}
    /\ phase' = "dispatch"
    /\ UNCHANGED <<data, blocked, gone, error_reported, errors, scheduled, batch>>

\* epoll_pwait: does not block if something is scheduled.
Wait ==
    /\ phase = "run" /\ batch = << >>
    /\ scheduled # << >> \/ \E f \in edges : Ready(f)
    /\ events' = {[fd |-> f, error |-> f \in gone] : f \in {g \in edges : Ready(g)}}
    /\ edges' = {}
    /\ phase' = "dispatch"
    /\ UNCHANGED <<data, blocked, gone, error_reported, errors, scheduled, batch>>

\* The handlers of one descriptor that epoll reported, in any order of the
\* descriptors.
Dispatch ==
    /\ phase = "dispatch"
    /\ \E ev \in events :
         /\ events' = events \ {ev}
         /\ \/ ev.fd = "in" /\ PiperRecvReady(scheduled, ev.error)
            \/ ev.fd = "out" /\ WriteReady(scheduled, ev.error)
    /\ UNCHANGED <<batch, phase>>

\* step() returns and run() calls it again.
StepEnd ==
    /\ phase = "dispatch" /\ events = {}
    /\ phase' = "start"
    /\ UNCHANGED <<data, kernel, error_reported, errors, scheduled, batch, events>>

-----------------------------------------------------------------------------
(* The environment.                                                        *)

\* The peer of "in" writes some bytes.
Produce ==
    /\ "in" \notin gone
    /\ \E n \in 1 .. SockRoom :
         /\ produced + n <= MaxBytes
         /\ Len(in_sock) + n <= SockRoom
         /\ in_sock' = in_sock \o [i \in 1 .. n |-> produced + i]
         /\ produced' = produced + n
    /\ edges' = edges \cup {"in"}
    /\ UNCHANGED <<current, sending, out_sock, consumed, blocked, gone, reactor,
                   error_reported, errors>>

\* The peer of "out" reads; a writer that found the socket full gets an edge.
Consume ==
    /\ "out" \notin gone
    /\ \E n \in 1 .. Len(out_sock) :
         /\ consumed' = consumed \o Take(out_sock, n)
         /\ out_sock' = Drop(out_sock, n)
    /\ edges' = IF blocked THEN edges \cup {"out"} ELSE edges
    /\ blocked' = FALSE
    /\ UNCHANGED <<produced, in_sock, current, sending, gone, reactor,
                   error_reported, errors>>

\* The other direction of the same descriptor raises an edge.
OtherWakeup ==
    /\ \E f \in FDs : f \notin edges /\ Ready(f) /\ edges' = edges \cup {f}
    /\ UNCHANGED <<data, blocked, gone, reactor, error_reported, errors>>

\* A peer closes: the descriptor is ready for everything, and has an error.
Break ==
    /\ \E f \in MayBreak \ gone : gone' = gone \cup {f} /\ edges' = edges \cup {f}
    /\ UNCHANGED <<data, blocked, reactor, error_reported, errors>>

-----------------------------------------------------------------------------

Next ==
    \/ StepStart \/ RunScheduled \/ Wait \/ Dispatch \/ StepEnd
    \/ Produce \/ Consume \/ OtherWakeup \/ Break

Spec == Init /\ [][Next]_vars

\* The reactor runs, and the reader of "out" reads what there is.
FairSpec ==
    /\ Spec
    /\ WF_vars(StepStart) /\ WF_vars(RunScheduled) /\ WF_vars(Wait)
    /\ WF_vars(Dispatch) /\ WF_vars(StepEnd)
    /\ WF_vars(Consume)

-----------------------------------------------------------------------------
(* Properties.                                                             *)

\* Reading, holding, sending and writing neither loses, repeats nor reorders
\* a byte: what the reader got, and what is on its way, read in order, is what
\* the writer wrote.  (Piper::recv_ready overwrites its one buffer, and send
\* overwrites the output's, if either is called at the wrong time.)
BytesInOrder ==
    consumed \o out_sock \o sending \o current \o in_sock = [i \in 1 .. produced |-> i]

\* f is going to be called without any help of the environment.
Due(f) == \/ \E i \in DOMAIN scheduled : scheduled[i] = f
          \/ \E i \in DOMAIN batch : batch[i] = f

\* The handler of descriptor f is going to be called: the edge was reported, or
\* will be, since its condition holds.
Edge(f) == (f \in edges /\ Ready(f)) \/ \E ev \in events : ev.fd = f

\* Wherever bytes wait, a call that moves them is due.  With edge triggered
\* epoll nothing else would: recv_ready takes one packet of possibly many and
\* ignores calls while it holds one, and an edge is dropped if the socket is
\* full again when epoll looks.
NoStuckBytes ==
    /\ in_sock # << >> /\ current = << >> => Due("recv_ready") \/ Edge("in")
    /\ current # << >> /\ sending = << >> => Due("send_ready")
    /\ sending # << >> /\ "out" \notin gone =>
         Due("write_ready") \/ Edge("out") \/ (blocked /\ out_sock # << >>)

\* Every byte written arrives, unless the reader went away.
EventuallyThrough ==
    \A b \in 1 .. MaxBytes :
        produced >= b ~> (Len(consumed) >= b \/ "out" \in gone)

\* A peer that closed is eventually reported to the owner of the descriptor, and
\* only once: by epoll even if read mistakes the end of the stream for EAGAIN,
\* and not again by read, write or epoll, which all may meet the error.
EventuallyReported == \A f \in FDs : f \in gone ~> [](errors[f] = 1)

\* A batch is run to its end, and so are the events of a step: neither is there
\* when Reactor::step overwrites it.
StepPhases == (phase # "run" => batch = << >>) /\ (phase # "dispatch" => events = {})

\* With the types and bounds of the buffers, and the phases of a step:
\* BytesInOrder.
PipeInv == TypeOK /\ StepPhases /\ BytesInOrder

=============================================================================
