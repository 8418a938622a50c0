----------------------------- MODULE PipeProofs -----------------------------
(***************************************************************************)
(* Proofs about Pipe, for any number of bytes and any sizes of the buffers *)
(* and of the sockets.                                                     *)
(***************************************************************************)
EXTENDS Pipe, SequenceTheorems, TLAPS

\* The inductive invariant: order and progress of the bytes.
Inv == PipeInv /\ NoStuckBytes

-----------------------------------------------------------------------------
(* Lemmas about sequences.                                                 *)

\* Taking n bytes of a buffer and then the rest gives the buffer.
LEMMA TakeDrop ==
    ASSUME NEW s \in Seq(Byte), NEW n \in 0 .. Len(s)
    PROVE  /\ Take(s, n) \in Seq(Byte) /\ Len(Take(s, n)) = n
           /\ Drop(s, n) \in Seq(Byte) /\ Len(Drop(s, n)) = Len(s) - n
           /\ Take(s, n) \o Drop(s, n) = s
           /\ n = Len(s) => Take(s, n) = s /\ Drop(s, n) = << >>
<1>1. /\ Take(s, n) \in Seq(Byte) /\ Len(Take(s, n)) = n
      /\ Drop(s, n) \in Seq(Byte) /\ Len(Drop(s, n)) = Len(s) - n
  BY DEF Take, Drop
<1>2. SubSeq(s, 1, n) \o SubSeq(s, n + 1, Len(s)) = SubSeq(s, 1, Len(s))
  <2>1. Len(s) \in Nat
    OBVIOUS
  <2>2. 1 \in 1 .. Len(s) + 1 /\ n \in 1 - 1 .. Len(s) /\ Len(s) \in n .. Len(s)
    BY <2>1
  <2> QED BY <2>2, ConcatAdjacentSubSeq, Zenon
<1>3. SubSeq(s, 1, Len(s)) = s
  BY SubSeqFull
<1>4. n = Len(s) => Drop(s, n) = << >>
  BY SubSeqEmpty DEF Drop
<1> QED BY <1>1, <1>2, <1>3, <1>4, ZenonT(30) DEF Take, Drop

\* Buffers may be joined in any order of the joins.
LEMMA Associative ==
    \A s, t, u \in Seq(Byte) : (s \o t) \o u = s \o (t \o u)
BY ConcatAssociative, SMTT(30)

\* Bytes that move from the front of one buffer to the end of the one before it
\* do not change what the buffers hold together.
LEMMA MoveFront ==
    ASSUME NEW a \in Seq(Byte), NEW s \in Seq(Byte), NEW n \in 0 .. Len(s)
    PROVE  (a \o Take(s, n)) \o Drop(s, n) = a \o s
<1>1. Take(s, n) \in Seq(Byte) /\ Drop(s, n) \in Seq(Byte) /\ Take(s, n) \o Drop(s, n) = s
  BY TakeDrop
<1>2. (a \o Take(s, n)) \o Drop(s, n) = a \o (Take(s, n) \o Drop(s, n))
  BY <1>1, Associative
<1> QED BY <1>1, <1>2

\* The function of a reactor's queue is still there after more were added.
LEMMA QueueGrows ==
    ASSUME NEW s \in Seq(Functions), NEW t \in Seq(Functions)
    PROVE  /\ s \o t \in Seq(Functions)
           /\ \A i \in DOMAIN s : i \in DOMAIN (s \o t) /\ (s \o t)[i] = s[i]
           /\ \A i \in DOMAIN t : Len(s) + i \in DOMAIN (s \o t) /\ (s \o t)[Len(s) + i] = t[i]
OBVIOUS

-----------------------------------------------------------------------------
(* What the queue of scheduled functions holds.                            *)

\* Function f is in queue s.
Holds(s, f) == \E i \in DOMAIN s : s[i] = f

\* Adding functions to a queue keeps those that are in it.
LEMMA HoldsConcat ==
    ASSUME NEW s \in Seq(Functions), NEW t \in Seq(Functions), NEW f
    PROVE  Holds(s, f) \/ Holds(t, f) => Holds(s \o t, f)
<1>1. ASSUME Holds(s, f) PROVE Holds(s \o t, f)
  <2>1. PICK i \in DOMAIN s : s[i] = f
    BY <1>1 DEF Holds
  <2>2. i \in DOMAIN (s \o t) /\ (s \o t)[i] = f
    BY <2>1, QueueGrows
  <2> QED BY <2>2 DEF Holds
<1>2. ASSUME Holds(t, f) PROVE Holds(s \o t, f)
  <2>1. PICK i \in DOMAIN t : t[i] = f
    BY <1>2 DEF Holds
  <2>2. Len(s) + i \in DOMAIN (s \o t) /\ (s \o t)[Len(s) + i] = f
    BY <2>1, QueueGrows
  <2> QED BY <2>2 DEF Holds
<1> QED BY <1>1, <1>2

\* The same for one function that is added.
LEMMA HoldsAppend ==
    ASSUME NEW s \in Seq(Functions), NEW g \in Functions
    PROVE  /\ Append(s, g) \in Seq(Functions)
           /\ \A f : Holds(s, f) => Holds(Append(s, g), f)
           /\ Holds(Append(s, g), g)
<1>1. \A i \in DOMAIN s : i \in DOMAIN Append(s, g) /\ Append(s, g)[i] = s[i]
  OBVIOUS
<1>2. Len(s) + 1 \in DOMAIN Append(s, g) /\ Append(s, g)[Len(s) + 1] = g
  OBVIOUS
<1> QED BY <1>1, <1>2 DEF Holds

\* The first function of a batch leaves it, the others stay.
LEMMA HoldsTail ==
    ASSUME NEW s \in Seq(Functions), s # << >>, NEW f, f # Head(s), Holds(s, f)
    PROVE  Holds(Tail(s), f)
<1>1. PICK i \in DOMAIN s : s[i] = f
  BY DEF Holds
<1>2. i \in 2 .. Len(s)
  BY <1>1
<1>3. i - 1 \in DOMAIN Tail(s) /\ Tail(s)[i - 1] = f
  BY <1>1, <1>2
<1> QED BY <1>3 DEF Holds

\* FD::handle_error adds at most the call of on_error.
LEMMA HandleErrorKeeps ==
    ASSUME NEW q \in Seq(Functions), NEW f \in FDs, NEW failed, error_reported \subseteq FDs,
           HandleError(f, failed, q)
    PROVE  /\ scheduled' \in Seq(Functions) /\ error_reported' \subseteq FDs
           /\ \A g : Holds(q, g) => Holds(scheduled', g)
<1>1. ErrorFn(f) \in Functions
  BY DEF ErrorFn, Functions
<1>2. scheduled' = q \/ scheduled' = Append(q, ErrorFn(f))
  BY DEF HandleError
<1>3. error_reported' \subseteq FDs
  BY DEF HandleError
<1> QED BY <1>1, <1>2, <1>3, HoldsAppend

\* What Piper::send_ready adds when it passes packet p on.
LEMMA SentKeeps ==
    ASSUME NEW q \in Seq(Functions), NEW p
    PROVE  /\ Sent(q, p) \in Seq(Functions)
           /\ \A g : Holds(q, g) => Holds(Sent(q, p), g)
           /\ p # << >> => Holds(Sent(q, p), "write_ready") /\ Holds(Sent(q, p), "recv_ready")
<1> DEFINE w == <<"write_ready", "recv_ready">>
<1>1. w \in Seq(Functions) /\ << >> \in Seq(Functions)
  BY DEF Functions
<1>2. Holds(w, "write_ready") /\ Holds(w, "recv_ready")
  <2>1. 1 \in DOMAIN w /\ 2 \in DOMAIN w /\ w[1] = "write_ready" /\ w[2] = "recv_ready"
    OBVIOUS
  <2> QED BY <2>1 DEF Holds
<1>3. Sent(q, p) = IF p = << >> THEN q \o << >> ELSE q \o w
  BY DEF Sent
<1> HIDE DEF w
<1> QED BY <1>1, <1>2, <1>3, HoldsConcat, QueueGrows

-----------------------------------------------------------------------------
(* The handlers.                                                           *)

\* The types of the buffers.
LEMMA Buffers ==
    ASSUME TypeOK
    PROVE  /\ in_sock \in Seq(Byte) /\ current \in Seq(Byte) /\ sending \in Seq(Byte)
           /\ out_sock \in Seq(Byte) /\ consumed \in Seq(Byte)
           /\ consumed \o out_sock \in Seq(Byte)
           /\ consumed \o out_sock \o sending \in Seq(Byte)
           /\ consumed \o out_sock \o sending \o current \in Seq(Byte)
<1>1. /\ in_sock \in Seq(Byte) /\ current \in Seq(Byte) /\ sending \in Seq(Byte)
      /\ out_sock \in Seq(Byte) /\ consumed \in Seq(Byte)
  BY DEF TypeOK
<1>2. \A s, t \in Seq(Byte) : s \o t \in Seq(Byte)
  BY ConcatProperties
<1> QED BY <1>1, <1>2

\* Joining an empty buffer changes nothing.
LEMMA EmptyJoin == \A s \in Seq(Byte) : s \o << >> = s /\ << >> \o s = s
BY ConcatEmptySeq

\* What a handler leaves of the types when it has done its work.
HandlerTypes ==
    /\ in_sock' \in Seq(Byte) /\ current' \in Seq(Byte) /\ sending' \in Seq(Byte)
    /\ out_sock' \in Seq(Byte)
    /\ Len(current') <= MTU /\ Len(sending') <= MTU /\ Len(out_sock') <= SockRoom
    /\ blocked' \in BOOLEAN /\ error_reported' \subseteq FDs /\ scheduled' \in Seq(Functions)

\* Piper::recv_ready takes bytes off the descriptor only if it holds none, takes
\* some if there are any, and then has send_ready called.
LEMMA RecvKeeps ==
    ASSUME Inv, NEW hup, PiperRecvReady(scheduled, hup)
    PROVE  /\ HandlerTypes /\ BytesInOrder'
           /\ \A g : Holds(scheduled, g) => Holds(scheduled', g)
           /\ current' # << >> \/ in_sock' = << >>
           /\ current' = current \/ Holds(scheduled', "send_ready")
           /\ UNCHANGED <<produced, sending, out_sock, consumed, kernel, errors>>
<1> USE PipeAssumption
<1>1. TypeOK /\ BytesInOrder /\ UNCHANGED <<produced, sending, out_sock, consumed, kernel, errors>>
  BY DEF Inv, PipeInv, PiperRecvReady
<1>2. scheduled \in Seq(Functions) /\ error_reported \subseteq FDs /\ "in" \in FDs
  BY <1>1 DEF TypeOK, FDs
<1>3. ReadSize \in 0 .. Len(in_sock) /\ ReadSize <= MTU /\ (ReadSize = 0 <=> in_sock = << >>)
  BY <1>1, Buffers DEF ReadSize, Lesser
<1>4. CASE current # << >> \/ ReadSize = 0
  <2>1. PICK failed : HandleError("in", failed, scheduled)
    BY <1>4 DEF PiperRecvReady
  <2>2. UNCHANGED <<current, in_sock>>
    BY <1>4 DEF PiperRecvReady
  <2>3. HandlerTypes
    BY <1>1, <1>2, <2>1, <2>2, HandleErrorKeeps DEF TypeOK, HandlerTypes, kernel
  <2> QED BY <1>1, <1>2, <1>3, <1>4, <2>1, <2>2, <2>3, HandleErrorKeeps DEF BytesInOrder
<1>5. CASE ~(current # << >> \/ ReadSize = 0)
  <2> DEFINE q == Append(scheduled, "send_ready")
  <2>1. /\ HandleError("in", hup, q)
        /\ current' = Take(in_sock, ReadSize) /\ in_sock' = Drop(in_sock, ReadSize)
    BY <1>5 DEF PiperRecvReady
  <2>2. /\ q \in Seq(Functions) /\ \A f : Holds(scheduled, f) => Holds(q, f)
        /\ Holds(q, "send_ready")
    BY <1>2, HoldsAppend DEF Functions
  <2> HIDE DEF q
  <2>3. /\ current' \in Seq(Byte) /\ Len(current') = ReadSize /\ in_sock' \in Seq(Byte)
    BY <1>1, <1>3, <2>1, Buffers, TakeDrop
  <2>4. HandlerTypes
    BY <1>1, <1>2, <1>3, <2>1, <2>2, <2>3, HandleErrorKeeps DEF TypeOK, HandlerTypes, kernel
  <2>5. current' # << >>
    BY <1>3, <1>5, <2>3
  <2>6. BytesInOrder'
    <3> DEFINE x == consumed \o out_sock \o sending
    <3>1. x \in Seq(Byte) /\ in_sock \in Seq(Byte)
      BY <1>1, Buffers
    <3>2. (x \o << >>) \o in_sock = [i \in 1 .. produced |-> i]
      BY <1>1, <1>5 DEF BytesInOrder
    <3>3. (consumed \o out_sock \o sending)' = x
      BY <1>1
    <3> HIDE DEF x
    <3>4. (x \o Take(in_sock, ReadSize)) \o Drop(in_sock, ReadSize) = x \o in_sock
      BY <1>3, <3>1, MoveFront
    <3>5. x \o << >> = x
      BY <3>1, EmptyJoin
    <3> QED BY <1>1, <2>1, <3>2, <3>3, <3>4, <3>5 DEF BytesInOrder
  <2> QED BY <1>1, <1>2, <2>1, <2>2, <2>4, <2>5, <2>6, HandleErrorKeeps
<1> QED BY <1>4, <1>5

\* Piper::send_ready passes its packet on only if the output holds none.
LEMMA SendKeeps ==
    ASSUME Inv, PiperSendReady(scheduled)
    PROVE  /\ HandlerTypes /\ BytesInOrder'
           /\ \A g : Holds(scheduled, g) => Holds(scheduled', g)
           /\ current' # << >> => sending' # << >> /\ current' = current
           /\ current # << >> /\ current' = << >> => Holds(scheduled', "recv_ready")
           /\ sending' = sending \/ sending' = << >> \/ Holds(scheduled', "write_ready")
           /\ UNCHANGED <<produced, in_sock, out_sock, consumed, kernel, errors>>
<1> USE PipeAssumption
<1>1. /\ TypeOK /\ BytesInOrder
      /\ UNCHANGED <<produced, in_sock, out_sock, consumed, kernel, error_reported, errors>>
  BY DEF Inv, PipeInv, PiperSendReady
<1>2. scheduled \in Seq(Functions)
  BY <1>1 DEF TypeOK
<1>3. CASE sending = << >>
  <2>1. sending' = current /\ current' = << >> /\ scheduled' = Sent(scheduled, current)
    BY <1>3 DEF PiperSendReady
  <2>2. HandlerTypes
    BY <1>1, <1>2, <2>1, SentKeeps DEF TypeOK, HandlerTypes, kernel
  <2>3. BytesInOrder'
    <3> DEFINE y == consumed \o out_sock
    <3>1. y \in Seq(Byte) /\ current \in Seq(Byte) /\ y \o current \in Seq(Byte)
      BY <1>1, Buffers, ConcatProperties
    <3>2. ((y \o << >>) \o current) \o in_sock = [i \in 1 .. produced |-> i]
      BY <1>1, <1>3 DEF BytesInOrder
    <3>3. (consumed \o out_sock)' = y
      BY <1>1
    <3> HIDE DEF y
    <3>4. y \o << >> = y /\ (y \o current) \o << >> = y \o current
      BY <3>1, EmptyJoin
    <3> QED BY <1>1, <2>1, <3>2, <3>3, <3>4 DEF BytesInOrder
  <2> QED BY <1>1, <1>2, <2>1, <2>2, <2>3, SentKeeps
<1>4. CASE sending # << >>
  <2>1. scheduled' = scheduled /\ UNCHANGED <<sending, current>>
    BY <1>4 DEF PiperSendReady
  <2>2. HandlerTypes
    BY <1>1, <2>1 DEF TypeOK, HandlerTypes, kernel
  <2> QED BY <1>1, <1>4, <2>1, <2>2 DEF BytesInOrder
<1> QED BY <1>3, <1>4

\* FreeWriterPacketStream::write_ready empties the buffer, and takes the next
\* packet, or is blocked, or has met an error.
LEMMA WriteKeeps ==
    ASSUME Inv, NEW hup, WriteReady(scheduled, hup)
    PROVE  /\ HandlerTypes /\ BytesInOrder'
           /\ \A g : Holds(scheduled, g) => Holds(scheduled', g)
           /\ current' # << >> => sending' # << >> /\ current' = current
           /\ current # << >> /\ current' = << >> => Holds(scheduled', "recv_ready")
           /\ \/ sending' = << >> \/ Holds(scheduled', "write_ready")
              \/ blocked' /\ out_sock' # << >>
              \/ "out" \in gone
           /\ UNCHANGED <<produced, in_sock, consumed, edges, gone, errors>>
<1> USE PipeAssumption
<1> DEFINE w == WriteSize
<1>1. /\ TypeOK /\ BytesInOrder
      /\ UNCHANGED <<produced, in_sock, consumed, edges, gone, errors>>
      /\ out_sock' = out_sock \o Take(sending, w)
  BY DEF Inv, PipeInv, WriteReady
<1>2. scheduled \in Seq(Functions) /\ error_reported \subseteq FDs /\ "out" \in FDs
  BY <1>1 DEF TypeOK, FDs
<1>3. /\ w \in 0 .. Len(sending) /\ Len(out_sock) + w <= SockRoom
      /\ w < Len(sending) => "out" \in gone \/ Len(out_sock) + w = SockRoom
  <2>1. Len(out_sock) \in Nat /\ Len(out_sock) <= SockRoom /\ Len(sending) \in Nat
    BY <1>1, Buffers DEF TypeOK
  <2> QED BY <2>1 DEF WriteSize, Lesser
<1> HIDE DEF w
<1>4. /\ Take(sending, w) \in Seq(Byte) /\ Len(Take(sending, w)) = w
      /\ Drop(sending, w) \in Seq(Byte) /\ Len(Drop(sending, w)) = Len(sending) - w
      /\ w = Len(sending) => Take(sending, w) = sending
  BY <1>1, <1>3, Buffers, TakeDrop
<1>5. out_sock' \in Seq(Byte) /\ Len(out_sock') = Len(out_sock) + w
  BY <1>1, <1>4, Buffers, ConcatProperties, ZenonT(30)
<1>6. consumed \o out_sock' = (consumed \o out_sock) \o Take(sending, w)
  <2> DEFINE t == Take(sending, w)
  <2>1. consumed \in Seq(Byte) /\ out_sock \in Seq(Byte) /\ t \in Seq(Byte)
    BY <1>1, <1>4, Buffers
  <2> HIDE DEF t
  <2>2. (consumed \o out_sock) \o t = consumed \o (out_sock \o t)
    BY <2>1, Associative, SMTT(30)
  <2> USE DEF t
  <2> QED BY <1>1, <2>2
<1>7. CASE w = Len(sending)
  <2> DEFINE r == Append(scheduled, "send_ready")
             q == Sent(r, current)
  <2>1. /\ sending' = current /\ current' = << >> /\ blocked' = blocked
        /\ HandleError("out", hup, q)
    BY <1>7 DEF WriteReady, w
  <2>2. r \in Seq(Functions) /\ \A f : Holds(scheduled, f) => Holds(r, f)
    BY <1>2, HoldsAppend DEF Functions
  <2> HIDE DEF r
  <2>3. /\ q \in Seq(Functions) /\ \A f : Holds(scheduled, f) => Holds(q, f)
        /\ current # << >> => Holds(q, "write_ready") /\ Holds(q, "recv_ready")
    BY <2>2, SentKeeps
  <2> HIDE DEF q
  <2>4. HandlerTypes
    BY <1>1, <1>2, <1>3, <1>5, <2>1, <2>3, HandleErrorKeeps, Buffers, SMTT(30) DEF TypeOK, HandlerTypes
  <2>5. BytesInOrder'
    <3> DEFINE x == consumed \o out_sock \o sending
    <3>1. x \o current \in Seq(Byte)
      BY <1>1, Buffers
    <3>2. (x \o current) \o in_sock = [i \in 1 .. produced |-> i]
      BY <1>1 DEF BytesInOrder
    <3>3. (consumed \o out_sock)' = x
      BY <1>1, <1>4, <1>6, <1>7
    <3> HIDE DEF x
    <3>4. (x \o current) \o << >> = x \o current
      BY <3>1, EmptyJoin
    <3> QED BY <1>1, <2>1, <3>2, <3>3, <3>4 DEF BytesInOrder
  <2> QED BY <1>1, <1>2, <2>1, <2>3, <2>4, <2>5, HandleErrorKeeps
<1>8. CASE w # Len(sending)
  <2>1. /\ sending' = Drop(sending, w) /\ current' = current
        /\ blocked' = (blocked \/ "out" \notin gone)
    BY <1>8 DEF WriteReady, w
  <2>2. PICK failed : HandleError("out", failed, scheduled)
    BY <1>8 DEF WriteReady, w
  <2>3. HandlerTypes
    <3>1. blocked' \in BOOLEAN
      BY <1>1, <2>1, Zenon DEF TypeOK
    <3>2. Len(sending') <= MTU
      BY <1>1, <1>3, <1>4, <2>1, Buffers DEF TypeOK
    <3> QED BY <1>1, <1>2, <1>3, <1>4, <1>5, <2>1, <2>2, <3>1, <3>2, HandleErrorKeeps, Buffers
            DEF TypeOK, HandlerTypes
  <2>4. BytesInOrder'
    <3> DEFINE y == consumed \o out_sock
    <3>1. y \in Seq(Byte) /\ sending \in Seq(Byte)
      BY <1>1, Buffers
    <3>2. ((y \o sending) \o current) \o in_sock = [i \in 1 .. produced |-> i]
      BY <1>1 DEF BytesInOrder
    <3>3. (consumed \o out_sock)' = y \o Take(sending, w)
      BY <1>1, <1>6
    <3> HIDE DEF y
    <3>4. (y \o Take(sending, w)) \o Drop(sending, w) = y \o sending
      BY <1>3, <3>1, MoveFront
    <3> QED BY <1>1, <2>1, <3>2, <3>3, <3>4 DEF BytesInOrder
  <2>5. sending' # << >>
    BY <1>3, <1>4, <1>8, <2>1
  <2>6. "out" \notin gone => blocked' /\ out_sock' # << >>
    <3>1. "out" \notin gone => Len(out_sock') = SockRoom
      BY <1>3, <1>5, <1>8
    <3> QED BY <3>1, <2>1
  <2> QED BY <1>1, <1>2, <2>1, <2>2, <2>3, <2>4, <2>5, <2>6, HandleErrorKeeps
<1> QED BY <1>7, <1>8

-----------------------------------------------------------------------------
(* The steps of the reactor and of the environment.                        *)

\* Due in terms of the two queues.
LEMMA DueHolds == \A f : Due(f) <=> Holds(scheduled, f) \/ Holds(batch, f)
BY DEF Due, Holds

\* The same in the next state.
LEMMA DueHoldsNext == \A f : Due(f)' <=> Holds(scheduled', f) \/ Holds(batch', f)
BY DEF Due, Holds

\* Initially both streams have their handlers scheduled.
LEMMA InitInv == Init => Inv
<1> USE PipeAssumption
<1> SUFFICES ASSUME Init PROVE Inv
  OBVIOUS
<1>1. << >> \in Seq(Byte) /\ << >> \in Seq(Functions) /\ Len(<< >>) = 0
  OBVIOUS
<1>2. scheduled \in Seq(Functions)
  <2>1. /\ <<"recv_ready", "write_ready">> \in Seq(Functions)
        /\ <<"write_ready", "recv_ready">> \in Seq(Functions)
    BY DEF Functions
  <2> QED BY <2>1 DEF Init
<1>3. blocked \in BOOLEAN
  BY Zenon DEF Init
<1>4. TypeOK
  BY <1>1, <1>2, <1>3 DEF Init, TypeOK
<1>5. BytesInOrder
  BY DEF Init, BytesInOrder
<1>6. NoStuckBytes
  BY DEF Init, NoStuckBytes
<1>7. StepPhases
  BY DEF Init, StepPhases
<1> QED BY <1>4, <1>5, <1>6, <1>7 DEF Inv, PipeInv

\* A call of a scheduled function loses no other call that is due.
LEMMA RunScheduledInv ==
    ASSUME Inv, RunScheduled
    PROVE  Inv'
<1>1. TypeOK /\ BytesInOrder /\ NoStuckBytes
  BY DEF Inv, PipeInv
<1>2. batch # << >> /\ batch' = Tail(batch) /\ phase = "run" /\ UNCHANGED <<events, phase>>
  BY DEF RunScheduled
<1>3. batch \in Seq(Functions) /\ batch' \in Seq(Functions) /\ Head(batch) \in Functions
  BY <1>1, <1>2 DEF TypeOK
<1>4. \A f : Holds(batch, f) /\ f # Head(batch) => Holds(batch', f)
  BY <1>2, <1>3, HoldsTail
<1>5. StepPhases'
  BY <1>2 DEF Inv, PipeInv, StepPhases
<1>6. CASE Head(batch) = "recv_ready"
  <2>1. PiperRecvReady(scheduled, FALSE)
    BY <1>6 DEF RunScheduled
  <2>2. /\ HandlerTypes /\ BytesInOrder'
        /\ \A g : Holds(scheduled, g) => Holds(scheduled', g)
        /\ current' # << >> \/ in_sock' = << >>
        /\ current' = current \/ Holds(scheduled', "send_ready")
        /\ UNCHANGED <<produced, sending, out_sock, consumed, kernel, errors>>
    BY <2>1, RecvKeeps
  <2>3. TypeOK'
    BY <1>1, <1>2, <1>3, <2>2 DEF TypeOK, HandlerTypes, kernel
  <2>4. \A f : Due(f) /\ f # "recv_ready" => Due(f)'
    BY <1>4, <1>6, <2>2, DueHolds, DueHoldsNext
  <2>5. Holds(scheduled', "send_ready") => Due("send_ready")'
    BY DueHoldsNext
  <2>6. Edge("out") => Edge("out")'
    BY <1>2, <2>2 DEF Edge, Ready, kernel
  <2>7. NoStuckBytes'
    BY <1>1, <2>2, <2>4, <2>5, <2>6 DEF NoStuckBytes, kernel
  <2> QED BY <1>5, <2>2, <2>3, <2>7 DEF Inv, PipeInv
<1>7. CASE Head(batch) = "send_ready"
  <2>1. PiperSendReady(scheduled)
    BY <1>7 DEF RunScheduled
  <2>2. /\ HandlerTypes /\ BytesInOrder'
        /\ \A g : Holds(scheduled, g) => Holds(scheduled', g)
        /\ current' # << >> => sending' # << >> /\ current' = current
        /\ current # << >> /\ current' = << >> => Holds(scheduled', "recv_ready")
        /\ sending' = sending \/ sending' = << >> \/ Holds(scheduled', "write_ready")
        /\ UNCHANGED <<produced, in_sock, out_sock, consumed, kernel, errors>>
    BY <2>1, SendKeeps
  <2>3. TypeOK'
    BY <1>1, <1>2, <1>3, <2>2 DEF TypeOK, HandlerTypes, kernel
  <2>4. \A f : Due(f) /\ f # "send_ready" => Due(f)'
    BY <1>4, <1>7, <2>2, DueHolds, DueHoldsNext
  <2>5. \A f : Holds(scheduled', f) => Due(f)'
    BY DueHoldsNext
  <2>6. \A f \in FDs : Edge(f) => Edge(f)'
    BY <1>2, <2>2 DEF Edge, Ready, kernel
  <2>7. NoStuckBytes'
    BY <1>1, <2>2, <2>4, <2>5, <2>6 DEF NoStuckBytes, kernel, FDs
  <2> QED BY <1>5, <2>2, <2>3, <2>7 DEF Inv, PipeInv
<1>8. CASE Head(batch) = "write_ready"
  <2>1. WriteReady(scheduled, FALSE)
    BY <1>8 DEF RunScheduled
  <2>2. /\ HandlerTypes /\ BytesInOrder'
        /\ \A g : Holds(scheduled, g) => Holds(scheduled', g)
        /\ current' # << >> => sending' # << >> /\ current' = current
        /\ current # << >> /\ current' = << >> => Holds(scheduled', "recv_ready")
        /\ \/ sending' = << >> \/ Holds(scheduled', "write_ready")
           \/ blocked' /\ out_sock' # << >>
           \/ "out" \in gone
        /\ UNCHANGED <<produced, in_sock, consumed, edges, gone, errors>>
    BY <2>1, WriteKeeps
  <2>3. TypeOK'
    BY <1>1, <1>2, <1>3, <2>2 DEF TypeOK, HandlerTypes
  <2>4. \A f : Due(f) /\ f # "write_ready" => Due(f)'
    BY <1>4, <1>8, <2>2, DueHolds, DueHoldsNext
  <2>5. \A f : Holds(scheduled', f) => Due(f)'
    BY DueHoldsNext
  <2>6. Edge("in") => Edge("in")'
    BY <1>2, <2>2 DEF Edge, Ready
  <2>7. NoStuckBytes'
    BY <1>1, <2>2, <2>4, <2>5, <2>6 DEF NoStuckBytes
  <2> QED BY <1>5, <2>2, <2>3, <2>7 DEF Inv, PipeInv
<1>9. CASE Head(batch) \in {"error_in", "error_out"}
  <2>1. PICK f \in FDs : ErrorReady(f)
    BY <1>9 DEF RunScheduled, FDs
  <2>2. errors' \in [FDs -> Nat] /\ UNCHANGED <<data, kernel, error_reported, scheduled>>
    BY <1>1, <2>1 DEF ErrorReady, TypeOK
  <2>3. TypeOK' /\ BytesInOrder'
    BY <1>1, <1>2, <1>3, <2>2 DEF TypeOK, BytesInOrder, data, kernel
  <2>4. Due("recv_ready") => Due("recv_ready")'
    BY <1>4, <1>9, <2>2, DueHolds, DueHoldsNext
  <2>5. Due("send_ready") => Due("send_ready")'
    BY <1>4, <1>9, <2>2, DueHolds, DueHoldsNext
  <2>6. Due("write_ready") => Due("write_ready")'
    BY <1>4, <1>9, <2>2, DueHolds, DueHoldsNext
  <2>7. \A g \in FDs : Edge(g) => Edge(g)'
    BY <1>2, <2>2 DEF Edge, Ready, data, kernel
  <2>8. NoStuckBytes'
    BY <1>1, <2>2, <2>4, <2>5, <2>6, <2>7 DEF NoStuckBytes, data, kernel, FDs
  <2> QED BY <1>5, <2>3, <2>8 DEF Inv, PipeInv
<1> QED BY <1>3, <1>6, <1>7, <1>8, <1>9 DEF Functions

\* A dispatched event is one call of a handler of its descriptor, and nothing
\* else that is due is lost.
LEMMA DispatchInv ==
    ASSUME Inv, Dispatch
    PROVE  Inv'
<1>1. TypeOK /\ BytesInOrder /\ NoStuckBytes
  BY DEF Inv, PipeInv
<1>2. PICK ev \in events :
        /\ events' = events \ {ev}
        /\ \/ ev.fd = "in" /\ PiperRecvReady(scheduled, ev.error)
           \/ ev.fd = "out" /\ WriteReady(scheduled, ev.error)
  BY DEF Dispatch
<1>3. UNCHANGED <<batch, phase>> /\ StepPhases'
  BY DEF Dispatch, Inv, PipeInv, StepPhases
<1>4. \A f : Holds(scheduled', f) => Due(f)'
  BY DueHoldsNext
<1>5. CASE ev.fd = "in" /\ PiperRecvReady(scheduled, ev.error)
  <2>1. /\ HandlerTypes /\ BytesInOrder'
        /\ \A g : Holds(scheduled, g) => Holds(scheduled', g)
        /\ current' # << >> \/ in_sock' = << >>
        /\ current' = current \/ Holds(scheduled', "send_ready")
        /\ UNCHANGED <<produced, sending, out_sock, consumed, kernel, errors>>
    BY <1>5, RecvKeeps
  <2>2. TypeOK'
    BY <1>1, <1>2, <1>3, <2>1 DEF TypeOK, HandlerTypes, kernel
  <2>3. \A f : Due(f) => Due(f)'
    BY <1>3, <2>1, DueHolds, DueHoldsNext
  <2>4. Edge("out") => Edge("out")'
    BY <1>2, <1>5, <2>1 DEF Edge, Ready, kernel
  <2>5. NoStuckBytes'
    BY <1>1, <1>4, <2>1, <2>3, <2>4 DEF NoStuckBytes, kernel
  <2> QED BY <1>3, <2>1, <2>2, <2>5 DEF Inv, PipeInv
<1>6. CASE ev.fd = "out" /\ WriteReady(scheduled, ev.error)
  <2>1. /\ HandlerTypes /\ BytesInOrder'
        /\ \A g : Holds(scheduled, g) => Holds(scheduled', g)
        /\ current' # << >> => sending' # << >> /\ current' = current
        /\ current # << >> /\ current' = << >> => Holds(scheduled', "recv_ready")
        /\ \/ sending' = << >> \/ Holds(scheduled', "write_ready")
           \/ blocked' /\ out_sock' # << >>
           \/ "out" \in gone
        /\ UNCHANGED <<produced, in_sock, consumed, edges, gone, errors>>
    BY <1>6, WriteKeeps
  <2>2. TypeOK'
    BY <1>1, <1>2, <1>3, <2>1 DEF TypeOK, HandlerTypes
  <2>3. \A f : Due(f) => Due(f)'
    BY <1>3, <2>1, DueHolds, DueHoldsNext
  <2>4. Edge("in") => Edge("in")'
    BY <1>2, <1>6, <2>1 DEF Edge, Ready
  <2>5. NoStuckBytes'
    BY <1>1, <1>4, <2>1, <2>3, <2>4 DEF NoStuckBytes
  <2> QED BY <1>3, <2>1, <2>2, <2>5 DEF Inv, PipeInv
<1> QED BY <1>2, <1>5, <1>6

\* A step of Reactor::step that calls no handler loses no call that is due, and
\* epoll reports every edge whose condition holds.
LEMMA StepInv ==
    ASSUME Inv, StepStart \/ Wait \/ StepEnd \/ UNCHANGED vars
    PROVE  Inv'
<1>1. TypeOK /\ StepPhases /\ BytesInOrder /\ NoStuckBytes
  BY DEF Inv, PipeInv
<1>2. UNCHANGED <<data, blocked, gone, error_reported, errors>>
  BY DEF StepStart, Wait, StepEnd, vars, kernel, reactor
<1>3. /\ << >> \in Seq(Functions) /\ scheduled \in Seq(Functions) /\ batch \in Seq(Functions)
      /\ edges \subseteq FDs /\ events \subseteq [fd : FDs, error : BOOLEAN]
  BY <1>1 DEF TypeOK
<1>4. /\ scheduled' \in Seq(Functions) /\ batch' \in Seq(Functions) /\ edges' \subseteq FDs
      /\ phase' \in {"start", "run", "dispatch"} /\ StepPhases'
  <2>1. CASE StepStart
    BY <1>1, <1>3, <2>1 DEF StepStart, kernel, StepPhases
  <2>2. CASE Wait
    BY <1>1, <1>3, <2>2 DEF Wait, StepPhases
  <2>3. CASE StepEnd
    BY <1>1, <1>3, <2>3 DEF StepEnd, kernel, StepPhases
  <2>4. CASE UNCHANGED vars
    BY <1>1, <1>3, <2>4 DEF vars, kernel, reactor, StepPhases, TypeOK
  <2> QED BY <2>1, <2>2, <2>3, <2>4
<1>5. events' \subseteq [fd : FDs, error : BOOLEAN]
  <2>1. CASE Wait
    <3>1. events' = {[fd |-> f, error |-> f \in gone] : f \in {g \in edges : Ready(g)}}
      BY <2>1 DEF Wait
    <3>2. \A f \in FDs : (f \in gone) \in BOOLEAN
      OBVIOUS
    <3>3. \A f \in FDs : [fd |-> f, error |-> f \in gone] \in [fd : FDs, error : BOOLEAN]
      BY <3>2
    <3> QED BY <3>1, <3>3, <1>3
  <2>2. CASE ~Wait
    BY <1>3, <2>2 DEF StepStart, StepEnd, vars, kernel, reactor
  <2> QED BY <2>1, <2>2
<1>6. TypeOK' /\ BytesInOrder'
  BY <1>1, <1>2, <1>4, <1>5 DEF TypeOK, BytesInOrder, data
<1>7. \A f : Due(f) => Due(f)'
  <2>1. CASE StepStart
    <3>1. batch' = scheduled /\ batch = << >>
      BY <1>1, <2>1 DEF StepStart, StepPhases
    <3>2. \A f : ~Holds(<< >>, f)
      BY DEF Holds
    <3> QED BY <3>1, <3>2, DueHolds, DueHoldsNext
  <2>2. CASE ~StepStart
    BY <2>2 DEF Due, Wait, StepEnd, vars, kernel, reactor
  <2> QED BY <2>1, <2>2
<1>8. \A f \in FDs : Edge(f) => Edge(f)'
  <2>1. CASE Wait
    <3>1. /\ events' = {[fd |-> f, error |-> f \in gone] : f \in {g \in edges : Ready(g)}}
          /\ events = {}
      BY <1>1, <2>1 DEF Wait, StepPhases
    <3> SUFFICES ASSUME NEW f \in FDs, Edge(f)
                 PROVE  \E ev \in events' : ev.fd = f
      BY DEF Edge
    <3>2. f \in {g \in edges : Ready(g)}
      BY <3>1 DEF Edge
    <3>3. [fd |-> f, error |-> f \in gone] \in events'
      BY <3>1, <3>2, Zenon
    <3>4. [fd |-> f, error |-> f \in gone].fd = f
      OBVIOUS
    <3> QED BY <3>3, <3>4, Zenon
  <2>2. CASE ~Wait
    BY <1>2, <2>2 DEF Edge, Ready, StepStart, StepEnd, vars, kernel, reactor, data
  <2> QED BY <2>1, <2>2
<1>9. NoStuckBytes'
  BY <1>1, <1>2, <1>7, <1>8 DEF NoStuckBytes, data, FDs
<1> QED BY <1>4, <1>6, <1>9 DEF Inv, PipeInv

\* New bytes come with an edge.
LEMMA ProduceInv ==
    ASSUME Inv, Produce
    PROVE  Inv'
<1> USE PipeAssumption
<1>1. TypeOK /\ StepPhases /\ BytesInOrder /\ NoStuckBytes
  BY DEF Inv, PipeInv
<1>2. PICK n \in 1 .. SockRoom :
        /\ produced + n <= MaxBytes
        /\ in_sock' = in_sock \o [i \in 1 .. n |-> produced + i]
        /\ produced' = produced + n
  BY DEF Produce
<1>3. /\ edges' = edges \cup {"in"}
      /\ UNCHANGED <<current, sending, out_sock, consumed, blocked, gone, reactor,
                     error_reported, errors>>
  BY DEF Produce
<1> DEFINE new == [i \in 1 .. n |-> produced + i]
           x == consumed \o out_sock \o sending \o current
<1>4. produced \in 0 .. MaxBytes /\ n \in Nat /\ n > 0 /\ produced \in Nat
  BY <1>1 DEF TypeOK
<1>5. new \in Seq(Byte) /\ Len(new) = n /\ \A i \in 1 .. n : new[i] = produced + i
  <2>1. \A i \in 1 .. n : produced + i \in Byte
    BY <1>2, <1>4 DEF Byte
  <2>2. new \in [1 .. n -> Byte]
    BY <2>1
  <2>3. [1 .. n -> Byte] \in {[1 .. m -> Byte] : m \in Nat}
    BY <1>4
  <2>4. new \in Seq(Byte)
    BY <2>2, <2>3, SeqDef, Zenon
  <2> QED BY <2>4, <1>4
<1>6. x \in Seq(Byte) /\ in_sock \in Seq(Byte) /\ x \o in_sock = [i \in 1 .. produced |-> i]
  BY <1>1, Buffers DEF BytesInOrder
<1>7. x' = x /\ in_sock' = in_sock \o new /\ produced' = produced + n
  BY <1>2, <1>3
<1> HIDE DEF new, x
<1>8. in_sock' \in Seq(Byte) /\ in_sock' # << >>
  BY <1>4, <1>5, <1>6, <1>7, ConcatProperties
<1>9. TypeOK' /\ StepPhases'
  <2>1. produced' \in 0 .. MaxBytes /\ edges' \subseteq FDs
    BY <1>1, <1>2, <1>3, <1>4 DEF TypeOK, FDs
  <2> QED BY <1>1, <1>3, <1>8, <2>1 DEF TypeOK, reactor, StepPhases
<1>10. BytesInOrder'
  <2> DEFINE y == x \o in_sock
             z == [i \in 1 .. produced + n |-> i]
  <2>1. x \o (in_sock \o new) = y \o new
    <3>1. x \in Seq(Byte) /\ in_sock \in Seq(Byte) /\ new \in Seq(Byte)
      BY <1>5, <1>6
    <3> QED BY <3>1, Associative, ZenonT(30)
  <2>2. y \in Seq(Byte) /\ Len(y) = produced /\ \A i \in 1 .. produced : y[i] = i
    <3>1. y \in Seq(Byte)
      BY <1>6, ConcatProperties
    <3>2. y = [i \in 1 .. produced |-> i]
      BY <1>6
    <3> QED BY <1>4, <3>1, <3>2
  <2> HIDE DEF y
  <2>3. /\ y \o new \in Seq(Byte) /\ Len(y \o new) = produced + n
        /\ \A i \in 1 .. produced + n :
              (y \o new)[i] = IF i <= produced THEN y[i] ELSE new[i - produced]
    <3>1. /\ y \o new \in Seq(Byte) /\ Len(y \o new) = Len(y) + Len(new)
          /\ \A i \in 1 .. Len(y) + Len(new) :
                (y \o new)[i] = IF i <= Len(y) THEN y[i] ELSE new[i - Len(y)]
      BY <1>5, <2>2, ConcatProperties, ZenonT(30)
    <3> QED BY <1>5, <2>2, <3>1
  <2>4. \A i \in 1 .. produced + n : (y \o new)[i] = i
    <3> SUFFICES ASSUME NEW i \in 1 .. produced + n PROVE (y \o new)[i] = i
      OBVIOUS
    <3>1. CASE i <= produced
      BY <1>4, <2>2, <2>3, <3>1
    <3>2. CASE i > produced
      <4>1. i - produced \in 1 .. n
        BY <1>4, <3>2
      <4>2. new[i - produced] = i
        BY <1>4, <1>5, <4>1
      <4> QED BY <1>4, <2>3, <3>2, <4>2
    <3>3. i \in Int /\ (i <= produced \/ i > produced)
      BY <1>4
    <3> QED BY <3>1, <3>2, <3>3
  <2>5. y \o new = z
    <3>1. z \in Seq(Byte) /\ Len(z) = produced + n /\ \A i \in 1 .. produced + n : z[i] = i
      <4>1. produced + n \in Nat /\ \A i \in 1 .. produced + n : i \in Byte
        BY <1>2, <1>4 DEF Byte
      <4>2. z \in [1 .. produced + n -> Byte]
        BY <4>1
      <4>3. [1 .. produced + n -> Byte] \in {[1 .. m -> Byte] : m \in Nat}
        BY <4>1
      <4>4. z \in Seq(Byte)
        BY <4>2, <4>3, SeqDef, Zenon
      <4> QED BY <4>1, <4>4
    <3> HIDE DEF z
    <3> QED BY <2>3, <2>4, <3>1, SeqEqual
  <2> QED BY <1>7, <2>1, <2>5 DEF BytesInOrder, x
<1>11. NoStuckBytes'
  <2>1. \A f : Due(f) => Due(f)'
    BY <1>3 DEF Due, reactor
  <2>2. Edge("in")'
    BY <1>3, <1>8 DEF Edge, Ready
  <2>3. Edge("out") => Edge("out")'
    BY <1>3 DEF Edge, Ready, reactor
  <2> QED BY <1>1, <1>3, <2>1, <2>2, <2>3 DEF NoStuckBytes
<1> QED BY <1>9, <1>10, <1>11 DEF Inv, PipeInv

\* The reader makes room, with an edge if the writer had found none.
LEMMA ConsumeInv ==
    ASSUME Inv, Consume
    PROVE  Inv'
<1> USE PipeAssumption
<1>1. TypeOK /\ StepPhases /\ BytesInOrder /\ NoStuckBytes
  BY DEF Inv, PipeInv
<1>2. PICK n \in 1 .. Len(out_sock) :
        consumed' = consumed \o Take(out_sock, n) /\ out_sock' = Drop(out_sock, n)
  BY DEF Consume
<1>3. /\ edges' = IF blocked THEN edges \cup {"out"} ELSE edges
      /\ blocked' = FALSE
      /\ UNCHANGED <<produced, in_sock, current, sending, gone, reactor,
                     error_reported, errors>>
  BY DEF Consume
<1>4. /\ out_sock \in Seq(Byte) /\ consumed \in Seq(Byte)
      /\ Len(out_sock) \in Nat /\ Len(out_sock) <= SockRoom
  BY <1>1, Buffers DEF TypeOK
<1>5. /\ Take(out_sock, n) \in Seq(Byte) /\ Drop(out_sock, n) \in Seq(Byte)
      /\ Len(Drop(out_sock, n)) = Len(out_sock) - n
  BY <1>4, TakeDrop
<1>6. TypeOK' /\ StepPhases'
  <2>1. consumed' \in Seq(Byte) /\ out_sock' \in Seq(Byte) /\ Len(out_sock') < SockRoom
    BY <1>2, <1>4, <1>5, ConcatProperties
  <2>2. blocked' \in BOOLEAN
    BY <1>3, Zenon
  <2>3. edges' \subseteq FDs
    BY <1>1, <1>3 DEF TypeOK, FDs
  <2>4. Len(out_sock') <= SockRoom
    BY <1>4, <2>1
  <2>5. StepPhases'
    BY <1>1, <1>3 DEF StepPhases, reactor
  <2> QED BY <1>1, <1>3, <2>1, <2>2, <2>3, <2>4, <2>5 DEF TypeOK, reactor
<1>7. BytesInOrder'
  <2>1. (consumed \o Take(out_sock, n)) \o Drop(out_sock, n) = consumed \o out_sock
    <3>1. n \in 0 .. Len(out_sock)
      BY <1>4
    <3> QED BY <1>4, <3>1, MoveFront, Zenon
  <2> QED BY <1>1, <1>2, <1>3, <2>1 DEF BytesInOrder
<1>8. NoStuckBytes'
  <2>1. \A f : Due(f) => Due(f)'
    BY <1>3 DEF Due, reactor
  <2>2. Edge("in") => Edge("in")'
    BY <1>3 DEF Edge, Ready, reactor
  <2>3. Len(out_sock') < SockRoom
    BY <1>2, <1>4, <1>5
  <2>4. Edge("out") => Edge("out")'
    BY <1>3, <2>3 DEF Edge, Ready, reactor
  <2>5. blocked => Edge("out")'
    BY <1>3, <2>3 DEF Edge, Ready
  <2> QED BY <1>1, <1>3, <2>1, <2>2, <2>4, <2>5 DEF NoStuckBytes
<1> QED BY <1>6, <1>7, <1>8 DEF Inv, PipeInv

\* More edges, or a peer that closes, take no call away.
LEMMA WakeupInv ==
    ASSUME Inv, OtherWakeup \/ Break
    PROVE  Inv'
<1>1. TypeOK /\ StepPhases /\ BytesInOrder /\ NoStuckBytes
  BY DEF Inv, PipeInv
<1>2. /\ UNCHANGED <<data, blocked, reactor, error_reported, errors>>
      /\ edges \subseteq edges' /\ edges' \subseteq FDs
      /\ gone \subseteq gone' /\ gone' \subseteq FDs
  BY <1>1, PipeAssumption DEF OtherWakeup, Break, TypeOK
<1>3. TypeOK' /\ StepPhases' /\ BytesInOrder'
  BY <1>1, <1>2 DEF TypeOK, data, reactor, BytesInOrder, StepPhases
<1>4. \A f : Due(f) => Due(f)'
  BY <1>2 DEF Due, reactor
<1>5. \A f \in FDs : Edge(f) => Edge(f)'
  BY <1>2 DEF Edge, Ready, data, reactor
<1>6. NoStuckBytes'
  BY <1>1, <1>2, <1>4, <1>5 DEF NoStuckBytes, data, FDs
<1> QED BY <1>3, <1>6 DEF Inv, PipeInv

-----------------------------------------------------------------------------

\* The inductive invariant of the pipe.
LEMMA PipeInvariant == Spec => []Inv
<1>1. Inv /\ [Next]_vars => Inv'
  BY RunScheduledInv, DispatchInv, StepInv, ProduceInv, ConsumeInv, WakeupInv DEF Next
<1> QED BY InitInv, <1>1, PTL DEF Spec

\* No byte is lost, repeated or reordered between the descriptors, whatever the
\* sizes of reads and writes (FreePacketStream, Piper).
THEOREM PipeBytesInOrder == Spec => []PipeInv
<1>1. Inv => PipeInv
  BY DEF Inv
<1> QED BY PipeInvariant, <1>1, PTL

\* No order of edges, scheduled calls and full sockets leaves bytes in a buffer
\* with no call due that moves them (Piper under edge triggered epoll).
THEOREM PipeNoStuckBytes == Spec => []NoStuckBytes
<1>1. Inv => NoStuckBytes
  BY DEF Inv
<1> QED BY PipeInvariant, <1>1, PTL

=============================================================================
