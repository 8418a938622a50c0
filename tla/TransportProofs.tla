--------------------------- MODULE TransportProofs ---------------------------
(***************************************************************************)
(* Proofs about Transport, for any number of channels, any amount of data  *)
(* and any size of the reorder buffer and of the Multilink queue.          *)
(***************************************************************************)
EXTENDS Transport, FiniteSetTheorems, TLAPS

-----------------------------------------------------------------------------
(* Lemmas about the operators the actions are built from.                  *)

\* The other end is an end, and its other end is the first.
LEMMA PeerEnd == \A e \in Ends : Peer(e) \in Ends /\ Peer(e) # e /\ Peer(Peer(e)) = e
BY DEF Ends, Peer

\* Channel ids are numbers.
LEMMA ChannelsNat == Channels \subseteq Nat
BY ConstantsAssumption DEF Channels

\* Types of the entries of the variables that matter here.
LEMMA EntryTypes ==
    ASSUME TypeOK, NEW e \in Ends, NEW c \in Channels
    PROVE  /\ source[e][c] \in Seq(Data) /\ Len(source[e][c]) \in Nat
           /\ last_sent_packet[e][c] \in Nat
           /\ buffer[e][c] \in Seq(Data \cup {Empty}) /\ Len(buffer[e][c]) \in Nat
           /\ last_forwarded_packet[e][c] \in Nat
           /\ forwarded[e][c] \in Seq(Data) /\ Len(forwarded[e][c]) \in Nat
           /\ target_ready[e][c] \in BOOLEAN
<1>1. source[e][c] \in Seq(Data) /\ forwarded[e][c] \in Seq(Data)
  BY DEF TypeOK, PerChannel
<1>2. buffer[e][c] \in Seq(Data \cup {Empty})
  BY DEF TypeOK, PerChannel
<1>3. last_sent_packet[e][c] \in Nat /\ last_forwarded_packet[e][c] \in Nat
  BY DEF TypeOK, PerChannel
<1>4. target_ready[e][c] \in BOOLEAN
  BY DEF TypeOK, PerChannel
<1> QED BY <1>1, <1>2, <1>3, <1>4

\* A data packet names a channel, a number and a chunk.
LEMMA DataPacketFields ==
    ASSUME NEW p \in Packet, p.kind = "data"
    PROVE  p.id \in Channels /\ p.seq \in Nat /\ p.data \in Data
BY DEF Packet, DataPacket, ClosePacket

\* The chunks target->recv() has are those written and not yet sent.
LEMMA UnreadCount ==
    ASSUME NEW e \in Ends, NEW c \in Channels, TypeOK, SentInv
    PROVE  /\ Cardinality(Unread(e, c)) \in Nat
           /\ Cardinality(Unread(e, c)) <= Len(source[e][c]) - last_sent_packet[e][c]
<1>1. /\ last_sent_packet[e][c] \in Nat
      /\ Len(source[e][c]) \in Nat
      /\ last_sent_packet[e][c] <= Len(source[e][c])
  BY DEF TypeOK, PerChannel, SentInv
<1>2. CASE target[e][c] = "open"
  <2> DEFINE a == last_sent_packet[e][c]
             b == Len(source[e][c]) - 1
  <2>1. Unread(e, c) = a .. b
    BY <1>2 DEF Unread
  <2>2. a \in Int /\ b \in Int /\ a <= b + 1
    BY <1>1
  <2> HIDE DEF a, b
  <2>3. Cardinality(a .. b) = IF a > b THEN 0 ELSE b - a + 1
    BY <2>2, FS_Interval, Zenon
  <2>4. Cardinality(Unread(e, c)) = b - a + 1
    BY <2>1, <2>2, <2>3
  <2> QED BY <1>1, <2>4, SMTT(30) DEF a, b
<1>3. CASE target[e][c] # "open"
  <2>1. Unread(e, c) = {}
    BY <1>3 DEF Unread
  <2> QED BY <1>1, <2>1, FS_EmptySet
<1> QED BY <1>2, <1>3

\* Reading n more chunks, all of them written, yields well-formed packets.
LEMMA ChunksAreWritten ==
    ASSUME NEW e \in Ends, NEW c \in Channels, TypeOK, NEW n \in Nat,
           last_sent_packet[e][c] + n <= Len(source[e][c])
    PROVE  \A p \in Chunks(e, c, last_sent_packet[e][c], n) :
              /\ p \in DataPacket
              /\ p.kind = "data"
              /\ p.id = c
              /\ p.seq < last_sent_packet[e][c] + n
              /\ p.data = source[e][c][p.seq + 1]
<1> DEFINE sent == last_sent_packet[e][c]
<1>1. sent \in Nat /\ source[e][c] \in Seq(Data)
  BY DEF TypeOK, PerChannel
<1>2. TAKE p \in Chunks(e, c, sent, n)
<1>3. PICK i \in sent .. sent + n - 1 : p = DataMsg(e, c, i)
  BY <1>2 DEF Chunks
<1>4. i \in Nat /\ i + 1 \in 1 .. Len(source[e][c]) /\ i < sent + n
  BY <1>1, <1>3, SMTT(30)
<1>5. source[e][c][i + 1] \in Data
  BY <1>1, <1>4
<1> QED BY <1>3, <1>4, <1>5 DEF DataMsg, DataPacket

\* Splitting a buffer: what is forwarded and what stays.
LEMMA SplitBuffer ==
    ASSUME NEW S, NEW b \in Seq(S), NEW n \in 0 .. Len(b)
    PROVE  /\ SubSeq(b, 1, n) \in Seq(S)
           /\ Len(SubSeq(b, 1, n)) = n
           /\ \A i \in 1 .. n : SubSeq(b, 1, n)[i] = b[i]
           /\ SubSeq(b, n + 1, Len(b)) \in Seq(S)
           /\ Len(SubSeq(b, n + 1, Len(b))) = Len(b) - n
           /\ \A i \in 1 .. Len(b) - n : SubSeq(b, n + 1, Len(b))[i] = b[n + i]
  OBVIOUS

\* Appending one sequence to another.
LEMMA Concatenation ==
    ASSUME NEW S, NEW s \in Seq(S), NEW t \in Seq(S)
    PROVE  /\ s \o t \in Seq(S)
           /\ Len(s \o t) = Len(s) + Len(t)
           /\ \A i \in 1 .. Len(s) + Len(t) :
                 (s \o t)[i] = IF i <= Len(s) THEN s[i] ELSE t[i - Len(s)]
  OBVIOUS

\* Placing a packet keeps the other slots and fills new ones with nothing.
LEMMA PlacedBuffer ==
    ASSUME NEW b \in Seq(Data \cup {Empty}), NEW rel \in Nat, NEW d \in Data
    PROVE  /\ Placed(b, rel, d) \in Seq(Data \cup {Empty})
           /\ Len(Placed(b, rel, d)) >= rel + 1
           /\ Len(Placed(b, rel, d)) \in Nat
           /\ \A i \in 1 .. Len(Placed(b, rel, d)) :
                 Placed(b, rel, d)[i] = IF i = rel + 1 THEN d
                                        ELSE IF i <= Len(b) THEN b[i] ELSE Empty
  BY DEF Placed, Larger

\* Finitely many packets carry finitely many chunks or closes.
LEMMA ChunksFinite ==
    ASSUME NEW e, NEW c, NEW from \in Int, NEW n \in Int
    PROVE  IsFiniteSet(Chunks(e, c, from, n))
<1> DEFINE I == from .. from + n - 1
           f == [i \in I |-> DataMsg(e, c, i)]
<1>1. IsFiniteSet(I)
  BY FS_Interval
<1>2. f \in Surjection(I, Chunks(e, c, from, n))
  BY DEF Surjection, Chunks
<1> HIDE DEF I, f
<1> QED BY <1>1, <1>2, FS_Surjection, Zenon

\* The CLOSE packets taken from the front of a queue are finitely many.
LEMMA ClosesFinite ==
    ASSUME NEW sq, NEW n \in Int
    PROVE  IsFiniteSet({CloseMsg(sq[i]) : i \in 1 .. n})
<1> DEFINE I == 1 .. n
           T == {CloseMsg(sq[i]) : i \in I}
           f == [i \in I |-> CloseMsg(sq[i])]
<1>1. IsFiniteSet(I)
  BY FS_Interval
<1>2. f \in Surjection(I, T)
  BY DEF Surjection
<1>3. ASSUME NEW J, IsFiniteSet(J), NEW U, NEW g \in Surjection(J, U)
      PROVE  IsFiniteSet(U)
  BY <1>3, FS_Surjection, Zenon
<1> HIDE DEF f
<1> QED BY <1>1, <1>2, <1>3

\* What network_send_ready reads from all the children is finite.
LEMMA AllChunksFinite ==
    ASSUME NEW e, NEW from \in [Channels -> Int], NEW n \in [Channels -> Int]
    PROVE  IsFiniteSet(UNION {Chunks(e, c, from[c], n[c]) : c \in Channels})
<1> DEFINE T == {Chunks(e, c, from[c], n[c]) : c \in Channels}
           f == [c \in Channels |-> Chunks(e, c, from[c], n[c])]
<1>1. IsFiniteSet(Channels)
  BY ConstantsAssumption, FS_Interval DEF Channels
<1>2. f \in Surjection(Channels, T)
  BY DEF Surjection
<1>3. \A S \in T : IsFiniteSet(S)
  BY ChunksFinite
<1> HIDE DEF T, f
<1>4. IsFiniteSet(T)
  BY <1>1, <1>2, FS_Surjection, Zenon
<1>5. IsFiniteSet(UNION T)
  BY <1>3, <1>4, FS_UNION, Zenon
<1> QED BY <1>5 DEF T

\* Room is a number of packets.
LEMMA RoomNat ==
    ASSUME TypeOK, NEW e \in Ends
    PROVE  Room(e) \in Nat
<1>1. Cardinality(queued[e]) \in Nat
  BY FS_CardinalityType DEF TypeOK
<1> QED BY <1>1, ConstantsAssumption DEF Room

-----------------------------------------------------------------------------
(* The inductive invariant.                                                *)

Inv == TypeOK /\ OrderInv

\* Initially nothing was written, sent or received.
LEMMA InitInv == Init => Inv
<1> SUFFICES ASSUME Init PROVE Inv
  OBVIOUS
<1>1. TypeOK
  BY ConstantsAssumption, FS_EmptySet DEF Init, TypeOK, PerChannel, All, Channels
<1>2. OrderInv
  BY PeerEnd DEF Init, All, OrderInv, SentInv, PacketInv, BufferInv, CountInv, InOrder, Prefix
<1> QED BY <1>1, <1>2 DEF Inv

\* Slot i of what stays after n of l packets is slot n + i of the buffer.
LEMMA SlotArithmetic ==
    \A k, n, l \in Nat : \A i \in 1 .. l - n :
        n + i \in 1 .. l /\ k + (n + i) = (k + n) + i
OBVIOUS

\* target_send_ready forwards packets that carry the next chunks in order.
LEMMA ForwardInOrder ==
    ASSUME Inv, NEW e \in Ends, NEW c \in Channels,
           NEW b \in Seq(Data \cup {Empty}), NEW open, NEW ready \in BOOLEAN,
           \A i \in 1 .. Len(b) : b[i] # Empty =>
               /\ last_forwarded_packet[e][c] + i <= Len(source[Peer(e)][c])
               /\ b[i] = source[Peer(e)][c][last_forwarded_packet[e][c] + i],
           Forward(e, c, b, open, ready),
           UNCHANGED source
    PROVE  /\ buffer' \in PerChannel(Seq(Data \cup {Empty}))
           /\ forwarded' \in PerChannel(Seq(Data))
           /\ last_forwarded_packet' \in PerChannel(Nat)
           /\ target_ready' \in PerChannel(BOOLEAN)
           /\ BufferInv' /\ CountInv' /\ InOrder'
<1> DEFINE lfp == last_forwarded_packet[e][c]
           fwd == forwarded[e][c]
           src == source[Peer(e)][c]
<1>1. PICK o \in Forwarding(b, open, ready) :
        /\ buffer' = [buffer EXCEPT ![e][c] = SubSeq(b, o.n + 1, Len(b))]
        /\ forwarded' = [forwarded EXCEPT ![e][c] = fwd \o SubSeq(b, 1, o.n)]
        /\ last_forwarded_packet' = [last_forwarded_packet EXCEPT ![e][c] = lfp + o.n]
        /\ target_ready' = [target_ready EXCEPT ![e][c] = o.ready]
  BY DEF Forward
<1> DEFINE n == o.n
           front == SubSeq(b, 1, n)
           rest == SubSeq(b, n + 1, Len(b))
<1>2. n \in 0 .. Len(b) /\ o.ready \in BOOLEAN /\ \A i \in 1 .. n : b[i] # Empty
  BY DEF Forwarding
<1>3. /\ lfp \in Nat /\ fwd \in Seq(Data) /\ src \in Seq(Data) /\ lfp = Len(fwd)
      /\ Prefix(fwd, src)
      /\ Peer(e) \in Ends
  BY PeerEnd DEF Inv, TypeOK, PerChannel, OrderInv, CountInv, InOrder
<1>4. /\ front \in Seq(Data \cup {Empty}) /\ Len(front) = n
      /\ \A i \in 1 .. n : front[i] = b[i]
      /\ rest \in Seq(Data \cup {Empty}) /\ Len(rest) = Len(b) - n
      /\ \A i \in 1 .. Len(b) - n : rest[i] = b[n + i]
  BY <1>2, SplitBuffer, SMTT(30)
<1>n. lfp \in Nat /\ n \in Nat /\ Len(b) \in Nat /\ n <= Len(b) /\ lfp = Len(fwd) /\ Len(front) = n
  BY <1>2, <1>3, <1>4
<1> HIDE DEF front, rest, n
<1>5. \A i \in 1 .. n : lfp + i <= Len(src) /\ front[i] = src[lfp + i] /\ front[i] \in Data
  <2>1. TAKE i \in 1 .. n
  <2>2. i \in 1 .. Len(b) /\ b[i] # Empty /\ front[i] = b[i]
    BY <1>2, <1>4
  <2>3. b[i] \in Data
    BY <2>2
  <2> QED BY <2>2, <2>3
<1>6. front \in Seq(Data)
  BY <1>2, <1>4, <1>5
<1>7. /\ fwd \o front \in Seq(Data)
      /\ Len(fwd \o front) = lfp + n
      /\ Prefix(fwd \o front, src)
  <2>1. /\ fwd \o front \in Seq(Data)
        /\ Len(fwd \o front) = lfp + n
        /\ \A i \in 1 .. lfp + n :
              (fwd \o front)[i] = IF i <= lfp THEN fwd[i] ELSE front[i - lfp]
    <3>1. /\ fwd \o front \in Seq(Data)
          /\ Len(fwd \o front) = Len(fwd) + Len(front)
          /\ \A i \in 1 .. Len(fwd) + Len(front) :
                (fwd \o front)[i] = IF i <= Len(fwd) THEN fwd[i] ELSE front[i - Len(fwd)]
      BY <1>3, <1>6, Concatenation
    <3> QED BY <3>1, <1>n
  <2>2. lfp + n <= Len(src)
    <3>1. CASE n = 0
      BY <3>1, <1>3 DEF Prefix
    <3>2. CASE n # 0
      <4>1. n \in 1 .. n
        BY <3>2, <1>2
      <4> QED BY <4>1, <1>5
    <3> QED BY <3>1, <3>2
  <2>3. ASSUME NEW i \in 1 .. lfp + n
        PROVE  (fwd \o front)[i] = src[i]
    <3>1. CASE i <= lfp
      BY <3>1, <2>1, <1>3 DEF Prefix
    <3>2. CASE i > lfp
      <4>1. i - lfp \in 1 .. n /\ lfp + (i - lfp) = i
        BY <3>2, <1>2, <1>3
      <4>2. front[i - lfp] = src[lfp + (i - lfp)]
        BY <4>1, <1>5
      <4>3. (fwd \o front)[i] = front[i - lfp]
        BY <3>2, <2>1, <1>3
      <4> QED BY <4>1, <4>2, <4>3
    <3> QED BY <3>1, <3>2, <1>n
  <2> QED BY <2>1, <2>2, <2>3 DEF Prefix
<1>8. \A i \in 1 .. Len(rest) : rest[i] # Empty =>
          /\ (lfp + n) + i <= Len(src)
          /\ rest[i] = src[(lfp + n) + i]
  <2>1. TAKE i \in 1 .. Len(rest)
  <2>2. HAVE rest[i] # Empty
  <2>3. n + i \in 1 .. Len(b) /\ rest[i] = b[n + i] /\ lfp + (n + i) = (lfp + n) + i
    <3>1. i \in 1 .. Len(b) - n
      BY <2>1, <1>4
    <3>2. rest[i] = b[n + i]
      BY <3>1, <1>4
    <3> HIDE DEF lfp
    <3>3. n + i \in 1 .. Len(b) /\ lfp + (n + i) = (lfp + n) + i
      <4>1. lfp \in Nat /\ n \in Nat /\ Len(b) \in Nat
        BY <1>n, Zenon
      <4> HIDE DEF fwd, src
      <4> QED BY <3>1, <4>1, SlotArithmetic, SMTT(30)
    <3> QED BY <3>2, <3>3
  <2> QED BY <2>2, <2>3
<1> HIDE DEF lfp, fwd, src
<1>9. /\ buffer' = [buffer EXCEPT ![e][c] = rest]
      /\ forwarded' = [forwarded EXCEPT ![e][c] = fwd \o front]
      /\ last_forwarded_packet' = [last_forwarded_packet EXCEPT ![e][c] = lfp + n]
      /\ target_ready' = [target_ready EXCEPT ![e][c] = o.ready]
  BY <1>1 DEF front, rest, n, lfp, fwd
<1>10. /\ buffer \in PerChannel(Seq(Data \cup {Empty}))
       /\ forwarded \in PerChannel(Seq(Data))
       /\ last_forwarded_packet \in PerChannel(Nat)
       /\ target_ready \in PerChannel(BOOLEAN)
  BY DEF Inv, TypeOK
<1>11. /\ buffer' \in PerChannel(Seq(Data \cup {Empty}))
       /\ forwarded' \in PerChannel(Seq(Data))
       /\ last_forwarded_packet' \in PerChannel(Nat)
       /\ target_ready' \in PerChannel(BOOLEAN)
  <2>1. lfp + n \in Nat
    BY <1>2, <1>3 DEF n
  <2> QED BY <1>2, <1>4, <1>7, <1>9, <1>10, <2>1 DEF PerChannel
<1>12. ASSUME NEW x \in Ends, NEW d \in Channels
       PROVE  /\ \A i \in 1 .. Len(buffer'[x][d]) : buffer'[x][d][i] # Empty =>
                    /\ last_forwarded_packet'[x][d] + i <= Len(source'[Peer(x)][d])
                    /\ buffer'[x][d][i] = source'[Peer(x)][d][last_forwarded_packet'[x][d] + i]
              /\ last_forwarded_packet'[x][d] = Len(forwarded'[x][d])
              /\ Prefix(forwarded'[x][d], source'[Peer(x)][d])
  <2>1. CASE x = e /\ d = c
    <3>1. /\ buffer'[x][d] = rest /\ forwarded'[x][d] = fwd \o front
          /\ last_forwarded_packet'[x][d] = lfp + n
          /\ source'[Peer(x)][d] = src
      BY <2>1, <1>9, <1>10 DEF PerChannel, src
    <3> QED BY <3>1, <1>7, <1>8
  <2>2. CASE ~(x = e /\ d = c)
    <3>1. /\ buffer'[x][d] = buffer[x][d] /\ forwarded'[x][d] = forwarded[x][d]
          /\ last_forwarded_packet'[x][d] = last_forwarded_packet[x][d]
          /\ source'[Peer(x)][d] = source[Peer(x)][d]
      BY <2>2, <1>9, <1>10 DEF PerChannel
    <3> QED BY <3>1 DEF Inv, OrderInv, BufferInv, CountInv, InOrder
  <2> QED BY <2>1, <2>2
<1> QED BY <1>11, <1>12 DEF BufferInv, CountInv, InOrder

-----------------------------------------------------------------------------
(* One lemma per action.                                                   *)

\* A step that leaves source, counters and buffers alone and adds no data
\* packet keeps OrderInv.
LEMMA OrderUnaffected ==
    ASSUME OrderInv, UNCHANGED <<source, last_sent_packet, recvVars>>,
           \A e \in Ends : \A p \in queued'[e] \cup net'[e] :
               p.kind = "data" => p \in queued[e] \cup net[e]
    PROVE  OrderInv'
<1>1. PacketInv'
  BY DEF OrderInv, PacketInv
<1>2. SentInv' /\ BufferInv' /\ CountInv' /\ InOrder'
  BY DEF OrderInv, SentInv, BufferInv, CountInv, InOrder, recvVars
<1> QED BY <1>1, <1>2 DEF OrderInv

\* Accepting a connection changes nothing that was sent or received.
LEMMA AddTargetInv == Inv /\ AddTarget => Inv'
<1> SUFFICES ASSUME Inv, AddTarget PROVE Inv'
  OBVIOUS
<1>1. next_id' \in 0 .. MaxChannels
  BY ConstantsAssumption DEF Inv, TypeOK, AddTarget
<1>2. TypeOK'
  BY <1>1 DEF Inv, TypeOK, PerChannel, AddTarget, sendVars, recvVars
<1>3. OrderInv'
  BY OrderUnaffected DEF Inv, AddTarget, sendVars
<1> QED BY <1>2, <1>3 DEF Inv

\* A packet that moves from the queue to a link stays the same packet.
LEMMA TransmitInv ==
    ASSUME Inv, NEW e \in Ends, NEW p \in queued[e], Transmit(e, p)
    PROVE  Inv'
<1>1. p \in Packet
  BY DEF Inv, TypeOK
<1>2. queued' \in [Ends -> SUBSET Packet] /\ net' \in [Ends -> SUBSET Packet]
  BY <1>1 DEF Inv, TypeOK, Transmit
<1>3. ASSUME NEW x \in Ends PROVE IsFiniteSet(queued'[x])
  <2>1. CASE x = e
    <3>1. queued'[x] = queued[e] \ {p}
      BY <2>1 DEF Inv, TypeOK, Transmit
    <3> QED BY <3>1, FS_RemoveElement DEF Inv, TypeOK
  <2>2. CASE x # e
    BY <2>2 DEF Inv, TypeOK, Transmit
  <2> QED BY <2>1, <2>2
<1>4. TypeOK'
  BY <1>2, <1>3 DEF Inv, TypeOK, Transmit, sendVars, recvVars
<1>5. \A x \in Ends : queued'[x] \cup net'[x] \subseteq queued[x] \cup net[x]
  BY DEF Inv, TypeOK, Transmit
<1>6. OrderInv'
  BY <1>5, OrderUnaffected DEF Inv, Transmit, sendVars
<1> QED BY <1>4, <1>6 DEF Inv

\* A chunk written at the end of a channel leaves earlier numbers valid.
LEMMA AppWriteInv ==
    ASSUME Inv, NEW e \in Ends, NEW c \in Channels, NEW d \in Data, AppWrite(e, c, d)
    PROVE  Inv'
<1>1. source \in PerChannel(Seq(Data))
  BY DEF Inv, TypeOK
<1>2. source' = [source EXCEPT ![e][c] = Append(source[e][c], d)]
  BY DEF AppWrite
<1>3. ASSUME NEW x \in Ends, NEW k \in Channels
      PROVE  /\ source'[x][k] \in Seq(Data)
             /\ Len(source[x][k]) <= Len(source'[x][k])
             /\ \A i \in 1 .. Len(source[x][k]) : source'[x][k][i] = source[x][k][i]
  <2>1. source[x][k] \in Seq(Data)
    BY <1>1 DEF PerChannel
  <2>2. CASE x = e /\ k = c
    <3>1. source'[x][k] = Append(source[x][k], d)
      BY <2>2, <1>1, <1>2 DEF PerChannel
    <3> QED BY <3>1, <2>1
  <2>3. CASE ~(x = e /\ k = c)
    <3>1. source'[x][k] = source[x][k]
      BY <2>3, <1>1, <1>2 DEF PerChannel
    <3> QED BY <3>1, <2>1
  <2> QED BY <2>2, <2>3
<1>4. source' \in PerChannel(Seq(Data))
  BY <1>1, <1>2, <1>3 DEF PerChannel
<1>5. TypeOK'
  BY <1>4 DEF Inv, TypeOK, AppWrite, recvVars, PerChannel
<1>6. OrderInv'
  <2>1. SentInv'
    <3> SUFFICES ASSUME NEW x \in Ends, NEW k \in Channels
                 PROVE  last_sent_packet'[x][k] <= Len(source'[x][k])
      BY DEF SentInv
    <3>1. /\ last_sent_packet'[x][k] = last_sent_packet[x][k]
          /\ last_sent_packet[x][k] \in Nat
          /\ last_sent_packet[x][k] <= Len(source[x][k])
      BY DEF Inv, TypeOK, PerChannel, OrderInv, SentInv, AppWrite
    <3>2. Len(source[x][k]) \in Nat /\ Len(source'[x][k]) \in Nat
      BY <1>1, <1>4 DEF PerChannel
    <3> QED BY <3>1, <3>2, <1>3
  <2>2. PacketInv'
    <3> SUFFICES ASSUME NEW x \in Ends, NEW p \in queued'[x] \cup net'[x], p.kind = "data"
                 PROVE  /\ p.seq < last_sent_packet'[x][p.id]
                        /\ p.data = source'[x][p.id][p.seq + 1]
      BY DEF PacketInv
    <3>1. /\ p \in queued[x] \cup net[x] /\ p \in Packet
          /\ last_sent_packet' = last_sent_packet
      BY DEF Inv, TypeOK, AppWrite
    <3>2. p.id \in Channels /\ p.seq \in Nat
      BY <3>1, DataPacketFields
    <3>3. /\ p.seq < last_sent_packet[x][p.id]
          /\ p.data = source[x][p.id][p.seq + 1]
      BY <3>1 DEF Inv, OrderInv, PacketInv
    <3>4. /\ last_sent_packet[x][p.id] \in Nat
          /\ last_sent_packet[x][p.id] <= Len(source[x][p.id])
          /\ Len(source[x][p.id]) \in Nat
      BY <3>2, EntryTypes DEF Inv, OrderInv, SentInv
    <3>5. p.seq + 1 \in 1 .. Len(source[x][p.id])
      BY <3>2, <3>3, <3>4
    <3> QED BY <3>1, <3>2, <3>3, <3>5, <1>3
  <2>3. BufferInv'
    <3>0. buffer' = buffer /\ last_forwarded_packet' = last_forwarded_packet
      BY DEF AppWrite, recvVars
    <3> SUFFICES ASSUME NEW x \in Ends, NEW k \in Channels,
                        NEW i \in 1 .. Len(buffer[x][k]), buffer[x][k][i] # Empty
                 PROVE  /\ last_forwarded_packet[x][k] + i <= Len(source'[Peer(x)][k])
                        /\ buffer[x][k][i] = source'[Peer(x)][k][last_forwarded_packet[x][k] + i]
      BY <3>0 DEF BufferInv
    <3>1. /\ last_forwarded_packet[x][k] + i <= Len(source[Peer(x)][k])
          /\ buffer[x][k][i] = source[Peer(x)][k][last_forwarded_packet[x][k] + i]
      BY DEF Inv, OrderInv, BufferInv
    <3>2. /\ Peer(x) \in Ends
          /\ last_forwarded_packet[x][k] \in Nat
          /\ Len(buffer[x][k]) \in Nat
      BY PeerEnd, EntryTypes DEF Inv
    <3>3. Len(source[Peer(x)][k]) \in Nat /\ Len(source'[Peer(x)][k]) \in Nat
      <4>1. source[Peer(x)][k] \in Seq(Data)
        BY <3>2, <1>1 DEF PerChannel
      <4>2. source'[Peer(x)][k] \in Seq(Data)
        BY <3>2, <1>3
      <4> QED BY <4>1, <4>2
    <3>4. last_forwarded_packet[x][k] + i \in 1 .. Len(source[Peer(x)][k])
      BY <3>1, <3>2, <3>3
    <3>5. /\ Len(source[Peer(x)][k]) <= Len(source'[Peer(x)][k])
          /\ \A j \in 1 .. Len(source[Peer(x)][k]) :
                source'[Peer(x)][k][j] = source[Peer(x)][k][j]
      BY <3>2, <1>3
    <3>6. source'[Peer(x)][k][last_forwarded_packet[x][k] + i]
              = source[Peer(x)][k][last_forwarded_packet[x][k] + i]
      BY <3>4, <3>5
    <3>7. last_forwarded_packet[x][k] + i <= Len(source'[Peer(x)][k])
      BY <3>3, <3>4, <3>5
    <3> QED BY <3>1, <3>6, <3>7
  <2>4. CountInv'
    BY DEF Inv, OrderInv, CountInv, AppWrite, recvVars
  <2>5. InOrder'
    <3> SUFFICES ASSUME NEW x \in Ends, NEW k \in Channels
                 PROVE  Prefix(forwarded[x][k], source'[Peer(x)][k])
      BY DEF InOrder, AppWrite, recvVars
    <3>1. Prefix(forwarded[x][k], source[Peer(x)][k]) /\ Peer(x) \in Ends
      BY PeerEnd DEF Inv, OrderInv, InOrder
    <3>2. /\ Len(forwarded[x][k]) \in Nat
          /\ Len(source[Peer(x)][k]) \in Nat /\ Len(source'[Peer(x)][k]) \in Nat
      BY <3>1, <1>4, EntryTypes DEF Inv, PerChannel
    <3> QED BY <3>1, <3>2, <1>3, SMTT(30) DEF Prefix
  <2> QED BY <2>1, <2>2, <2>3, <2>4, <2>5 DEF OrderInv
<1> QED BY <1>5, <1>6 DEF Inv

\* target_recv_ready sends the next unread chunks under their numbers.
LEMMA TargetRecvReadyInv ==
    ASSUME Inv, NEW e \in Ends, NEW c \in Channels, TargetRecvReady(e, c)
    PROVE  Inv'
<1> DEFINE n == Lesser(Room(e), Cardinality(Unread(e, c)))
           sent == last_sent_packet[e][c]
           new == Chunks(e, c, sent, n)
<1>1. n \in Nat /\ sent \in Nat /\ sent + n <= Len(source[e][c]) /\ Len(source[e][c]) \in Nat
  BY UnreadCount, RoomNat, EntryTypes DEF Lesser, Inv, OrderInv
<1>2. \A p \in new : /\ p \in DataPacket /\ p.kind = "data" /\ p.id = c
                   /\ p.seq < sent + n /\ p.data = source[e][c][p.seq + 1]
  BY <1>1, ChunksAreWritten, SMTT(30) DEF Inv
<1>3. IsFiniteSet(new)
  BY <1>1, ChunksFinite
<1> HIDE DEF n, new
<1>4. /\ last_sent_packet' = [last_sent_packet EXCEPT ![e][c] = sent + n]
      /\ queued' = [queued EXCEPT ![e] = queued[e] \cup new]
      /\ readable' = [readable EXCEPT ![e][c] = FALSE]
      /\ UNCHANGED <<next_id, target, target_ready, source, recvVars,
                     special_packet_queue, net, failed>>
  BY DEF TargetRecvReady, n, new
<1>5. TypeOK'
  <2>1. queued' \in [Ends -> SUBSET Packet]
    BY <1>2, <1>4 DEF Inv, TypeOK, Packet
  <2>2. \A x \in Ends : IsFiniteSet(queued'[x])
    BY <1>3, <1>4, FS_Union DEF Inv, TypeOK
  <2>3. last_sent_packet' \in PerChannel(Nat)
    BY <1>1, <1>4 DEF Inv, TypeOK, PerChannel
  <2>4. readable' \in PerChannel(BOOLEAN)
    BY <1>4 DEF Inv, TypeOK, PerChannel
  <2> QED BY <1>4, <2>1, <2>2, <2>3, <2>4 DEF Inv, TypeOK, recvVars
<1>6. OrderInv'
  <2>1. ASSUME NEW x \in Ends, NEW k \in Channels
        PROVE  /\ last_sent_packet'[x][k] = IF x = e /\ k = c THEN sent + n
                                                             ELSE last_sent_packet[x][k]
               /\ last_sent_packet[x][k] <= last_sent_packet'[x][k]
    <3>1. last_sent_packet \in PerChannel(Nat)
      BY DEF Inv, TypeOK
    <3>2. last_sent_packet'[x][k] = IF x = e /\ k = c THEN sent + n ELSE last_sent_packet[x][k]
      BY <3>1, <1>4 DEF PerChannel
    <3>3. last_sent_packet[x][k] \in Nat
      BY <3>1 DEF PerChannel
    <3> QED BY <3>2, <3>3, <1>1
  <2>2. SentInv'
    BY <1>1, <1>4, <2>1 DEF SentInv, Inv, OrderInv
  <2>3. PacketInv'
    <3> SUFFICES ASSUME NEW x \in Ends, NEW p \in queued'[x] \cup net'[x], p.kind = "data"
                 PROVE  /\ p.seq < last_sent_packet'[x][p.id]
                        /\ p.data = source[x][p.id][p.seq + 1]
      BY <1>4 DEF PacketInv
    <3>1. CASE p \in queued[x] \cup net[x]
      <4>1. p.id \in Channels /\ p.seq \in Nat
        BY <3>1, DataPacketFields DEF Inv, TypeOK
      <4>2. p.seq < last_sent_packet[x][p.id] /\ p.data = source[x][p.id][p.seq + 1]
        BY <3>1 DEF Inv, OrderInv, PacketInv
      <4>3. last_sent_packet[x][p.id] \in Nat /\ last_sent_packet[x][p.id] <= last_sent_packet'[x][p.id]
            /\ last_sent_packet'[x][p.id] \in Nat
        BY <4>1, <2>1, <1>1, EntryTypes DEF Inv
      <4> QED BY <4>1, <4>2, <4>3
    <3>2. CASE p \notin queued[x] \cup net[x]
      <4>1. x = e /\ p \in new
        BY <3>2, <1>4 DEF Inv, TypeOK
      <4> QED BY <4>1, <1>2, <2>1
    <3> QED BY <3>1, <3>2
  <2>4. BufferInv' /\ CountInv' /\ InOrder'
    BY <1>4 DEF Inv, OrderInv, BufferInv, CountInv, InOrder, recvVars
  <2> QED BY <2>2, <2>3, <2>4 DEF OrderInv
<1> QED BY <1>5, <1>6 DEF Inv

\* network_send_ready does so for every child, after the CLOSE packets.
LEMMA NetworkSendReadyInv ==
    ASSUME Inv, NEW e \in Ends, NetworkSendReady(e)
    PROVE  Inv'
<1> DEFINE sq == special_packet_queue[e]
           sent == last_sent_packet[e]
           n == SpecialsFirst(e)
           closes == {CloseMsg(sq[i]) : i \in 1 .. n}
<1>1. PICK take \in Rounds(e, Room(e) - n) :
        /\ queued' = [queued EXCEPT ![e] =
               @ \cup closes \cup UNION {Chunks(e, c, sent[c], take[c]) : c \in Channels}]
        /\ last_sent_packet' =
             [last_sent_packet EXCEPT ![e] = [c \in Channels |-> sent[c] + take[c]]]
  BY DEF NetworkSendReady
<1> DEFINE new == UNION {Chunks(e, c, sent[c], take[c]) : c \in Channels}
<1>2. n \in Nat /\ n <= Len(sq) /\ Room(e) \in Nat /\ n <= Room(e) /\ sq \in Seq(Channels)
  BY RoomNat DEF SpecialsFirst, Lesser, Inv, TypeOK
<1>3. ASSUME NEW c \in Channels
      PROVE  /\ take[c] \in Nat /\ sent[c] \in Nat /\ Len(source[e][c]) \in Nat
             /\ sent[c] + take[c] <= Len(source[e][c])
  <2>1. take[c] \in 0 .. Room(e) - n /\ take[c] <= Cardinality(Unread(e, c))
    BY DEF Rounds
  <2> QED BY <1>2, <2>1, UnreadCount, EntryTypes, SMTT(30) DEF Inv, OrderInv
<1>4. /\ take \in [Channels -> Nat] /\ sent \in [Channels -> Nat]
  BY <1>3 DEF Rounds, Inv, TypeOK, PerChannel
<1>5. ASSUME NEW p \in new
      PROVE  /\ p \in DataPacket /\ p.kind = "data" /\ p.id \in Channels
             /\ p.seq < sent[p.id] + take[p.id] /\ p.data = source[e][p.id][p.seq + 1]
  <2>1. PICK c \in Channels : p \in Chunks(e, c, sent[c], take[c])
    OBVIOUS
  <2> QED BY <2>1, <1>3, ChunksAreWritten, SMTT(30) DEF Inv
<1>6. closes \subseteq ClosePacket /\ \A p \in closes : p.kind = "close"
  BY <1>2 DEF CloseMsg, ClosePacket
<1>7. IsFiniteSet(closes) /\ IsFiniteSet(new)
  <2>1. IsFiniteSet(closes)
    <3>1. n \in Int
      BY <1>2
    <3> HIDE DEF n, sq
    <3> QED BY <3>1, ClosesFinite, Zenon
  <2>2. take \in [Channels -> Int] /\ sent \in [Channels -> Int]
    BY <1>4
  <2>3. IsFiniteSet(new)
    BY <2>2, AllChunksFinite
  <2> QED BY <2>1, <2>3
<1> HIDE DEF closes, new, n
<1>8. /\ queued' = [queued EXCEPT ![e] = (queued[e] \cup closes) \cup new]
      /\ special_packet_queue' = [special_packet_queue EXCEPT ![e] = SubSeq(sq, n + 1, Len(sq))]
      /\ UNCHANGED <<next_id, target, target_ready, source, readable, recvVars, net, failed>>
  BY <1>1 DEF NetworkSendReady, n, closes, new
<1>9. TypeOK'
  <2>1. queued' \in [Ends -> SUBSET Packet]
    BY <1>5, <1>6, <1>8 DEF Inv, TypeOK, Packet
  <2>2. \A x \in Ends : IsFiniteSet(queued'[x])
    <3>1. IsFiniteSet(queued[e] \cup closes)
      BY <1>7, FS_Union DEF Inv, TypeOK
    <3>2. IsFiniteSet((queued[e] \cup closes) \cup new)
      BY <1>7, <3>1, FS_Union
    <3> QED BY <1>8, <3>2 DEF Inv, TypeOK
  <2>3. last_sent_packet' \in PerChannel(Nat)
    BY <1>1, <1>3, SMTT(30) DEF Inv, TypeOK, PerChannel
  <2>4. special_packet_queue' \in [Ends -> Seq(Channels)]
    <3>1. SubSeq(sq, n + 1, Len(sq)) \in Seq(Channels)
      BY <1>2
    <3> QED BY <3>1, <1>8 DEF Inv, TypeOK
  <2> QED BY <1>8, <2>1, <2>2, <2>3, <2>4 DEF Inv, TypeOK, recvVars
<1>10. OrderInv'
  <2>1. ASSUME NEW x \in Ends, NEW k \in Channels
        PROVE  /\ last_sent_packet'[x][k] = IF x = e THEN sent[k] + take[k]
                                                     ELSE last_sent_packet[x][k]
               /\ last_sent_packet[x][k] <= last_sent_packet'[x][k]
    <3>1. last_sent_packet \in PerChannel(Nat)
      BY DEF Inv, TypeOK
    <3>2. last_sent_packet'[x][k] = IF x = e THEN sent[k] + take[k] ELSE last_sent_packet[x][k]
      BY <3>1, <1>1 DEF PerChannel
    <3>3. last_sent_packet[x][k] \in Nat
      BY <3>1 DEF PerChannel
    <3> QED BY <3>2, <3>3, <1>3
  <2>2. SentInv'
    BY <1>3, <1>8, <2>1 DEF SentInv, Inv, OrderInv
  <2>3. PacketInv'
    <3> SUFFICES ASSUME NEW x \in Ends, NEW p \in queued'[x] \cup net'[x], p.kind = "data"
                 PROVE  /\ p.seq < last_sent_packet'[x][p.id]
                        /\ p.data = source[x][p.id][p.seq + 1]
      BY <1>8 DEF PacketInv
    <3>1. CASE p \in queued[x] \cup net[x]
      <4>1. p.id \in Channels /\ p.seq \in Nat
        BY <3>1, DataPacketFields DEF Inv, TypeOK
      <4>2. p.seq < last_sent_packet[x][p.id] /\ p.data = source[x][p.id][p.seq + 1]
        BY <3>1 DEF Inv, OrderInv, PacketInv
      <4>3. last_sent_packet[x][p.id] \in Nat /\ last_sent_packet[x][p.id] <= last_sent_packet'[x][p.id]
            /\ last_sent_packet'[x][p.id] \in Nat
        BY <4>1, <2>1, <1>3, EntryTypes DEF Inv
      <4> QED BY <4>1, <4>2, <4>3
    <3>2. CASE p \notin queued[x] \cup net[x]
      <4>1. x = e /\ p \in new
        BY <3>2, <1>6, <1>8 DEF Inv, TypeOK
      <4> QED BY <4>1, <1>5, <2>1
    <3> QED BY <3>1, <3>2
  <2>4. BufferInv' /\ CountInv' /\ InOrder'
    BY <1>8 DEF Inv, OrderInv, BufferInv, CountInv, InOrder, recvVars
  <2> QED BY <2>2, <2>3, <2>4 DEF OrderInv
<1> QED BY <1>9, <1>10 DEF Inv

\* send_special_packet moves a CLOSE packet and nothing else.
LEMMA SpecialPacket ==
    ASSUME TypeOK, NEW e \in Ends, NEW sq \in Seq(Channels)
    PROVE  /\ SpecialSent(e, sq) \subseteq ClosePacket
           /\ \A p \in SpecialSent(e, sq) : p.kind = "close"
           /\ IsFiniteSet(queued[e] \cup SpecialSent(e, sq))
           /\ SpecialLeft(e, sq) \in Seq(Channels)
<1>1. CASE Room(e) > 0 /\ sq # <<>>
  <2>1. Head(sq) \in Channels /\ Tail(sq) \in Seq(Channels)
    BY <1>1
  <2>2. SpecialSent(e, sq) = {CloseMsg(Head(sq))} /\ SpecialLeft(e, sq) = Tail(sq)
    BY <1>1 DEF SpecialSent, SpecialLeft
  <2>3. IsFiniteSet(queued[e] \cup {CloseMsg(Head(sq))})
    BY FS_AddElement DEF TypeOK
  <2> QED BY <2>1, <2>2, <2>3 DEF CloseMsg, ClosePacket
<1>2. CASE ~(Room(e) > 0 /\ sq # <<>>)
  <2>1. SpecialSent(e, sq) = {} /\ SpecialLeft(e, sq) = sq
    BY <1>2 DEF SpecialSent, SpecialLeft
  <2>2. queued[e] \cup {} = queued[e]
    OBVIOUS
  <2> QED BY <2>1, <2>2 DEF TypeOK
<1> QED BY <1>1, <1>2

\* What queueing a CLOSE does to the queues of an end.
LEMMA SpecialStep ==
    ASSUME TypeOK, NEW e \in Ends, NEW sq \in Seq(Channels), NEW left \in Seq(Channels),
           NEW new, new \subseteq ClosePacket, \A p \in new : p.kind = "close",
           IsFiniteSet(queued[e] \cup new),
           special_packet_queue' = [special_packet_queue EXCEPT ![e] = left],
           queued' = [queued EXCEPT ![e] = queued[e] \cup new]
    PROVE  /\ special_packet_queue' \in [Ends -> Seq(Channels)]
           /\ queued' \in [Ends -> SUBSET Packet]
           /\ \A x \in Ends : IsFiniteSet(queued'[x])
           /\ \A x \in Ends : \A p \in queued'[x] : p.kind = "data" => p \in queued[x]
<1>1. special_packet_queue' \in [Ends -> Seq(Channels)]
  BY DEF TypeOK
<1>2. queued' \in [Ends -> SUBSET Packet]
  BY DEF TypeOK, Packet
<1>3. ASSUME NEW x \in Ends
      PROVE  IsFiniteSet(queued'[x]) /\ \A p \in queued'[x] : p.kind = "data" => p \in queued[x]
  <2>1. queued'[x] = IF x = e THEN queued[e] \cup new ELSE queued[x]
    BY DEF TypeOK
  <2> QED BY <2>1 DEF TypeOK
<1> QED BY <1>1, <1>2, <1>3

\* target_error sends or queues a CLOSE and touches no data.
LEMMA TargetErrorInv ==
    ASSUME Inv, NEW e \in Ends, NEW c \in Channels, TargetError(e, c)
    PROVE  Inv'
<1> DEFINE sq == Append(special_packet_queue[e], c)
<1>1. sq \in Seq(Channels)
  BY DEF Inv, TypeOK
<1> HIDE DEF sq
<1>2. /\ SpecialSent(e, sq) \subseteq ClosePacket
      /\ \A p \in SpecialSent(e, sq) : p.kind = "close"
      /\ IsFiniteSet(queued[e] \cup SpecialSent(e, sq))
      /\ SpecialLeft(e, sq) \in Seq(Channels)
  BY <1>1, SpecialPacket DEF Inv
<1>3. /\ special_packet_queue' = [special_packet_queue EXCEPT ![e] = SpecialLeft(e, sq)]
      /\ queued' = [queued EXCEPT ![e] = queued[e] \cup SpecialSent(e, sq)]
      /\ target' = [target EXCEPT ![e][c] = "closed"]
      /\ UNCHANGED <<next_id, target_ready, sendVars, recvVars, net, failed>>
  BY DEF TargetError, sq
<1>4. /\ special_packet_queue' \in [Ends -> Seq(Channels)]
      /\ queued' \in [Ends -> SUBSET Packet]
      /\ \A x \in Ends : IsFiniteSet(queued'[x])
      /\ \A x \in Ends : \A p \in queued'[x] : p.kind = "data" => p \in queued[x]
  BY <1>1, <1>2, <1>3, SpecialStep DEF Inv
<1>5. target' \in PerChannel({"none", "pending", "open", "closed"})
  BY <1>3 DEF Inv, TypeOK, PerChannel
<1>6. TypeOK'
  BY <1>3, <1>4, <1>5 DEF Inv, TypeOK, sendVars, recvVars
<1>7. OrderInv'
  BY <1>3, <1>4, OrderUnaffected DEF Inv, sendVars
<1> QED BY <1>6, <1>7 DEF Inv

\* Creating a child, or closing it, keeps the types and adds no data packet.
LEMMA CreateChildStep ==
    ASSUME TypeOK, NEW e \in Ends, NEW c \in Channels,
           NEW t \in {"none", "pending", "open", "closed"}, CreateChild(e, c, t)
    PROVE  /\ target' \in PerChannel({"none", "pending", "open", "closed"})
           /\ special_packet_queue' \in [Ends -> Seq(Channels)]
           /\ queued' \in [Ends -> SUBSET Packet]
           /\ \A x \in Ends : IsFiniteSet(queued'[x])
           /\ \A x \in Ends : \A p \in queued'[x] : p.kind = "data" => p \in queued[x]
<1>1. target' \in PerChannel({"none", "pending", "open", "closed"})
  BY DEF TypeOK, PerChannel, CreateChild
<1>2. CASE UnknownStream(e, c)
  <2> DEFINE sq == Append(special_packet_queue[e], c)
  <2>1. sq \in Seq(Channels)
    BY DEF TypeOK
  <2>2. /\ special_packet_queue' = [special_packet_queue EXCEPT ![e] = SpecialLeft(e, sq)]
        /\ queued' = [queued EXCEPT ![e] = queued[e] \cup SpecialSent(e, sq)]
    BY <1>2 DEF CreateChild
  <2> HIDE DEF sq
  <2>3. /\ SpecialSent(e, sq) \subseteq ClosePacket
        /\ \A p \in SpecialSent(e, sq) : p.kind = "close"
        /\ IsFiniteSet(queued[e] \cup SpecialSent(e, sq))
        /\ SpecialLeft(e, sq) \in Seq(Channels)
    BY <2>1, SpecialPacket
  <2>4. /\ special_packet_queue' \in [Ends -> Seq(Channels)]
        /\ queued' \in [Ends -> SUBSET Packet]
        /\ \A x \in Ends : IsFiniteSet(queued'[x])
        /\ \A x \in Ends : \A p \in queued'[x] : p.kind = "data" => p \in queued[x]
    BY <2>1, <2>2, <2>3, SpecialStep
  <2> QED BY <1>1, <2>4
<1>3. CASE ~UnknownStream(e, c)
  <2>1. special_packet_queue' = special_packet_queue /\ queued' = queued
    BY <1>3 DEF CreateChild, TypeOK
  <2> QED BY <1>1, <2>1 DEF TypeOK
<1> QED BY <1>2, <1>3

\* A CLOSE that arrives touches no data either.
LEMMA CloseChannelInv ==
    ASSUME Inv, NEW e \in Ends, NEW p \in Packet, CloseChannel(e, p)
    PROVE  Inv'
<1>1. p.id \in Channels
  BY DEF Packet, DataPacket, ClosePacket
<1> DEFINE t == ChildTarget(e, p.id)
           u == IF t = "open" THEN "closed" ELSE t
<1>2. u \in {"none", "pending", "open", "closed"}
  BY <1>1 DEF Inv, TypeOK, PerChannel, ChildTarget
<1>3. CreateChild(e, p.id, u) /\ UNCHANGED <<next_id, target_ready, sendVars, recvVars, net, failed>>
  BY DEF CloseChannel
<1> HIDE DEF u
<1>4. /\ target' \in PerChannel({"none", "pending", "open", "closed"})
      /\ special_packet_queue' \in [Ends -> Seq(Channels)]
      /\ queued' \in [Ends -> SUBSET Packet]
      /\ \A x \in Ends : IsFiniteSet(queued'[x])
      /\ \A x \in Ends : \A q \in queued'[x] : q.kind = "data" => q \in queued[x]
  BY <1>1, <1>2, <1>3, CreateChildStep DEF Inv
<1>5. TypeOK'
  BY <1>3, <1>4 DEF Inv, TypeOK, sendVars, recvVars
<1>6. OrderInv'
  BY <1>3, <1>4, OrderUnaffected DEF Inv, sendVars
<1> QED BY <1>5, <1>6 DEF Inv

\* A step that forwards from the buffer as it is.
LEMMA ForwardFromBuffer ==
    ASSUME Inv, NEW e \in Ends, NEW c \in Channels, NEW ready \in BOOLEAN,
           Forward(e, c, buffer[e][c], TRUE, ready), UNCHANGED source
    PROVE  /\ buffer' \in PerChannel(Seq(Data \cup {Empty}))
           /\ forwarded' \in PerChannel(Seq(Data))
           /\ last_forwarded_packet' \in PerChannel(Nat)
           /\ target_ready' \in PerChannel(BOOLEAN)
           /\ BufferInv' /\ CountInv' /\ InOrder'
<1>1. buffer[e][c] \in Seq(Data \cup {Empty})
  BY EntryTypes DEF Inv
<1>2. \A i \in 1 .. Len(buffer[e][c]) : buffer[e][c][i] # Empty =>
          /\ last_forwarded_packet[e][c] + i <= Len(source[Peer(e)][c])
          /\ buffer[e][c][i] = source[Peer(e)][c][last_forwarded_packet[e][c] + i]
  BY DEF Inv, OrderInv, BufferInv
<1> QED BY <1>1, <1>2, ForwardInOrder

\* The parts of OrderInv that speak only of the sending side.
LEMMA SendSideUnaffected ==
    ASSUME OrderInv, UNCHANGED <<sendVars, net>>,
           \A e \in Ends : \A p \in queued'[e] : p.kind = "data" => p \in queued[e]
    PROVE  SentInv' /\ PacketInv'
BY DEF OrderInv, SentInv, PacketInv, sendVars

\* A target that drains is given what is next in its buffer.
LEMMA TargetSendReadyInv ==
    ASSUME Inv, NEW e \in Ends, NEW c \in Channels, TargetSendReady(e, c)
    PROVE  Inv'
<1>1. /\ Forward(e, c, buffer[e][c], TRUE, TRUE)
      /\ UNCHANGED <<next_id, target, sendVars, special_packet_queue, queued, net, failed>>
      /\ UNCHANGED source
  BY DEF TargetSendReady, sendVars
<1>2. /\ buffer' \in PerChannel(Seq(Data \cup {Empty}))
      /\ forwarded' \in PerChannel(Seq(Data))
      /\ last_forwarded_packet' \in PerChannel(Nat)
      /\ target_ready' \in PerChannel(BOOLEAN)
      /\ BufferInv' /\ CountInv' /\ InOrder'
  BY <1>1, ForwardFromBuffer
<1>3. TypeOK'
  BY <1>1, <1>2 DEF Inv, TypeOK, sendVars
<1>4. SentInv' /\ PacketInv'
  BY <1>1, SendSideUnaffected DEF Inv
<1> QED BY <1>2, <1>3, <1>4 DEF Inv, OrderInv

\* A target that has connected is given what waited for it.
LEMMA TargetConnectedInv ==
    ASSUME Inv, NEW e \in Ends, NEW c \in Channels, TargetConnected(e, c)
    PROVE  Inv'
<1>1. /\ Forward(e, c, buffer[e][c], TRUE, target_ready[e][c])
      /\ target' = [target EXCEPT ![e][c] = "open"]
      /\ UNCHANGED <<next_id, sendVars, special_packet_queue, queued, net, failed>>
      /\ UNCHANGED source
      /\ target_ready[e][c] \in BOOLEAN
  BY EntryTypes DEF TargetConnected, sendVars, Inv
<1>2. /\ buffer' \in PerChannel(Seq(Data \cup {Empty}))
      /\ forwarded' \in PerChannel(Seq(Data))
      /\ last_forwarded_packet' \in PerChannel(Nat)
      /\ target_ready' \in PerChannel(BOOLEAN)
      /\ BufferInv' /\ CountInv' /\ InOrder'
  BY <1>1, ForwardFromBuffer
<1>3. target' \in PerChannel({"none", "pending", "open", "closed"})
  BY <1>1 DEF Inv, TypeOK, PerChannel
<1>4. TypeOK'
  BY <1>1, <1>2, <1>3 DEF Inv, TypeOK, sendVars
<1>5. SentInv' /\ PacketInv'
  BY <1>1, SendSideUnaffected DEF Inv
<1> QED BY <1>2, <1>4, <1>5 DEF Inv, OrderInv

\* A packet from the network, placed in its slot, agrees with what was written.
LEMMA PlacedInOrder ==
    ASSUME Inv, NEW e \in Ends, NEW p \in net[Peer(e)], p.kind = "data", RelSeq(e, p) \in Nat
    PROVE  LET b == Placed(buffer[e][p.id], RelSeq(e, p), p.data)
           IN  /\ b \in Seq(Data \cup {Empty})
               /\ \A i \in 1 .. Len(b) : b[i] # Empty =>
                      /\ last_forwarded_packet[e][p.id] + i <= Len(source[Peer(e)][p.id])
                      /\ b[i] = source[Peer(e)][p.id][last_forwarded_packet[e][p.id] + i]
<1> DEFINE c == p.id
           b == buffer[e][c]
           rel == RelSeq(e, p)
           lfp == last_forwarded_packet[e][c]
           src == source[Peer(e)][c]
           nb == Placed(b, rel, p.data)
<1>1. p \in Packet /\ Peer(e) \in Ends
  BY PeerEnd DEF Inv, TypeOK
<1>2. c \in Channels /\ p.seq \in Nat /\ p.data \in Data
  BY <1>1, DataPacketFields
<1>3. /\ b \in Seq(Data \cup {Empty}) /\ Len(b) \in Nat /\ lfp \in Nat
      /\ Len(src) \in Nat /\ last_sent_packet[Peer(e)][c] \in Nat
      /\ last_sent_packet[Peer(e)][c] <= Len(src)
  BY <1>1, <1>2, EntryTypes DEF Inv, OrderInv, SentInv
<1>4. p.seq < last_sent_packet[Peer(e)][c] /\ p.data = src[p.seq + 1]
  BY <1>1 DEF Inv, OrderInv, PacketInv
<1>5. rel \in Nat /\ lfp + (rel + 1) = p.seq + 1
  BY <1>2, <1>3 DEF RelSeq
<1>6. /\ nb \in Seq(Data \cup {Empty}) /\ Len(nb) \in Nat
      /\ \A i \in 1 .. Len(nb) :
            nb[i] = IF i = rel + 1 THEN p.data ELSE IF i <= Len(b) THEN b[i] ELSE Empty
  <2>1. b \in Seq(Data \cup {Empty}) /\ rel \in Nat /\ p.data \in Data
    BY <1>2, <1>3, <1>5
  <2>2. \A x \in Seq(Data \cup {Empty}), r \in Nat, d \in Data :
          /\ Placed(x, r, d) \in Seq(Data \cup {Empty}) /\ Len(Placed(x, r, d)) \in Nat
          /\ \A i \in 1 .. Len(Placed(x, r, d)) :
                Placed(x, r, d)[i] = IF i = r + 1 THEN d ELSE IF i <= Len(x) THEN x[i] ELSE Empty
    BY PlacedBuffer
  <2> HIDE DEF b, rel
  <2> QED BY <2>1, <2>2
<1>7. \A i \in 1 .. Len(b) : b[i] # Empty => lfp + i <= Len(src) /\ b[i] = src[lfp + i]
  BY <1>2 DEF Inv, OrderInv, BufferInv
<1> HIDE DEF nb, b, lfp, src, rel, c
<1>8. ASSUME NEW i \in 1 .. Len(nb), nb[i] # Empty
      PROVE  lfp + i <= Len(src) /\ nb[i] = src[lfp + i]
  <2>1. CASE i = rel + 1
    <3>1. nb[i] = p.data /\ lfp + i = p.seq + 1
      BY <2>1, <1>5, <1>6
    <3> QED BY <3>1, <1>2, <1>3, <1>4, SMTT(30)
  <2>2. CASE i # rel + 1
    <3>1. i <= Len(b) /\ nb[i] = b[i]
      BY <2>2, <1>6, <1>8
    <3>2. i \in 1 .. Len(b)
      BY <3>1, <1>3, <1>6
    <3> QED BY <3>1, <3>2, <1>7, <1>8
  <2> QED BY <2>1, <2>2
<1> QED BY <1>6, <1>8 DEF nb, b, lfp, src, rel, c

\* place_packet keeps old, repeated and reordered packets from doing harm.
LEMMA PlacePacketInv ==
    ASSUME Inv, NEW e \in Ends, NEW p \in net[Peer(e)], p.kind = "data", PlacePacket(e, p)
    PROVE  Inv'
<1> DEFINE c == p.id
           b == buffer[e][c]
           rel == RelSeq(e, p)
           t == ChildTarget(e, c)
           nb == Placed(b, rel, p.data)
<1>1. c \in Channels /\ p.seq \in Nat /\ p.data \in Data /\ Peer(e) \in Ends
  BY PeerEnd, DataPacketFields DEF Inv, TypeOK
<1>2. t \in {"none", "pending", "open", "closed"}
  BY <1>1 DEF Inv, TypeOK, PerChannel, ChildTarget
<1>3. rel \in Int
  BY <1>1, EntryTypes DEF RelSeq, Inv
<1>4. /\ CreateChild(e, c, t)
      /\ failed' = [failed EXCEPT ![e] = rel >= MAX_BUFFER_PACKETS]
      /\ UNCHANGED <<next_id, sendVars, net>>
      /\ UNCHANGED source
  BY DEF PlacePacket, sendVars
<1>5. /\ target' \in PerChannel({"none", "pending", "open", "closed"})
      /\ special_packet_queue' \in [Ends -> Seq(Channels)]
      /\ queued' \in [Ends -> SUBSET Packet]
      /\ \A x \in Ends : IsFiniteSet(queued'[x])
      /\ \A x \in Ends : \A q \in queued'[x] : q.kind = "data" => q \in queued[x]
  BY <1>1, <1>2, <1>4, CreateChildStep DEF Inv
<1>6. SentInv' /\ PacketInv'
  BY <1>4, <1>5, SendSideUnaffected DEF Inv
<1>7. /\ buffer' \in PerChannel(Seq(Data \cup {Empty}))
      /\ forwarded' \in PerChannel(Seq(Data))
      /\ last_forwarded_packet' \in PerChannel(Nat)
      /\ target_ready' \in PerChannel(BOOLEAN)
      /\ BufferInv' /\ CountInv' /\ InOrder'
  <2>1. CASE UNCHANGED <<recvVars, target_ready>>
    BY <2>1, <1>4 DEF recvVars, Inv, TypeOK, OrderInv, BufferInv, CountInv, InOrder
  <2>2. CASE rel \in Nat /\ Forward(e, c, nb, t = "open", target_ready[e][c])
    <3>1. /\ nb \in Seq(Data \cup {Empty})
          /\ \A i \in 1 .. Len(nb) : nb[i] # Empty =>
                /\ last_forwarded_packet[e][c] + i <= Len(source[Peer(e)][c])
                /\ nb[i] = source[Peer(e)][c][last_forwarded_packet[e][c] + i]
      BY <2>2, PlacedInOrder
    <3>2. target_ready[e][c] \in BOOLEAN
      BY <1>1, EntryTypes DEF Inv
    <3> HIDE DEF nb, t, c
    <3> QED BY <2>2, <3>1, <3>2, <1>1, <1>4, ForwardInOrder
  <2>3. CASE /\ rel \in Nat
             /\ buffer' = [buffer EXCEPT ![e][c] = nb]
             /\ UNCHANGED <<last_forwarded_packet, forwarded, target_ready>>
    <3>1. /\ nb \in Seq(Data \cup {Empty})
          /\ \A i \in 1 .. Len(nb) : nb[i] # Empty =>
                /\ last_forwarded_packet[e][c] + i <= Len(source[Peer(e)][c])
                /\ nb[i] = source[Peer(e)][c][last_forwarded_packet[e][c] + i]
      BY <2>3, PlacedInOrder
    <3> HIDE DEF nb, c
    <3>2. buffer' \in PerChannel(Seq(Data \cup {Empty}))
      BY <3>1, <2>3, <1>1 DEF Inv, TypeOK, PerChannel
    <3>3. \A x \in Ends, k \in Channels :
             buffer'[x][k] = IF x = e /\ k = c THEN nb ELSE buffer[x][k]
      BY <2>3, <1>1 DEF Inv, TypeOK, PerChannel
    <3>4. BufferInv'
      <4> SUFFICES ASSUME NEW x \in Ends, NEW k \in Channels,
                          NEW i \in 1 .. Len(buffer'[x][k]), buffer'[x][k][i] # Empty
                   PROVE  /\ last_forwarded_packet[x][k] + i <= Len(source[Peer(x)][k])
                          /\ buffer'[x][k][i] = source[Peer(x)][k][last_forwarded_packet[x][k] + i]
        BY <2>3, <1>4, SMTT(30) DEF BufferInv
      <4>1. CASE x = e /\ k = c
        BY <3>1, <3>3, <4>1
      <4>2. CASE ~(x = e /\ k = c)
        <5>1. buffer'[x][k] = buffer[x][k]
          BY <3>3, <4>2
        <5> QED BY <5>1 DEF Inv, OrderInv, BufferInv
      <4> QED BY <4>1, <4>2
    <3>5. CountInv' /\ InOrder'
      BY <2>3, <1>4 DEF Inv, OrderInv, CountInv, InOrder
    <3> QED BY <2>3, <3>2, <3>4, <3>5 DEF Inv, TypeOK
  <2>4. rel \in 1 .. MAX_BUFFER_PACKETS - 1 => rel \in Nat
    BY ConstantsAssumption
  <2>5. \/ UNCHANGED <<recvVars, target_ready>>
        \/ rel = 0 /\ Forward(e, c, nb, t = "open", target_ready[e][c])
        \/ /\ rel \in 1 .. MAX_BUFFER_PACKETS - 1
           /\ buffer' = [buffer EXCEPT ![e][c] = nb]
           /\ UNCHANGED <<last_forwarded_packet, forwarded, target_ready>>
    BY DEF PlacePacket
  <2> QED BY <2>1, <2>2, <2>3, <2>4, <2>5
<1>8. failed' \in [Ends -> BOOLEAN]
  BY <1>4 DEF Inv, TypeOK
<1>9. TypeOK'
  BY <1>4, <1>5, <1>7, <1>8 DEF Inv, TypeOK, sendVars
<1> QED BY <1>6, <1>7, <1>9 DEF Inv, OrderInv

\* Every step of the pair preserves the invariant.
LEMMA NextInv == Inv /\ [Next]_vars => Inv'
<1> SUFFICES ASSUME Inv, [Next]_vars PROVE Inv'
  OBVIOUS
<1>1. CASE AddTarget
  BY <1>1, AddTargetInv
<1>2. ASSUME NEW e \in Ends, NetworkSendReady(e) PROVE Inv'
  BY <1>2, NetworkSendReadyInv
<1>3. ASSUME NEW e \in Ends, NEW c \in Channels, TargetRecvReady(e, c) PROVE Inv'
  BY <1>3, TargetRecvReadyInv
<1>4. ASSUME NEW e \in Ends, NEW c \in Channels, TargetSendReady(e, c) PROVE Inv'
  BY <1>4, TargetSendReadyInv
<1>5. ASSUME NEW e \in Ends, NEW c \in Channels, TargetConnected(e, c) PROVE Inv'
  BY <1>5, TargetConnectedInv
<1>6. ASSUME NEW e \in Ends, NEW c \in Channels, TargetError(e, c) PROVE Inv'
  BY <1>6, TargetErrorInv
<1>7. ASSUME NEW e \in Ends, NEW c \in Channels, NEW d \in Data, AppWrite(e, c, d) PROVE Inv'
  BY <1>7, AppWriteInv
<1>8. ASSUME NEW e \in Ends, NEW p \in queued[e], Transmit(e, p) PROVE Inv'
  BY <1>8, TransmitInv
<1>9. ASSUME NEW e \in Ends, NEW p \in net[Peer(e)], NetworkRecv(e, p) PROVE Inv'
  <2>1. p \in Packet
    BY PeerEnd DEF Inv, TypeOK
  <2>2. CASE p.kind = "data" /\ PlacePacket(e, p)
    BY <2>2, PlacePacketInv
  <2>3. CASE p.kind = "close" /\ CloseChannel(e, p)
    BY <2>1, <2>3, CloseChannelInv
  <2> QED BY <1>9, <2>2, <2>3 DEF NetworkRecv
<1>10. CASE UNCHANGED vars
  <2>1. TypeOK'
    BY <1>10 DEF Inv, TypeOK, vars, sendVars, recvVars
  <2>2. OrderInv'
    BY <1>10, OrderUnaffected DEF Inv, vars, sendVars
  <2> QED BY <2>1, <2>2 DEF Inv
<1> QED BY <1>1, <1>2, <1>3, <1>4, <1>5, <1>6, <1>7, <1>8, <1>9, <1>10 DEF Next

\* Type correctness and the inductive invariant of the pair of Transports.
THEOREM TransportInvariant == Spec => [](TypeOK /\ OrderInv)
<1>1. Inv => TypeOK /\ OrderInv
  BY DEF Inv
<1> QED BY <1>1, InitInv, NextInv, PTL DEF Spec

\* Whatever the network repeats and reorders, each end forwards a prefix of
\* what the other end's application wrote, channel by channel.
THEOREM TransportInOrder == Spec => []InOrder
<1>1. Inv => InOrder
  BY DEF Inv, OrderInv
<1> QED BY <1>1, InitInv, NextInv, PTL DEF Spec

-----------------------------------------------------------------------------
(* Channels are known before anything is said about them.                  *)

\* A child exists only for an id that the client gave to a connection, and the
\* client has a child for each of those.
KnownTargets ==
    \A e \in Ends, c \in Channels :
        /\ target[e][c] # "none" => c < next_id
        /\ e = "client" /\ target[e][c] = "none" => c >= next_id

\* Packets, and CLOSE packets still to be sent, name such ids.
KnownPackets ==
    \A e \in Ends :
        /\ \A p \in queued[e] \cup net[e] : p.id < next_id
        /\ \A i \in 1 .. Len(special_packet_queue[e]) : special_packet_queue[e][i] < next_id

\* The buffer of a child that is not there yet is empty.
NewChild == \A e \in Ends, c \in Channels : target[e][c] = "none" => buffer[e][c] = <<>>

Known == KnownTargets /\ KnownPackets /\ NewChild

\* The next id is a number.
LEMMA NextIdNat == Inv => next_id \in Nat
<1>1. 0 .. MaxChannels \subseteq Nat
  BY ConstantsAssumption
<1> QED BY <1>1 DEF Inv, TypeOK

\* No packet that arrives makes the client create a child: it never meets an
\* unknown stream.
LEMMA NeverUnknown ==
    ASSUME Inv, Known, NEW e \in Ends, NEW p \in net[Peer(e)]
    PROVE  /\ p \in Packet /\ p.id \in Channels /\ p.id < next_id
           /\ ~UnknownStream(e, p.id)
<1>1. p \in Packet /\ Peer(e) \in Ends
  BY PeerEnd DEF Inv, TypeOK
<1>2. p.id \in Channels
  BY <1>1 DEF Packet, DataPacket, ClosePacket
<1>3. p.id < next_id
  <2>1. p \in queued[Peer(e)] \cup net[Peer(e)]
    OBVIOUS
  <2> QED BY <1>1, <2>1, Zenon DEF Known, KnownPackets
<1>4. p.id \in Int /\ next_id \in Int
  <2>1. p.id \in Nat
    BY <1>2, ChannelsNat
  <2>2. next_id \in Nat
    BY NextIdNat
  <2> QED BY <2>1, <2>2
<1> QED BY <1>1, <1>2, <1>3, <1>4 DEF UnknownStream, Known, KnownTargets

\* So a packet that arrives only creates children of the server.
LEMMA ChildOfKnown ==
    ASSUME Inv, Known, NEW e \in Ends, NEW p \in net[Peer(e)], NEW t,
           CreateChild(e, p.id, t)
    PROVE  target' = [target EXCEPT ![e][p.id] = t] /\ UNCHANGED <<special_packet_queue, queued>>
<1>1. ~UnknownStream(e, p.id)
  BY NeverUnknown
<1> QED BY <1>1 DEF CreateChild, Inv, TypeOK

\* A step that creates no channel and sends nothing keeps the packets known.
LEMMA PacketsStayKnown ==
    ASSUME KnownPackets, UNCHANGED <<next_id, special_packet_queue, queued, net>>
    PROVE  KnownPackets'
BY DEF KnownPackets

\* Initially there are no channels.
LEMMA InitKnown == Init => Known
<1> SUFFICES ASSUME Init PROVE Known
  OBVIOUS
<1>1. \A c \in Channels : c >= 0
  BY ChannelsNat
<1>2. KnownTargets /\ NewChild
  BY <1>1 DEF Init, All, KnownTargets, NewChild
<1>3. KnownPackets
  BY DEF Init, KnownPackets
<1> QED BY <1>2, <1>3 DEF Known

\* The client gives the next id to a connection; nothing has named it before.
LEMMA AddTargetKnown ==
    ASSUME Inv, Known, AddTarget
    PROVE  Known'
<1>1. /\ next_id < MaxChannels /\ next_id' = next_id + 1
      /\ target' = [target EXCEPT !["client"][next_id] = "open"]
      /\ UNCHANGED <<special_packet_queue, queued, net, buffer>>
  BY DEF AddTarget, recvVars
<1>2. next_id \in Nat /\ next_id \in Channels
  BY <1>1, ConstantsAssumption DEF Inv, TypeOK, Channels
<1>3. \A c \in Channels : c \in Nat
  BY ChannelsNat
<1>4. \A e \in Ends, c \in Channels :
        target'[e][c] = IF e = "client" /\ c = next_id THEN "open" ELSE target[e][c]
  BY <1>1, <1>2 DEF Inv, TypeOK, PerChannel, Ends
<1>5. KnownTargets'
  BY <1>1, <1>2, <1>3, <1>4 DEF Known, KnownTargets
<1>6. KnownPackets'
  <2>1. ASSUME NEW e \in Ends, NEW p \in queued[e] \cup net[e] PROVE p.id < next_id + 1
    <3>1. p \in Packet /\ p.id < next_id
      BY DEF Known, KnownPackets, Inv, TypeOK
    <3>2. p.id \in Nat
      BY <3>1, ChannelsNat DEF Packet, DataPacket, ClosePacket
    <3> QED BY <3>1, <3>2, <1>2
  <2>2. ASSUME NEW e \in Ends, NEW i \in 1 .. Len(special_packet_queue[e])
        PROVE  special_packet_queue[e][i] < next_id + 1
    <3>1. special_packet_queue[e][i] \in Nat /\ special_packet_queue[e][i] < next_id
      BY <1>3 DEF Known, KnownPackets, Inv, TypeOK
    <3> QED BY <3>1, <1>2
  <2> QED BY <1>1, <2>1, <2>2 DEF KnownPackets
<1>7. NewChild'
  BY <1>1, <1>4 DEF Known, NewChild
<1> QED BY <1>5, <1>6, <1>7 DEF Known

\* Queueing packets of known channels.
LEMMA SendKnown ==
    ASSUME Inv, Known, NEW e \in Ends, NEW new, NEW left,
           \A p \in new : p.id < next_id,
           \A i \in 1 .. Len(left) : left[i] < next_id,
           special_packet_queue' = [special_packet_queue EXCEPT ![e] = left],
           queued' = [queued EXCEPT ![e] = @ \cup new],
           UNCHANGED <<next_id, net>>
    PROVE  KnownPackets'
<1>1. \A x \in Ends :
        /\ queued'[x] = IF x = e THEN queued[x] \cup new ELSE queued[x]
        /\ special_packet_queue'[x] = IF x = e THEN left ELSE special_packet_queue[x]
  BY DEF Inv, TypeOK
<1> QED BY <1>1 DEF Known, KnownPackets

\* A step that changes neither children nor channels keeps both known.
LEMMA TargetsStayKnown ==
    ASSUME Known, UNCHANGED <<next_id, target, buffer>>
    PROVE  KnownTargets' /\ NewChild'
BY DEF Known, KnownTargets, NewChild

\* A handler of one child leaves the buffers of the others alone.
LEMMA OtherBuffers ==
    ASSUME TypeOK, NEW e \in Ends, NEW c \in Channels,
           buffer' = buffer \/ \E b : buffer' = [buffer EXCEPT ![e][c] = b]
    PROVE  \A x \in Ends, k \in Channels : x # e \/ k # c => buffer'[x][k] = buffer[x][k]
<1>1. buffer \in PerChannel(Seq(Data \cup {Empty}))
  BY DEF TypeOK
<1> QED BY <1>1 DEF PerChannel

\* target_recv_ready.
LEMMA TargetRecvReadyKnown ==
    ASSUME Inv, Known, NEW e \in Ends, NEW c \in Channels, TargetRecvReady(e, c)
    PROVE  Known'
<1> DEFINE n == Lesser(Room(e), Cardinality(Unread(e, c)))
           new == Chunks(e, c, last_sent_packet[e][c], n)
<1>1. /\ target[e][c] = "open" /\ queued' = [queued EXCEPT ![e] = @ \cup new]
      /\ UNCHANGED <<next_id, target, buffer, special_packet_queue, net>>
  BY DEF TargetRecvReady, recvVars
<1>2. \A p \in new : p.id = c
  BY DEF Chunks, DataMsg
<1> HIDE DEF new
<1>3. c < next_id
  BY <1>1 DEF Known, KnownTargets
<1>4. \A x \in Ends : queued'[x] = IF x = e THEN queued[x] \cup new ELSE queued[x]
  BY <1>1 DEF Inv, TypeOK
<1>5. KnownPackets'
  BY <1>1, <1>2, <1>3, <1>4 DEF Known, KnownPackets
<1> QED BY <1>1, <1>5, TargetsStayKnown DEF Known

\* network_send_ready.
LEMMA NetworkSendReadyKnown ==
    ASSUME Inv, Known, NEW e \in Ends, NetworkSendReady(e)
    PROVE  Known'
<1> DEFINE sq == special_packet_queue[e]
           sent == last_sent_packet[e]
           n == SpecialsFirst(e)
           left == SubSeq(sq, n + 1, Len(sq))
           closes == {CloseMsg(sq[i]) : i \in 1 .. n}
<1>1. PICK take \in Rounds(e, Room(e) - n) :
        queued' = [queued EXCEPT ![e] = @ \cup closes
                      \cup UNION {Chunks(e, c, sent[c], take[c]) : c \in Channels}]
  BY DEF NetworkSendReady
<1>2. /\ special_packet_queue' = [special_packet_queue EXCEPT ![e] = left]
      /\ UNCHANGED <<next_id, target, buffer, net>>
  BY DEF NetworkSendReady, recvVars
<1>3. sq \in Seq(Channels) /\ Len(sq) \in Nat /\ n \in 0 .. Len(sq)
  <2>1. sq \in Seq(Channels) /\ Len(sq) \in Nat
    BY DEF Inv, TypeOK
  <2>2. Room(e) \in Nat
    BY RoomNat DEF Inv
  <2> QED BY <2>1, <2>2 DEF SpecialsFirst, Lesser
<1>4. \A i \in 1 .. Len(sq) : sq[i] < next_id
  BY DEF Known, KnownPackets
<1>5. \A i \in 1 .. Len(left) : left[i] < next_id
  <2>1. Len(left) = Len(sq) - n /\ \A i \in 1 .. Len(sq) - n : left[i] = sq[n + i]
    BY <1>3, SplitBuffer, SMTT(30)
  <2>2. \A i \in 1 .. Len(sq) - n : n + i \in 1 .. Len(sq)
    BY <1>3
  <2> QED BY <1>4, <2>1, <2>2
<1>6. \A p \in closes : p.id < next_id
  <2> SUFFICES ASSUME NEW i \in 1 .. n PROVE CloseMsg(sq[i]).id < next_id
    OBVIOUS
  <2>1. i \in 1 .. Len(sq)
    BY <1>3
  <2> QED BY <1>4, <2>1 DEF CloseMsg
<1>7. \A c \in Channels : target[e][c] # "open" => take[c] = 0 /\ sent[c] \in Int
  <2> SUFFICES ASSUME NEW c \in Channels, target[e][c] # "open"
               PROVE  take[c] = 0 /\ sent[c] \in Int
    OBVIOUS
  <2>1. Cardinality(Unread(e, c)) = 0
    BY FS_EmptySet DEF Unread
  <2>2. take \in [Channels -> 0 .. Room(e) - n] /\ take[c] <= Cardinality(Unread(e, c))
    BY DEF Rounds
  <2>3. Room(e) - n \in Int
    BY <1>3, RoomNat DEF Inv
  <2>4. take[c] = 0
    BY <2>1, <2>2, <2>3
  <2> QED BY <2>4, EntryTypes DEF Inv
<1>8. ASSUME NEW c \in Channels, NEW p \in Chunks(e, c, sent[c], take[c])
      PROVE  p.id < next_id
  <2>1. PICK i \in sent[c] .. sent[c] + take[c] - 1 : p = DataMsg(e, c, i)
    BY <1>8 DEF Chunks
  <2>2. p.id = c
    BY <2>1 DEF DataMsg
  <2>3. target[e][c] = "open"
    <3> SUFFICES ASSUME target[e][c] # "open" PROVE FALSE
      OBVIOUS
    <3>1. take[c] = 0 /\ sent[c] \in Int
      BY <1>7
    <3> HIDE DEF sent
    <3> QED BY <2>1, <3>1
  <2> QED BY <2>2, <2>3 DEF Known, KnownTargets
<1> DEFINE new == closes \cup UNION {Chunks(e, c, sent[c], take[c]) : c \in Channels}
<1>9. queued' = [queued EXCEPT ![e] = @ \cup new]
  BY <1>1
<1>10. \A p \in new : p.id < next_id
  BY <1>6, <1>8
<1> HIDE DEF sq, sent, n, left, closes, new
<1>11. KnownPackets'
  BY <1>2, <1>5, <1>9, <1>10, SendKnown
<1> QED BY <1>2, <1>11, TargetsStayKnown DEF Known

\* target_error, whose CLOSE is for a child that is there.
LEMMA TargetErrorKnown ==
    ASSUME Inv, Known, NEW e \in Ends, NEW c \in Channels, TargetError(e, c)
    PROVE  Known'
<1> DEFINE sq == Append(special_packet_queue[e], c)
<1>1. /\ target[e][c] \in {"pending", "open"}
      /\ target' = [target EXCEPT ![e][c] = "closed"]
      /\ special_packet_queue' = [special_packet_queue EXCEPT ![e] = SpecialLeft(e, sq)]
      /\ queued' = [queued EXCEPT ![e] = @ \cup SpecialSent(e, sq)]
      /\ UNCHANGED <<next_id, buffer, net>>
  BY DEF TargetError, recvVars
<1>2. c < next_id
  BY <1>1 DEF Known, KnownTargets
<1>3. /\ special_packet_queue[e] \in Seq(Channels)
      /\ \A i \in 1 .. Len(special_packet_queue[e]) : special_packet_queue[e][i] < next_id
  BY DEF Known, KnownPackets, Inv, TypeOK
<1>4. sq \in Seq(Channels) /\ Len(sq) >= 1 /\ \A i \in 1 .. Len(sq) : sq[i] < next_id
  BY <1>2, <1>3
<1> HIDE DEF sq
<1>5. \A p \in SpecialSent(e, sq) : p.id < next_id
  BY <1>4 DEF SpecialSent, CloseMsg
<1>6. \A i \in 1 .. Len(SpecialLeft(e, sq)) : SpecialLeft(e, sq)[i] < next_id
  BY <1>4 DEF SpecialLeft
<1>7. \A x \in Ends :
        /\ queued'[x] = IF x = e THEN queued[x] \cup SpecialSent(e, sq) ELSE queued[x]
        /\ special_packet_queue'[x] =
              IF x = e THEN SpecialLeft(e, sq) ELSE special_packet_queue[x]
  BY <1>1 DEF Inv, TypeOK
<1>8. KnownPackets'
  BY <1>1, <1>5, <1>6, <1>7 DEF Known, KnownPackets
<1>9. \A x \in Ends, k \in Channels :
        target'[x][k] = IF x = e /\ k = c THEN "closed" ELSE target[x][k]
  BY <1>1 DEF Inv, TypeOK, PerChannel
<1>10. KnownTargets' /\ NewChild'
  BY <1>1, <1>2, <1>9 DEF Known, KnownTargets, NewChild
<1> QED BY <1>8, <1>10 DEF Known

\* A packet that arrives creates a child only of a known channel.
LEMMA NetworkRecvKnown ==
    ASSUME Inv, Known, NEW e \in Ends, NEW p \in net[Peer(e)], NetworkRecv(e, p)
    PROVE  Known'
<1> DEFINE c == p.id
<1>1. c \in Channels /\ c < next_id
  BY NeverUnknown
<1>2. PICK t : /\ CreateChild(e, c, t) /\ t # "none"
               /\ UNCHANGED <<next_id, net>>
               /\ \A x \in Ends, k \in Channels : x # e \/ k # c => buffer'[x][k] = buffer[x][k]
  <2>1. CASE PlacePacket(e, p)
    <3>1. /\ CreateChild(e, c, ChildTarget(e, c)) /\ ChildTarget(e, c) # "none"
          /\ UNCHANGED <<next_id, net>>
      BY <2>1 DEF PlacePacket, ChildTarget
    <3>2. \A x \in Ends, k \in Channels : x # e \/ k # c => buffer'[x][k] = buffer[x][k]
      <4>1. buffer' = buffer \/ \E b : buffer' = [buffer EXCEPT ![e][c] = b]
        BY <2>1 DEF PlacePacket, Forward, recvVars
      <4> QED BY <4>1, <1>1, OtherBuffers, SMTT(30) DEF Inv
    <3> QED BY <3>1, <3>2
  <2>2. CASE CloseChannel(e, p)
    <3> DEFINE u == ChildTarget(e, c)
               v == IF u = "open" THEN "closed" ELSE u
    <3>1. CreateChild(e, c, v) /\ v # "none" /\ UNCHANGED <<next_id, net, buffer>>
      BY <2>2 DEF CloseChannel, ChildTarget, recvVars
    <3> QED BY <3>1
  <2> QED BY <2>1, <2>2 DEF NetworkRecv
<1>3. target' = [target EXCEPT ![e][c] = t] /\ UNCHANGED <<special_packet_queue, queued>>
  BY <1>2, ChildOfKnown
<1>4. KnownPackets'
  BY <1>2, <1>3, PacketsStayKnown DEF Known
<1>5. \A x \in Ends, k \in Channels :
        target'[x][k] = IF x = e /\ k = c THEN t ELSE target[x][k]
  BY <1>1, <1>3 DEF Inv, TypeOK, PerChannel
<1>6. KnownTargets'
  <2>1. c \in Int /\ next_id \in Int
    <3>1. c \in Nat
      BY <1>1, ChannelsNat
    <3>2. next_id \in Nat
      BY NextIdNat
    <3> QED BY <3>1, <3>2
  <2>2. ~(c >= next_id)
    BY <1>1, <2>1
  <2> QED BY <1>1, <1>2, <1>5, <2>2 DEF Known, KnownTargets
<1>7. NewChild'
  BY <1>2, <1>5 DEF Known, NewChild
<1> QED BY <1>4, <1>6, <1>7 DEF Known

\* The remaining steps only move packets and data of channels that are there.
LEMMA OtherKnown ==
    ASSUME Inv, Known, NEW e \in Ends, NEW c \in Channels,
           \/ TargetSendReady(e, c) \/ TargetConnected(e, c)
           \/ \E d \in Data : AppWrite(e, c, d)
           \/ \E p \in queued[e] : Transmit(e, p)
           \/ UNCHANGED vars
    PROVE  Known'
<1>1. CASE TargetSendReady(e, c) \/ TargetConnected(e, c)
  <2>1. /\ target[e][c] # "none" /\ UNCHANGED <<next_id, special_packet_queue, queued, net>>
        /\ target' = target \/ target' = [target EXCEPT ![e][c] = "open"]
    BY <1>1, ZenonT(30) DEF TargetSendReady, TargetConnected
  <2>2. \A x \in Ends, k \in Channels :
          target'[x][k] = target[x][k] \/ (x = e /\ k = c /\ target'[x][k] = "open")
    <3>1. target \in PerChannel({"none", "pending", "open", "closed"})
      BY DEF Inv, TypeOK
    <3> QED BY <2>1, <3>1 DEF PerChannel
  <2>3. \A x \in Ends, k \in Channels : x # e \/ k # c => buffer'[x][k] = buffer[x][k]
    <3>1. \E b : buffer' = [buffer EXCEPT ![e][c] = b]
      BY <1>1, ZenonT(30) DEF TargetSendReady, TargetConnected, Forward
    <3> QED BY <3>1, OtherBuffers DEF Inv
  <2>4. KnownTargets' /\ NewChild'
    BY <2>1, <2>2, <2>3 DEF Known, KnownTargets, NewChild
  <2> QED BY <2>1, <2>4, PacketsStayKnown DEF Known
<1>2. CASE (\E d \in Data : AppWrite(e, c, d)) \/ UNCHANGED vars
  <2>1. UNCHANGED <<next_id, target, buffer, special_packet_queue, queued, net>>
    BY <1>2 DEF AppWrite, vars, recvVars
  <2> QED BY <2>1, PacketsStayKnown, TargetsStayKnown DEF Known
<1>3. CASE \E p \in queued[e] : Transmit(e, p)
  <2>1. UNCHANGED <<next_id, target, buffer, special_packet_queue>>
    BY <1>3 DEF Transmit, recvVars
  <2>2. \A x \in Ends : queued'[x] \cup net'[x] \subseteq queued[x] \cup net[x]
    BY <1>3 DEF Transmit, Inv, TypeOK
  <2>3. KnownPackets'
    BY <2>1, <2>2 DEF Known, KnownPackets
  <2> QED BY <2>1, <2>3, TargetsStayKnown DEF Known
<1> QED BY <1>1, <1>2, <1>3

\* Every step keeps the channels known.
LEMMA NextKnown == Inv /\ Known /\ [Next]_vars => Known'
<1> SUFFICES ASSUME Inv, Known, [Next]_vars PROVE Known'
  OBVIOUS
<1>1. CASE AddTarget
  BY <1>1, AddTargetKnown
<1>2. ASSUME NEW e \in Ends, NetworkSendReady(e) PROVE Known'
  BY <1>2, NetworkSendReadyKnown
<1>3. ASSUME NEW e \in Ends, NEW c \in Channels, TargetRecvReady(e, c) PROVE Known'
  BY <1>3, TargetRecvReadyKnown
<1>4. ASSUME NEW e \in Ends, NEW c \in Channels, TargetError(e, c) PROVE Known'
  BY <1>4, TargetErrorKnown
<1>5. ASSUME NEW e \in Ends, NEW p \in net[Peer(e)], NetworkRecv(e, p) PROVE Known'
  BY <1>5, NetworkRecvKnown
<1>6. ASSUME NEW e \in Ends, NEW c \in Channels,
             \/ TargetSendReady(e, c) \/ TargetConnected(e, c)
             \/ \E d \in Data : AppWrite(e, c, d)
      PROVE  Known'
  BY <1>6, OtherKnown
<1>7. ASSUME NEW e \in Ends, NEW p \in queued[e], Transmit(e, p) PROVE Known'
  <2>1. UNCHANGED <<next_id, target, buffer, special_packet_queue>>
    BY <1>7 DEF Transmit, recvVars
  <2>2. \A x \in Ends : queued'[x] \cup net'[x] \subseteq queued[x] \cup net[x]
    BY <1>7 DEF Transmit, Inv, TypeOK
  <2>3. KnownPackets'
    BY <2>1, <2>2 DEF Known, KnownPackets
  <2> QED BY <2>1, <2>3, TargetsStayKnown DEF Known
<1>8. CASE UNCHANGED vars
  <2>1. UNCHANGED <<next_id, target, buffer, special_packet_queue, queued, net>>
    BY <1>8 DEF vars, recvVars
  <2> QED BY <2>1, PacketsStayKnown, TargetsStayKnown DEF Known
<1> QED BY <1>1, <1>2, <1>3, <1>4, <1>5, <1>6, <1>7, <1>8 DEF Next

\* What is known of the channels holds always.
LEMMA KnownInvariant == Spec => [](Inv /\ Known)
BY InitInv, NextInv, InitKnown, NextKnown, PTL DEF Spec

\* The client is never sent a packet of a channel it does not know, whatever the
\* network reorders and however many channels are opened (get_child_stream,
\* unknown_stream_target_creator).
THEOREM TransportNoUnknownStream == Spec => []NoUnknownStream
<1>1. Inv /\ Known => NoUnknownStream
  <2> SUFFICES ASSUME Inv, Known, NEW p \in queued["server"] \cup net["server"]
               PROVE  target["client"][p.id] # "none"
    BY DEF NoUnknownStream
  <2>1. p \in Packet /\ p.id < next_id
    BY DEF Known, KnownPackets, Inv, TypeOK, Ends
  <2>2. p.id \in Channels
    BY <2>1 DEF Packet, DataPacket, ClosePacket
  <2>3. p.id \in Nat
    BY <2>2, ChannelsNat
  <2>4. next_id \in Nat
    BY NextIdNat
  <2>5. ~(p.id >= next_id)
    BY <2>1, <2>3, <2>4
  <2> QED BY <2>2, <2>5 DEF Known, KnownTargets, Ends
<1> QED BY <1>1, KnownInvariant, PTL

-----------------------------------------------------------------------------
(* The reorder buffer does not stall, and overflows only if the peer is    *)
(* really ahead.                                                           *)

\* target_send_ready leaves a hole in front, or a target that is full.
LEMMA ForwardStops ==
    ASSUME TypeOK, NEW e \in Ends, NEW c \in Channels, NEW b \in Seq(Data \cup {Empty}),
           NEW open, NEW ready, Forward(e, c, b, open, ready)
    PROVE  /\ open /\ target_ready'[e][c] /\ buffer'[e][c] # <<>> => buffer'[e][c][1] = Empty
           /\ \A x \in Ends, k \in Channels : x # e \/ k # c =>
                 buffer'[x][k] = buffer[x][k] /\ target_ready'[x][k] = target_ready[x][k]
<1>1. PICK o \in Forwarding(b, open, ready) :
        /\ buffer' = [buffer EXCEPT ![e][c] = SubSeq(b, o.n + 1, Len(b))]
        /\ target_ready' = [target_ready EXCEPT ![e][c] = o.ready]
  BY DEF Forward
<1>2. /\ o.n \in 0 .. Len(b) /\ Len(b) \in Nat
      /\ open /\ o.ready => o.n = Len(b) \/ b[o.n + 1] = Empty
  BY DEF Forwarding
<1> DEFINE rest == SubSeq(b, o.n + 1, Len(b))
<1>3. /\ rest \in Seq(Data \cup {Empty}) /\ Len(rest) = Len(b) - o.n
      /\ \A i \in 1 .. Len(b) - o.n : rest[i] = b[o.n + i]
  BY <1>2, SplitBuffer, SMTT(30)
<1>4. rest # <<>> => o.n < Len(b) /\ rest[1] = b[o.n + 1]
  BY <1>2, <1>3, SMTT(30)
<1>5. buffer \in PerChannel(Seq(Data \cup {Empty})) /\ target_ready \in PerChannel(BOOLEAN)
  BY DEF TypeOK
<1> HIDE DEF rest
<1>6. buffer'[e][c] = rest /\ target_ready'[e][c] = o.ready
  BY <1>1, <1>5 DEF PerChannel, rest
<1>7. \A x \in Ends, k \in Channels : x # e \/ k # c =>
        buffer'[x][k] = buffer[x][k] /\ target_ready'[x][k] = target_ready[x][k]
  BY <1>1, <1>5 DEF PerChannel
<1> QED BY <1>2, <1>4, <1>6, <1>7

\* One child changes, and does not stall; the others are as before.
LEMMA OneChildNoStall ==
    ASSUME NoStall, NEW e \in Ends, NEW c \in Channels,
           \A x \in Ends, k \in Channels : x # e \/ k # c =>
              /\ buffer'[x][k] = buffer[x][k] /\ target_ready'[x][k] = target_ready[x][k]
              /\ target'[x][k] = target[x][k],
           target'[e][c] = "open" /\ target_ready'[e][c] /\ buffer'[e][c] # <<>>
              => buffer'[e][c][1] = Empty
    PROVE  NoStall'
<1> SUFFICES ASSUME NEW x \in Ends, NEW k \in Channels
             PROVE  target'[x][k] = "open" /\ target_ready'[x][k] /\ buffer'[x][k] # <<>>
                      => buffer'[x][k][1] = Empty
  BY DEF NoStall
<1>1. CASE x = e /\ k = c
  BY <1>1
<1>2. CASE x # e \/ k # c
  BY <1>2 DEF NoStall
<1> QED BY <1>1, <1>2

\* place_packet forwards at once from slot 0 and leaves slot 0 alone otherwise.
LEMMA PlacePacketNoStall ==
    ASSUME Inv, Known, NoStall, NEW e \in Ends, NEW p \in net[Peer(e)], p.kind = "data",
           PlacePacket(e, p)
    PROVE  NoStall'
<1> DEFINE c == p.id
           b == buffer[e][c]
           rel == RelSeq(e, p)
           t == ChildTarget(e, c)
           nb == Placed(b, rel, p.data)
<1>1. c \in Channels /\ p.data \in Data
  <2>1. p \in Packet /\ c \in Channels
    BY NeverUnknown
  <2> QED BY <2>1, DataPacketFields
<1>2. target' = [target EXCEPT ![e][c] = t]
  <2>1. CreateChild(e, c, t)
    BY DEF PlacePacket
  <2> HIDE DEF t
  <2> QED BY <2>1, ChildOfKnown, ZenonT(30)
<1>3. \A x \in Ends, k \in Channels :
        target'[x][k] = IF x = e /\ k = c THEN t ELSE target[x][k]
  <2>1. target \in PerChannel({"none", "pending", "open", "closed"})
    BY DEF Inv, TypeOK
  <2> HIDE DEF t
  <2> QED BY <1>1, <1>2, <2>1 DEF PerChannel
<1>4. t = "open" => target[e][c] = "open"
  BY DEF ChildTarget
<1>5. b \in Seq(Data \cup {Empty}) /\ Len(b) \in Nat
  BY <1>1, EntryTypes DEF Inv
<1>6. CASE UNCHANGED <<recvVars, target_ready>>
  <2>1. UNCHANGED <<buffer, target_ready>>
    BY <1>6 DEF recvVars
  <2> HIDE DEF t
  <2> QED BY <1>1, <1>3, <1>4, <2>1 DEF NoStall
<1>7. CASE rel = 0 /\ Forward(e, c, nb, t = "open", target_ready[e][c])
  <2>1. nb \in Seq(Data \cup {Empty})
    BY <1>7, PlacedInOrder
  <2> HIDE DEF nb, t
  <2>2. /\ (t = "open") /\ target_ready'[e][c] /\ buffer'[e][c] # <<>> => buffer'[e][c][1] = Empty
        /\ \A x \in Ends, k \in Channels : x # e \/ k # c =>
              buffer'[x][k] = buffer[x][k] /\ target_ready'[x][k] = target_ready[x][k]
    BY <1>1, <1>7, <2>1, ForwardStops DEF Inv
  <2> HIDE DEF c
  <2> QED BY <1>1, <1>3, <2>2, OneChildNoStall
<1>8. CASE /\ rel \in 1 .. MAX_BUFFER_PACKETS - 1
           /\ buffer' = [buffer EXCEPT ![e][c] = nb]
           /\ UNCHANGED target_ready
  <2>1. rel \in Nat /\ rel > 0
    BY <1>8, ConstantsAssumption
  <2>2. nb[1] = IF b = <<>> THEN Empty ELSE b[1]
    <3>1. Len(nb) >= rel + 1 /\ Len(nb) \in Nat
          /\ \A i \in 1 .. Len(nb) :
                nb[i] = IF i = rel + 1 THEN p.data ELSE IF i <= Len(b) THEN b[i] ELSE Empty
      <4> HIDE DEF b, rel
      <4> QED BY <1>1, <1>5, <2>1, PlacedBuffer
    <3>2. 1 \in 1 .. Len(nb) /\ 1 # rel + 1
      BY <2>1, <3>1
    <3>3. nb[1] = IF 1 <= Len(b) THEN b[1] ELSE Empty
      BY <3>1, <3>2
    <3> QED BY <3>3, <1>5
  <2>3. buffer \in PerChannel(Seq(Data \cup {Empty}))
    BY DEF Inv, TypeOK
  <2> HIDE DEF nb, t
  <2>4. \A x \in Ends, k \in Channels :
          buffer'[x][k] = IF x = e /\ k = c THEN nb ELSE buffer[x][k]
    BY <1>1, <1>8, <2>3 DEF PerChannel
  <2> HIDE DEF c
  <2>5. (t = "open") /\ target_ready[e][c] => nb[1] = Empty
    BY <1>1, <1>4, <2>2 DEF NoStall
  <2> QED BY <1>1, <1>3, <1>8, <2>4, <2>5, OneChildNoStall
<1>9. \/ UNCHANGED <<recvVars, target_ready>>
      \/ rel = 0 /\ Forward(e, c, nb, t = "open", target_ready[e][c])
      \/ /\ rel \in 1 .. MAX_BUFFER_PACKETS - 1
         /\ buffer' = [buffer EXCEPT ![e][c] = nb]
         /\ UNCHANGED target_ready
  BY DEF PlacePacket
<1> QED BY <1>6, <1>7, <1>8, <1>9

\* A step that changes no buffer, and makes no target open or ready.
LEMMA StallUnaffected ==
    ASSUME NoStall, UNCHANGED <<buffer, target_ready>>,
           \A x \in Ends, k \in Channels : target'[x][k] = "open" => target[x][k] = "open"
    PROVE  NoStall'
BY DEF NoStall

\* Every step keeps packets from stalling.
LEMMA NextNoStall == Inv /\ Known /\ NoStall /\ [Next]_vars => NoStall'
<1> SUFFICES ASSUME Inv, Known, NoStall, [Next]_vars PROVE NoStall'
  OBVIOUS
<1>0. target \in PerChannel({"none", "pending", "open", "closed"})
  BY DEF Inv, TypeOK
<1>1. CASE AddTarget
  <2>1. /\ target' = [target EXCEPT !["client"][next_id] = "open"]
        /\ next_id < MaxChannels /\ UNCHANGED <<buffer, target_ready>>
    BY <1>1 DEF AddTarget, recvVars
  <2>2. next_id \in Nat
    BY NextIdNat
  <2>3. next_id \in Channels /\ "client" \in Ends
    BY <2>1, <2>2, ConstantsAssumption DEF Channels, Ends
  <2>4. target["client"][next_id] = "none"
    BY <2>2, <2>3 DEF Known, KnownTargets
  <2>5. buffer["client"][next_id] = <<>>
    BY <2>3, <2>4 DEF Known, NewChild
  <2>6. \A x \in Ends, k \in Channels : x # "client" \/ k # next_id => target'[x][k] = target[x][k]
    BY <1>0, <2>1, <2>3 DEF PerChannel
  <2> QED BY <2>1, <2>3, <2>5, <2>6, OneChildNoStall
<1>2. ASSUME NEW e \in Ends, NetworkSendReady(e) PROVE NoStall'
  BY <1>2, StallUnaffected DEF NetworkSendReady, recvVars
<1>3. ASSUME NEW e \in Ends, NEW c \in Channels, TargetRecvReady(e, c) PROVE NoStall'
  BY <1>3, StallUnaffected DEF TargetRecvReady, recvVars
<1>4. ASSUME NEW e \in Ends, NEW c \in Channels, TargetSendReady(e, c) \/ TargetConnected(e, c)
      PROVE  NoStall'
  <2>1. PICK ready : Forward(e, c, buffer[e][c], TRUE, ready)
    BY <1>4 DEF TargetSendReady, TargetConnected
  <2>2. buffer[e][c] \in Seq(Data \cup {Empty}) /\ TypeOK
    BY EntryTypes DEF Inv
  <2>3. /\ target_ready'[e][c] /\ buffer'[e][c] # <<>> => buffer'[e][c][1] = Empty
        /\ \A x \in Ends, k \in Channels : x # e \/ k # c =>
              buffer'[x][k] = buffer[x][k] /\ target_ready'[x][k] = target_ready[x][k]
    BY <2>1, <2>2, ForwardStops
  <2>4. \A x \in Ends, k \in Channels : x # e \/ k # c => target'[x][k] = target[x][k]
    <3>1. target' = target \/ target' = [target EXCEPT ![e][c] = "open"]
      BY <1>4 DEF TargetSendReady, TargetConnected
    <3> QED BY <1>0, <3>1 DEF PerChannel
  <2> QED BY <2>3, <2>4, OneChildNoStall
<1>5. ASSUME NEW e \in Ends, NEW c \in Channels, TargetError(e, c) PROVE NoStall'
  <2>1. target' = [target EXCEPT ![e][c] = "closed"] /\ UNCHANGED <<buffer, target_ready>>
    BY <1>5 DEF TargetError, recvVars
  <2>2. \A x \in Ends, k \in Channels : target'[x][k] = "open" => target[x][k] = "open"
    BY <1>0, <2>1 DEF PerChannel
  <2> QED BY <2>1, <2>2, StallUnaffected
<1>6. ASSUME NEW e \in Ends, NEW c \in Channels, NEW d \in Data, AppWrite(e, c, d) PROVE NoStall'
  BY <1>6, StallUnaffected DEF AppWrite, recvVars
<1>7. ASSUME NEW e \in Ends, NEW p \in queued[e], Transmit(e, p) PROVE NoStall'
  BY <1>7, StallUnaffected DEF Transmit, recvVars
<1>8. ASSUME NEW e \in Ends, NEW p \in net[Peer(e)], NetworkRecv(e, p) PROVE NoStall'
  <2>1. CASE p.kind = "data" /\ PlacePacket(e, p)
    BY <2>1, PlacePacketNoStall
  <2>2. CASE CloseChannel(e, p)
    <3> DEFINE t == ChildTarget(e, p.id)
               u == IF t = "open" THEN "closed" ELSE t
    <3>1. CreateChild(e, p.id, u) /\ UNCHANGED <<buffer, target_ready>>
      BY <2>2 DEF CloseChannel, recvVars
    <3>2. u # "open"
      OBVIOUS
    <3> HIDE DEF u
    <3>3. target' = [target EXCEPT ![e][p.id] = u] /\ p.id \in Channels
      BY <3>1, ChildOfKnown, NeverUnknown
    <3>4. \A x \in Ends, k \in Channels : target'[x][k] = "open" => target[x][k] = "open"
      BY <1>0, <3>2, <3>3 DEF PerChannel
    <3> QED BY <3>1, <3>4, StallUnaffected
  <2> QED BY <1>8, <2>1, <2>2 DEF NetworkRecv
<1>9. CASE UNCHANGED vars
  BY <1>9, StallUnaffected DEF vars, recvVars
<1> QED BY <1>1, <1>2, <1>3, <1>4, <1>5, <1>6, <1>7, <1>8, <1>9 DEF Next

\* A packet that is next in order never waits while its target could take it:
\* nothing polls the reorder buffer, so place_packet at slot 0 and the loop of
\* target_send_ready must see to it in every order of events.
THEOREM TransportNoStall == Spec => []NoStall
<1>1. Init => NoStall
  BY DEF Init, All, NoStall
<1> QED BY <1>1, NextNoStall, KnownInvariant, PTL DEF Spec

\* Counts of sent packets only grow.
LEMMA SentGrows ==
    ASSUME Inv, NEW e \in Ends, NEW c \in Channels, [Next]_vars
    PROVE  last_sent_packet'[e][c] >= last_sent_packet[e][c]
<1>0. last_sent_packet \in PerChannel(Nat)
  BY DEF Inv, TypeOK
<1>1. CASE last_sent_packet' = last_sent_packet
  BY <1>0, <1>1 DEF PerChannel
<1>2. ASSUME NEW x \in Ends, NEW k \in Channels, TargetRecvReady(x, k)
      PROVE  last_sent_packet'[e][c] >= last_sent_packet[e][c]
  <2> DEFINE n == Lesser(Room(x), Cardinality(Unread(x, k)))
  <2>1. last_sent_packet' = [last_sent_packet EXCEPT ![x][k] = @ + n]
    BY <1>2 DEF TargetRecvReady
  <2>2. n \in Nat
    BY RoomNat, UnreadCount DEF Lesser, Inv, OrderInv
  <2> HIDE DEF n
  <2> QED BY <1>0, <2>1, <2>2 DEF PerChannel
<1>3. ASSUME NEW x \in Ends, NetworkSendReady(x)
      PROVE  last_sent_packet'[e][c] >= last_sent_packet[e][c]
  <2> DEFINE room == Room(x) - SpecialsFirst(x)
  <2>1. PICK take \in Rounds(x, room) :
          last_sent_packet' = [last_sent_packet EXCEPT ![x] =
                                 [k \in Channels |-> last_sent_packet[x][k] + take[k]]]
    BY <1>3 DEF NetworkSendReady
  <2>2. Room(x) \in Nat /\ Len(special_packet_queue[x]) \in Nat
    BY RoomNat DEF Inv, TypeOK
  <2>3. room \in Nat
    BY <2>2 DEF SpecialsFirst, Lesser
  <2>4. take[c] \in 0 .. room
    BY DEF Rounds
  <2>5. take[c] \in Nat
    BY <2>3, <2>4
  <2> QED BY <1>0, <2>1, <2>5 DEF PerChannel
<1>4. ASSUME NEW x \in Ends, NEW k \in Channels,
             \/ TargetSendReady(x, k) \/ TargetConnected(x, k) \/ TargetError(x, k)
             \/ \E d \in Data : AppWrite(x, k, d)
      PROVE  last_sent_packet' = last_sent_packet
  BY <1>4 DEF TargetSendReady, TargetConnected, TargetError, AppWrite, sendVars
<1>5. ASSUME NEW x \in Ends, NEW p, Transmit(x, p) \/ NetworkRecv(x, p)
      PROVE  last_sent_packet' = last_sent_packet
  BY <1>5 DEF Transmit, NetworkRecv, PlacePacket, CloseChannel, sendVars
<1>6. CASE AddTarget \/ UNCHANGED vars
  BY <1>6, <1>1 DEF AddTarget, vars, sendVars
<1> QED BY <1>1, <1>2, <1>3, <1>4, <1>5, <1>6 DEF Next

\* An end whose assertion has failed does nothing more.
LEMMA FailedStops ==
    ASSUME Inv, NEW e \in Ends, failed[e], [Next]_vars
    PROVE  \A c \in Channels : last_forwarded_packet'[e][c] = last_forwarded_packet[e][c]
<1>0. last_forwarded_packet \in PerChannel(Nat)
  BY DEF Inv, TypeOK
<1>1. CASE last_forwarded_packet' = last_forwarded_packet
  BY <1>1
<1>2. ASSUME NEW x \in Ends, NEW k \in Channels, TargetSendReady(x, k) \/ TargetConnected(x, k)
      PROVE  \A c \in Channels : last_forwarded_packet'[e][c] = last_forwarded_packet[e][c]
  <2>1. x # e
    BY <1>2 DEF TargetSendReady, TargetConnected
  <2>2. \E n : last_forwarded_packet' = [last_forwarded_packet EXCEPT ![x][k] = n]
    BY <1>2 DEF TargetSendReady, TargetConnected, Forward
  <2> QED BY <1>0, <2>1, <2>2 DEF PerChannel
<1>3. ASSUME NEW x \in Ends, NEW p, NetworkRecv(x, p)
      PROVE  \A c \in Channels : last_forwarded_packet'[e][c] = last_forwarded_packet[e][c]
  <2>1. x # e
    BY <1>3 DEF NetworkRecv, PlacePacket, CloseChannel
  <2>2. \/ last_forwarded_packet' = last_forwarded_packet
        \/ \E n : last_forwarded_packet' = [last_forwarded_packet EXCEPT ![x][p.id] = n]
    BY <1>3 DEF NetworkRecv, PlacePacket, CloseChannel, Forward, recvVars
  <2> QED BY <1>0, <1>1, <2>1, <2>2 DEF PerChannel
<1>4. ASSUME NEW x \in Ends, NEW k \in Channels,
             \/ TargetRecvReady(x, k) \/ TargetError(x, k)
             \/ \E d \in Data : AppWrite(x, k, d)
      PROVE  last_forwarded_packet' = last_forwarded_packet
  BY <1>4 DEF TargetRecvReady, TargetError, AppWrite, recvVars
<1>5. ASSUME NEW x \in Ends, NEW p, NetworkSendReady(x) \/ Transmit(x, p)
      PROVE  last_forwarded_packet' = last_forwarded_packet
  BY <1>5 DEF NetworkSendReady, Transmit, recvVars
<1>6. CASE AddTarget \/ UNCHANGED vars
  BY <1>6, <1>1 DEF AddTarget, vars, recvVars
<1> QED BY <1>1, <1>2, <1>3, <1>4, <1>5, <1>6 DEF Next

\* Only place_packet makes the assertion fail, and only for a packet that the
\* peer has sent.
LEMMA FailsBehind ==
    ASSUME Inv, NEW e \in Ends, ~failed[e], failed'[e], [Next]_vars
    PROVE  \E c \in Channels :
             last_sent_packet'[Peer(e)][c] > last_forwarded_packet'[e][c] + MAX_BUFFER_PACKETS
<1>1. PICK x \in Ends : \E q \in net[Peer(x)] : q.kind = "data" /\ PlacePacket(x, q)
  <2>1. UNCHANGED failed => FALSE
    OBVIOUS
  <2>2. ~UNCHANGED vars /\ ~AddTarget
    BY <2>1 DEF vars, AddTarget
  <2>3. ASSUME NEW x \in Ends PROVE ~NetworkSendReady(x)
    BY <2>1 DEF NetworkSendReady
  <2>4. ASSUME NEW x \in Ends, NEW k \in Channels
        PROVE  /\ ~TargetRecvReady(x, k) /\ ~TargetSendReady(x, k) /\ ~TargetConnected(x, k)
               /\ ~TargetError(x, k) /\ ~\E d \in Data : AppWrite(x, k, d)
    BY <2>1 DEF TargetRecvReady, TargetSendReady, TargetConnected, TargetError, AppWrite
  <2>5. ASSUME NEW x \in Ends, NEW q, Transmit(x, q) PROVE FALSE
    BY <2>1, <2>5 DEF Transmit
  <2>6. PICK x \in Ends : \E q \in net[Peer(x)] : NetworkRecv(x, q)
    BY <2>2, <2>3, <2>4, <2>5, Zenon DEF Next
  <2> QED BY <2>1, <2>6 DEF NetworkRecv, CloseChannel
<1>2. PICK p \in net[Peer(x)] : p.kind = "data" /\ PlacePacket(x, p)
  BY <1>1
<1> DEFINE c == p.id
           rel == RelSeq(x, p)
<1>3. /\ failed' = [failed EXCEPT ![x] = rel >= MAX_BUFFER_PACKETS]
      /\ rel < 0 \/ rel >= MAX_BUFFER_PACKETS => UNCHANGED recvVars
      /\ UNCHANGED sendVars
  <2>1. rel < 0 \/ rel >= MAX_BUFFER_PACKETS =>
           ~(rel \in 0 .. MAX_BUFFER_PACKETS - 1) /\ rel # 0 /\ ~(rel \in 1 .. MAX_BUFFER_PACKETS - 1)
    BY ConstantsAssumption
  <2> QED BY <1>2, <2>1 DEF PlacePacket
<1>4. x = e /\ rel >= MAX_BUFFER_PACKETS
  BY <1>3 DEF Inv, TypeOK
<1>5. p \in Packet /\ Peer(e) \in Ends
  BY <1>4, PeerEnd DEF Inv, TypeOK
<1>6. c \in Channels /\ p.seq \in Nat
  BY <1>2, <1>5, DataPacketFields
<1>7. p.seq < last_sent_packet[Peer(e)][c]
  BY <1>2, <1>4, <1>5 DEF Inv, OrderInv, PacketInv
<1>8. last_sent_packet[Peer(e)][c] \in Nat /\ last_forwarded_packet[e][c] \in Nat
  BY <1>5, <1>6, EntryTypes DEF Inv
<1>9. p.seq - last_forwarded_packet[e][c] >= MAX_BUFFER_PACKETS
  BY <1>4 DEF RelSeq
<1>10. last_sent_packet[Peer(e)][c] > last_forwarded_packet[e][c] + MAX_BUFFER_PACKETS
  <2> HIDE DEF c
  <2> QED BY <1>6, <1>7, <1>8, <1>9, ConstantsAssumption
<1>11. UNCHANGED <<last_sent_packet, last_forwarded_packet>>
  BY <1>3, <1>4 DEF sendVars, recvVars
<1> QED BY <1>6, <1>10, <1>11

\* The assertion of place_packet fails only if its peer has sent more than
\* MAX_BUFFER_PACKETS chunks beyond those that the target was given; no old or
\* repeated packet, and none that fits into the reorder buffer, fails it.
THEOREM TransportWindow == Spec => []WindowSuffices
<1>1. Init => WindowSuffices
  BY DEF Init, WindowSuffices
<1>2. Inv /\ Inv' /\ WindowSuffices /\ [Next]_vars => WindowSuffices'
  <2> SUFFICES ASSUME Inv, Inv', WindowSuffices, [Next]_vars, NEW e \in Ends, failed'[e]
               PROVE  \E c \in Channels : last_sent_packet'[Peer(e)][c] >
                                              last_forwarded_packet'[e][c] + MAX_BUFFER_PACKETS
    BY DEF WindowSuffices
  <2>1. CASE ~failed[e]
    BY <2>1, FailsBehind
  <2>2. CASE failed[e]
    <3>1. PICK c \in Channels :
            last_sent_packet[Peer(e)][c] > last_forwarded_packet[e][c] + MAX_BUFFER_PACKETS
      BY <2>2 DEF WindowSuffices
    <3>2. last_forwarded_packet'[e][c] = last_forwarded_packet[e][c]
      BY <2>2, FailedStops
    <3>3. Peer(e) \in Ends
      BY PeerEnd
    <3>4. last_sent_packet'[Peer(e)][c] >= last_sent_packet[Peer(e)][c]
      BY <3>3, SentGrows
    <3>5. /\ last_sent_packet[Peer(e)][c] \in Nat /\ last_forwarded_packet[e][c] \in Nat
          /\ last_sent_packet'[Peer(e)][c] \in Nat
      <4>1. last_sent_packet' \in PerChannel(Nat)
        BY DEF Inv, TypeOK
      <4> QED BY <3>3, <4>1, EntryTypes DEF Inv, PerChannel
    <3>6. last_sent_packet'[Peer(e)][c] > last_forwarded_packet'[e][c] + MAX_BUFFER_PACKETS
      BY <3>1, <3>2, <3>4, <3>5, ConstantsAssumption
    <3> QED BY <3>6
  <2> QED BY <2>1, <2>2
<1> QED BY <1>1, <1>2, KnownInvariant, PTL DEF Spec

-----------------------------------------------------------------------------
(* The pair implements OrderedChannels.                                    *)

Flows == Ends \X Channels

\* The abstract state, as OC maps it.
Written == [f \in Flows |-> source[f[1]][f[2]]]
Delivered == [f \in Flows |-> forwarded[Peer(f[1])][f[2]]]
ShutFlows == {f \in Flows : target[Peer(f[1])][f[2]] = "closed"}

\* The flow that ends at child c of end e.
FlowTo(e, c) == <<Peer(e), c>>

\* It is a flow, and no other child is its end.
LEMMA FlowToEnd ==
    ASSUME NEW e \in Ends, NEW c \in Channels
    PROVE  /\ FlowTo(e, c) \in Flows
           /\ FlowTo(e, c)[1] = Peer(e) /\ FlowTo(e, c)[2] = c /\ Peer(FlowTo(e, c)[1]) = e
           /\ \A f \in Flows : f[1] \in Ends /\ f[2] \in Channels /\ Peer(f[1]) \in Ends
           /\ \A f \in Flows : f = FlowTo(e, c) <=> Peer(f[1]) = e /\ f[2] = c
<1>1. Peer(e) \in Ends /\ Peer(Peer(e)) = e
  BY PeerEnd
<1>2. \A f \in Flows : f[1] \in Ends /\ f[2] \in Channels /\ f = <<f[1], f[2]>>
  BY DEF Flows
<1>3. \A f \in Flows : Peer(f[1]) \in Ends /\ Peer(Peer(f[1])) = f[1]
  BY <1>2, PeerEnd
<1> QED BY <1>1, <1>2, <1>3 DEF FlowTo, Flows

\* A sequence that is a prefix of another is a subsequence of it.
LEMMA PrefixIsSubSeq ==
    ASSUME NEW s \in Seq(Data), NEW t \in Seq(Data), Prefix(s, t)
    PROVE  s = SubSeq(t, 1, Len(s))
<1>1. Len(s) \in 0 .. Len(t) /\ \A i \in 1 .. Len(s) : s[i] = t[i]
  BY DEF Prefix
<1>2. /\ SubSeq(t, 1, Len(s)) \in Seq(Data) /\ Len(SubSeq(t, 1, Len(s))) = Len(s)
      /\ \A i \in 1 .. Len(s) : SubSeq(t, 1, Len(s))[i] = t[i]
  BY <1>1, SplitBuffer
<1> QED BY <1>1, <1>2

\* What target_send_ready gives to the target are the next chunks in order.
LEMMA ForwardDelivers ==
    ASSUME Inv, Inv', NEW e \in Ends, NEW c \in Channels, NEW b, NEW open, NEW ready,
           Forward(e, c, b, open, ready), UNCHANGED source
    PROVE  \/ UNCHANGED forwarded
           \/ /\ open
              /\ \E n \in 1 .. Len(source[Peer(e)][c]) :
                    /\ Len(forwarded[e][c]) + n <= Len(source[Peer(e)][c])
                    /\ forwarded' = [forwarded EXCEPT ![e][c] =
                                       SubSeq(source[Peer(e)][c], 1, Len(forwarded[e][c]) + n)]
<1> DEFINE src == source[Peer(e)][c]
           fwd == forwarded[e][c]
           new == forwarded'[e][c]
<1>1. PICK o \in Forwarding(b, open, ready) :
        /\ \E s : forwarded' = [forwarded EXCEPT ![e][c] = s]
        /\ last_forwarded_packet' = [last_forwarded_packet EXCEPT ![e][c] = @ + o.n]
  BY DEF Forward
<1>2. o.n \in Nat /\ (o.n > 0 => open)
  BY DEF Forwarding
<1>3. /\ forwarded \in PerChannel(Seq(Data)) /\ forwarded' \in PerChannel(Seq(Data))
      /\ last_forwarded_packet \in PerChannel(Nat) /\ Peer(e) \in Ends
      /\ src \in Seq(Data) /\ Len(src) \in Nat
  BY PeerEnd, EntryTypes DEF Inv, TypeOK
<1>4. fwd \in Seq(Data) /\ new \in Seq(Data) /\ Len(fwd) \in Nat
  BY <1>3 DEF PerChannel
<1>5. forwarded' = [forwarded EXCEPT ![e][c] = new]
  BY <1>1, <1>3 DEF PerChannel
<1>6. Len(new) = Len(fwd) + o.n
  <2>1. last_forwarded_packet'[e][c] = last_forwarded_packet[e][c] + o.n
    BY <1>1, <1>3 DEF PerChannel
  <2>2. last_forwarded_packet[e][c] = Len(fwd)
    BY DEF Inv, OrderInv, CountInv
  <2>3. last_forwarded_packet'[e][c] = Len(new)
    BY DEF Inv, OrderInv, CountInv
  <2> QED BY <2>1, <2>2, <2>3
<1>7. Prefix(new, src) /\ Prefix(fwd, src)
  BY DEF Inv, OrderInv, InOrder
<1>8. Len(new) <= Len(src) /\ new = SubSeq(src, 1, Len(new)) /\ fwd = SubSeq(src, 1, Len(fwd))
  BY <1>3, <1>4, <1>7, PrefixIsSubSeq DEF Prefix
<1> HIDE DEF src, new, fwd
<1>9. CASE o.n = 0
  <2>1. new = fwd
    BY <1>4, <1>6, <1>8, <1>9
  <2>2. forwarded' = forwarded
    BY <1>3, <1>5, <2>1 DEF PerChannel, fwd
  <2> QED BY <2>2
<1>10. CASE o.n # 0
  <2>1. open /\ o.n \in 1 .. Len(src) /\ Len(fwd) + o.n <= Len(src)
    BY <1>2, <1>3, <1>4, <1>6, <1>8, <1>10
  <2>2. forwarded' = [forwarded EXCEPT ![e][c] = SubSeq(src, 1, Len(fwd) + o.n)]
    BY <1>5, <1>6, <1>8
  <2> QED BY <2>1, <2>2 DEF src, fwd
<1> QED BY <1>9, <1>10

\* Forwarding at a child is a delivery of its flow, or no step at all.
LEMMA DeliverStep ==
    ASSUME Inv, Inv', NEW e \in Ends, NEW c \in Channels, NEW b, NEW open, NEW ready,
           Forward(e, c, b, open, ready), UNCHANGED source,
           open => target[e][c] # "closed" /\ ShutFlows' = ShutFlows
    PROVE  \/ UNCHANGED <<Written, Delivered>>
           \/ /\ ShutFlows' = ShutFlows
              /\ \E n \in 1 .. Len(Written[FlowTo(e, c)]) : OC!Deliver(FlowTo(e, c), n)
<1> DEFINE g == FlowTo(e, c)
           src == source[Peer(e)][c]
           fwd == forwarded[e][c]
<1>1. Written' = Written
  BY DEF Written
<1>2. CASE UNCHANGED forwarded
  BY <1>1, <1>2 DEF Delivered
<1>3. CASE ~UNCHANGED forwarded
  <2>1. /\ open
        /\ \E n \in 1 .. Len(src) :
              /\ Len(fwd) + n <= Len(src)
              /\ forwarded' = [forwarded EXCEPT ![e][c] = SubSeq(src, 1, Len(fwd) + n)]
    BY <1>3, ForwardDelivers
  <2>2. PICK n \in 1 .. Len(src) :
          /\ Len(fwd) + n <= Len(src)
          /\ forwarded' = [forwarded EXCEPT ![e][c] = SubSeq(src, 1, Len(fwd) + n)]
    BY <2>1
  <2>3. /\ g \in Flows /\ g[1] = Peer(e) /\ g[2] = c /\ Peer(g[1]) = e
        /\ \A f \in Flows : f[1] \in Ends /\ f[2] \in Channels /\ Peer(f[1]) \in Ends
        /\ \A f \in Flows : f = g <=> Peer(f[1]) = e /\ f[2] = c
    BY FlowToEnd
  <2>4. Written[g] = src /\ Delivered[g] = fwd
    BY <2>3 DEF Written, Delivered
  <2>5. g \notin ShutFlows
    BY <2>1, <2>3 DEF ShutFlows
  <2> DEFINE new == SubSeq(src, 1, Len(fwd) + n)
  <2>6. \A x \in Ends, k \in Channels :
          forwarded'[x][k] = IF x = e /\ k = c THEN new ELSE forwarded[x][k]
    BY <2>2, ZenonT(30) DEF Inv, TypeOK, PerChannel
  <2> HIDE DEF g, new
  <2>7. Delivered' = [Delivered EXCEPT ![g] = new]
    BY <2>3, <2>6 DEF Delivered
  <2>8. OC!Deliver(g, n)
    BY <1>1, <2>1, <2>2, <2>4, <2>5, <2>7
       DEF OC!Deliver, Written, Delivered, ShutFlows, Flows, new
  <2> QED BY <2>1, <2>4, <2>8 DEF g
<1> QED BY <1>2, <1>3

\* A step of OrderedChannels, or none.
OCStep == OC!OCNext \/ UNCHANGED <<Written, Delivered, ShutFlows>>

\* How the flows that are shut follow the target of one child.
LEMMA ShutFollowsTarget ==
    ASSUME Inv, NEW e \in Ends, NEW c \in Channels, NEW v,
           target' = [target EXCEPT ![e][c] = v]
    PROVE  /\ v # "closed" /\ target[e][c] # "closed" => ShutFlows' = ShutFlows
           /\ v = target[e][c] => ShutFlows' = ShutFlows
           /\ v = "closed" => ShutFlows' = ShutFlows \cup {FlowTo(e, c)}
<1> DEFINE g == FlowTo(e, c)
<1>1. /\ g \in Flows /\ Peer(g[1]) = e /\ g[2] = c
      /\ \A f \in Flows : f[1] \in Ends /\ f[2] \in Channels /\ Peer(f[1]) \in Ends
      /\ \A f \in Flows : f = g <=> Peer(f[1]) = e /\ f[2] = c
  BY FlowToEnd
<1>2. \A x \in Ends, k \in Channels :
        target'[x][k] = IF x = e /\ k = c THEN v ELSE target[x][k]
  BY DEF Inv, TypeOK, PerChannel
<1> HIDE DEF g
<1>3. \A f \in Flows : target'[Peer(f[1])][f[2]] = IF f = g THEN v ELSE target[Peer(f[1])][f[2]]
  BY <1>1, <1>2
<1>4. target[Peer(g[1])][g[2]] = target[e][c]
  BY <1>1
<1>5. ShutFlows' = {f \in Flows : (IF f = g THEN v ELSE target[Peer(f[1])][f[2]]) = "closed"}
  BY <1>3 DEF ShutFlows
<1> QED BY <1>1, <1>4, <1>5 DEF ShutFlows, g

\* Opening a target shuts no flow.
LEMMA OpenShutsNothing ==
    ASSUME Inv, NEW e \in Ends, NEW c \in Channels, target[e][c] # "closed",
           target' = [target EXCEPT ![e][c] = "open"]
    PROVE  ShutFlows' = ShutFlows
<1> DEFINE v == "open"
<1>1. v # "closed" /\ target' = [target EXCEPT ![e][c] = v]
  OBVIOUS
<1> HIDE DEF v
<1> QED BY <1>1, ShutFollowsTarget

\* Forwarding at a child whose target is not being closed is a step of
\* OrderedChannels.
LEMMA ForwardStep ==
    ASSUME Inv, Inv', NEW e \in Ends, NEW c \in Channels, NEW b, NEW open, NEW ready,
           Forward(e, c, b, open, ready), UNCHANGED source,
           open => target[e][c] # "closed", ShutFlows' = ShutFlows
    PROVE  OCStep
<1>1. CASE UNCHANGED <<Written, Delivered>>
  BY <1>1 DEF OCStep
<1>2. CASE \E n \in 1 .. Len(Written[FlowTo(e, c)]) : OC!Deliver(FlowTo(e, c), n)
  <2>1. FlowTo(e, c) \in Flows
    BY FlowToEnd
  <2> QED BY <1>2, <2>1 DEF OCStep, OC!OCNext, Flows, Written
<1> QED BY <1>1, <1>2, DeliverStep

\* A child whose target is closed shuts its flow.
LEMMA ShutStep ==
    ASSUME Inv, NEW e \in Ends, NEW c \in Channels,
           target' = [target EXCEPT ![e][c] = "closed"], UNCHANGED <<source, forwarded>>
    PROVE  OCStep
<1>1. ShutFlows' = ShutFlows \cup {FlowTo(e, c)}
  BY ShutFollowsTarget
<1>2. FlowTo(e, c) \in Flows
  BY FlowToEnd
<1>3. Written' = Written /\ Delivered' = Delivered
  BY DEF Written, Delivered
<1>4. OC!Shut(FlowTo(e, c))
  BY <1>1, <1>3 DEF OC!Shut, Written, Delivered, ShutFlows, Flows
<1> QED BY <1>2, <1>4 DEF OCStep, OC!OCNext, Flows

\* A step that leaves what was written, what was forwarded and the closed
\* targets alone is no step of OrderedChannels.
LEMMA StutterStep ==
    ASSUME UNCHANGED <<source, forwarded>>, ShutFlows' = ShutFlows
    PROVE  OCStep
BY DEF OCStep, Written, Delivered

\* The application writes.
LEMMA WriteStep ==
    ASSUME Inv, NEW e \in Ends, NEW c \in Channels, NEW d \in Data, AppWrite(e, c, d)
    PROVE  OCStep
<1> DEFINE f == <<e, c>>
<1>1. f \in Flows /\ f[1] = e /\ f[2] = c
  BY DEF Flows
<1>2. \A x \in Ends, k \in Channels :
        source'[x][k] = IF x = e /\ k = c THEN Append(source[e][c], d) ELSE source[x][k]
  BY DEF AppWrite, Inv, TypeOK, PerChannel
<1>3. \A g \in Flows : /\ g[1] \in Ends /\ g[2] \in Channels
                       /\ g = f <=> g[1] = e /\ g[2] = c
  BY DEF Flows
<1>4. Written' = [Written EXCEPT ![f] = Append(Written[f], d)]
  <2> HIDE DEF f
  <2>1. Written' = [g \in Flows |-> source'[g[1]][g[2]]] /\ Written = [g \in Flows |-> source[g[1]][g[2]]]
    BY DEF Written
  <2>2. \A g \in Flows : source'[g[1]][g[2]] = IF g = f THEN Append(Written[f], d) ELSE Written[g]
    BY <1>1, <1>2, <1>3, <2>1
  <2> HIDE DEF Written
  <2> QED BY <2>1, <2>2
<1>5. Delivered' = Delivered /\ ShutFlows' = ShutFlows
  BY DEF AppWrite, recvVars, Delivered, ShutFlows
<1>6. OC!Write(f, d)
  BY <1>4, <1>5 DEF OC!Write, Written, Delivered, ShutFlows, Flows
<1> QED BY <1>1, <1>6 DEF OCStep, OC!OCNext, Flows

\* A packet arrives.
LEMMA NetworkRecvStep ==
    ASSUME Inv, Inv', Known, NEW e \in Ends, NEW p \in net[Peer(e)], NetworkRecv(e, p)
    PROVE  OCStep
<1> DEFINE c == p.id
           t == ChildTarget(e, c)
<1>1. c \in Channels
  <2>1. p \in Packet
    BY PeerEnd DEF Inv, TypeOK
  <2> QED BY <2>1 DEF Packet, DataPacket, ClosePacket
<1>2. /\ target[e][c] # "none" => t = target[e][c]
      /\ target[e][c] = "none" => t = "pending"
  <2>1. ~UnknownStream(e, c)
    BY NeverUnknown
  <2> QED BY <2>1 DEF ChildTarget, UnknownStream, Ends
<1> HIDE DEF t
<1>3. CASE PlacePacket(e, p)
  <2>1. target' = [target EXCEPT ![e][c] = t]
    BY <1>3 DEF PlacePacket, CreateChild, t
  <2>2. ShutFlows' = ShutFlows
    <3> HIDE DEF c
    <3> QED BY <1>1, <1>2, <2>1, ShutFollowsTarget
  <2>3. UNCHANGED source
    BY <1>3 DEF PlacePacket, sendVars
  <2>4. CASE UNCHANGED forwarded
    BY <2>2, <2>3, <2>4, StutterStep
  <2>5. CASE Forward(e, c, Placed(buffer[e][c], RelSeq(e, p), p.data), t = "open", target_ready[e][c])
    <3>1. t = "open" => target[e][c] # "closed"
      BY <1>2
    <3> HIDE DEF c
    <3> QED BY <1>1, <2>2, <2>3, <2>5, <3>1, ForwardStep
  <2> QED BY <1>3, <2>4, <2>5 DEF PlacePacket, recvVars, t
<1>4. CASE CloseChannel(e, p)
  <2> DEFINE v == IF t = "open" THEN "closed" ELSE t
  <2>1. target' = [target EXCEPT ![e][c] = v] /\ UNCHANGED <<source, forwarded>>
    BY <1>4 DEF CloseChannel, CreateChild, t, sendVars, recvVars
  <2> HIDE DEF c
  <2>2. CASE t = "open"
    BY <1>1, <2>1, <2>2, ShutStep
  <2>3. CASE t # "open"
    <3>1. v = t
      BY <2>3
    <3>2. target' = [target EXCEPT ![e][c] = t]
      BY <2>1, <3>1
    <3>3. ShutFlows' = ShutFlows
      BY <1>1, <1>2, <3>2, ShutFollowsTarget
    <3> QED BY <2>1, <3>3, StutterStep
  <2> QED BY <2>2, <2>3
<1> QED BY <1>3, <1>4 DEF NetworkRecv

\* Every step of the pair is a step of OrderedChannels, or none.
LEMMA NextStep == Inv /\ Inv' /\ Known /\ [Next]_vars => OCStep
<1> SUFFICES ASSUME Inv, Inv', Known, [Next]_vars PROVE OCStep
  OBVIOUS
<1>1. CASE AddTarget
  <2>1. next_id \in Channels /\ "client" \in Ends
    BY <1>1, NextIdNat, ConstantsAssumption DEF AddTarget, Channels, Ends
  <2>2. target["client"][next_id] = "none"
    BY <2>1, NextIdNat DEF Known, KnownTargets
  <2>3. target' = [target EXCEPT !["client"][next_id] = "open"] /\ UNCHANGED <<source, forwarded>>
    BY <1>1 DEF AddTarget, sendVars, recvVars
  <2>4. ShutFlows' = ShutFlows
    BY <2>1, <2>2, <2>3, OpenShutsNothing
  <2> QED BY <2>3, <2>4, StutterStep
<1>2. CASE UNCHANGED <<target, source, forwarded>>
  BY <1>2, StutterStep DEF ShutFlows
<1>3. ASSUME NEW e \in Ends, NEW c \in Channels, TargetSendReady(e, c) PROVE OCStep
  <2>1. Forward(e, c, buffer[e][c], TRUE, TRUE) /\ UNCHANGED <<source, target>>
    BY <1>3 DEF TargetSendReady, sendVars
  <2>2. target[e][c] # "closed" /\ ShutFlows' = ShutFlows
    BY <1>3, <2>1 DEF TargetSendReady, ShutFlows
  <2> QED BY <2>1, <2>2, ForwardStep
<1>4. ASSUME NEW e \in Ends, NEW c \in Channels, TargetConnected(e, c) PROVE OCStep
  <2>1. /\ Forward(e, c, buffer[e][c], TRUE, target_ready[e][c]) /\ UNCHANGED source
        /\ target[e][c] = "pending" /\ target' = [target EXCEPT ![e][c] = "open"]
    BY <1>4 DEF TargetConnected, sendVars
  <2>2. ShutFlows' = ShutFlows
    BY <2>1, OpenShutsNothing
  <2> QED BY <2>1, <2>2, ForwardStep
<1>5. ASSUME NEW e \in Ends, NEW c \in Channels, TargetError(e, c) PROVE OCStep
  BY <1>5, ShutStep DEF TargetError, sendVars, recvVars
<1>6. ASSUME NEW e \in Ends, NEW c \in Channels, NEW d \in Data, AppWrite(e, c, d) PROVE OCStep
  BY <1>6, WriteStep
<1>7. ASSUME NEW e \in Ends, NEW p \in net[Peer(e)], NetworkRecv(e, p) PROVE OCStep
  BY <1>7, NetworkRecvStep
<1>8. \A e \in Ends : NetworkSendReady(e) => UNCHANGED <<target, source, forwarded>>
  BY DEF NetworkSendReady, recvVars
<1>9. \A e \in Ends, c \in Channels : TargetRecvReady(e, c) => UNCHANGED <<target, source, forwarded>>
  BY DEF TargetRecvReady, recvVars
<1>10. \A e \in Ends : \A p \in queued[e] : Transmit(e, p) => UNCHANGED <<target, source, forwarded>>
  BY DEF Transmit, sendVars, recvVars
<1>11. UNCHANGED vars => UNCHANGED <<target, source, forwarded>>
  BY DEF vars, sendVars, recvVars
<1> QED BY <1>1, <1>2, <1>3, <1>4, <1>5, <1>6, <1>7, <1>8, <1>9, <1>10, <1>11 DEF Next

\* The pair implements ordered exactly-once channels: under the mapping of
\* Transport.tla, every behaviour of the two ends is one of OrderedChannels.
THEOREM TransportImplementsChannels == Spec => ImplementsOrderedChannels
<1>1. Init => OC!OCInit
  <2> SUFFICES ASSUME Init PROVE OC!OCInit
    OBVIOUS
  <2>1. \A f \in Flows : f[1] \in Ends /\ f[2] \in Channels /\ Peer(f[1]) \in Ends
    BY PeerEnd DEF Flows
  <2>2. \A x \in Ends, k \in Channels :
          source[x][k] = <<>> /\ forwarded[x][k] = <<>> /\ target[x][k] = "none"
    BY DEF Init, All
  <2>3. /\ Written = [f \in Flows |-> <<>>] /\ Delivered = [f \in Flows |-> <<>>]
        /\ ShutFlows = {}
    BY <2>1, <2>2 DEF Written, Delivered, ShutFlows
  <2> QED BY <2>3 DEF OC!OCInit, Written, Delivered, ShutFlows, Flows
<1>2. Inv /\ Inv' /\ Known /\ [Next]_vars => [OC!OCNext]_(OC!ocVars)
  BY NextStep DEF OCStep, OC!ocVars, Written, Delivered, ShutFlows, Flows
<1> QED BY <1>1, <1>2, KnownInvariant, PTL DEF Spec, ImplementsOrderedChannels, OC!OCSpec

=============================================================================
