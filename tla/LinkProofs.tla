----------------------------- MODULE LinkProofs -----------------------------
(***************************************************************************)
(* Proofs about Link: a link delivers its packets in order, keeps in       *)
(* in_flight_queue whatever may be lost, never takes an acknowledgement    *)
(* back, and always has a callback due for what waits in its buffers.      *)
(***************************************************************************)
EXTENDS Link, TLAPS, SequenceTheorems

LEMMA PeerEnd ==
    \A e \in Ends : /\ Peer(e) \in Ends /\ Peer(e) # e /\ Peer(Peer(e)) = e
                    /\ \A x \in Ends : x = e \/ x = Peer(e)
BY DEF Ends, Peer

-----------------------------------------------------------------------------
(* What a stream of packets promises its reader.                           *)

\* The data packets and pings of s, for a reader that has parsed n of the
\* `last' data packets sent.  If full, none of the rest is missing.
Forth(s, n, last, full) ==
    /\ Continues(s, n)
    /\ \A i \in 1 .. Len(s) : ~IsPong(s[i]) => s[i].seq <= last
    /\ full => \A q \in n + 1 .. last : HasData(s, q)

\* The pongs of s, for a reader that was told lo, when the writer has taken
\* hi packets and owes a pong for req.
Back(s, lo, hi, req) ==
    /\ \A i \in 1 .. Len(s) : IsPong(s[i]) =>
          /\ s[i].seq \in lo .. hi
          /\ \A j \in 1 .. i - 1 : IsPong(s[j]) => s[j].seq <= s[i].seq
          /\ req # None => s[i].seq <= req
    /\ req # None => req \in lo .. hi

LEMMA PacketFields ==
    ASSUME NEW p \in Packet
    PROVE  p.seq \in Nat /\ p.kind \in {"data", "ping", "pong"}
BY DEF Packet

LEMMA AppendEntries ==
    ASSUME NEW s \in Seq(Packet), NEW x \in Packet
    PROVE  /\ Append(s, x) \in Seq(Packet) /\ Len(s) \in Nat /\ Len(Append(s, x)) = Len(s) + 1
           /\ \A i \in 1 .. Len(s) : Append(s, x)[i] = s[i] /\ s[i] \in Packet
           /\ Append(s, x)[Len(s) + 1] = x
OBVIOUS

LEMMA TailEntries ==
    ASSUME NEW s \in Seq(Packet), s # <<>>
    PROVE  /\ Tail(s) \in Seq(Packet) /\ Len(s) \in Nat /\ Len(s) > 0 /\ Len(Tail(s)) = Len(s) - 1
           /\ Head(s) = s[1] /\ Head(s) \in Packet
           /\ \A i \in 1 .. Len(Tail(s)) : Tail(s)[i] = s[i + 1] /\ i + 1 \in 1 .. Len(s)
OBVIOUS

\* A packet that carries a number not below any other may be appended.
LEMMA ForthAppend ==
    ASSUME NEW s \in Seq(Packet), NEW n \in Nat, NEW last \in Nat, NEW new \in Nat, NEW x \in Packet,
           Forth(s, n, last, TRUE), n <= last,
           \/ IsData(x) /\ x.seq = last + 1 /\ new = last + 1
           \/ x.kind = "ping" /\ x.seq = last /\ new = last
    PROVE  Forth(Append(s, x), n, new, TRUE)
<1> DEFINE t == Append(s, x)
<1>1. /\ t \in Seq(Packet) /\ Len(s) \in Nat /\ Len(t) = Len(s) + 1
      /\ \A i \in 1 .. Len(s) : t[i] = s[i] /\ s[i] \in Packet
      /\ t[Len(s) + 1] = x
  BY AppendEntries
<1> HIDE DEF t
<1>2. \A i \in 1 .. Len(t) : i \in 1 .. Len(s) \/ i = Len(s) + 1
  BY <1>1
<1>3. \A i \in 1 .. Len(s) : s[i].seq \in Nat /\ (~IsPong(s[i]) => s[i].seq <= last)
  BY <1>1, PacketFields DEF Forth
<1>4. ~IsPong(x) /\ x.seq = new /\ (IsData(x) => new = last + 1) /\ (~IsData(x) => new = last)
  BY DEF IsPong, IsData
<1>5. \A q \in n + 1 .. last : \E j \in 1 .. Len(s) : IsData(t[j]) /\ t[j].seq = q
  BY <1>1 DEF Forth, HasData
<1>6. \A q \in n + 1 .. new : \E j \in 1 .. Len(t) : IsData(t[j]) /\ t[j].seq = q
  <2> SUFFICES ASSUME NEW q \in n + 1 .. new
               PROVE  \E j \in 1 .. Len(t) : IsData(t[j]) /\ t[j].seq = q
    OBVIOUS
  <2>1. CASE q \in n + 1 .. last
    <3>1. PICK j \in 1 .. Len(s) : IsData(t[j]) /\ t[j].seq = q
      BY <1>5, <2>1
    <3>2. j \in 1 .. Len(t)
      BY <1>1
    <3> QED BY <3>1, <3>2
  <2>2. CASE q \notin n + 1 .. last
    <3>1. IsData(x) /\ q = last + 1
      BY <1>4, <2>2
    <3>2. Len(s) + 1 \in 1 .. Len(t)
      BY <1>1
    <3> QED BY <1>1, <1>4, <3>1, <3>2
  <2> QED BY <2>1, <2>2
<1>7. Continues(t, n)
  <2> SUFFICES ASSUME NEW i \in 1 .. Len(t), ~IsPong(t[i])
               PROVE  /\ Follows(t[i], n)
                      /\ \A j \in 1 .. i - 1 : ~IsPong(t[j]) => Follows(t[i], t[j].seq)
                      /\ \A q \in n + 1 .. t[i].seq :
                            \E j \in 1 .. i : IsData(t[j]) /\ t[j].seq = q
    BY DEF Continues
  <2>1. CASE i \in 1 .. Len(s)
    <3>1. \A j \in 1 .. i : j \in 1 .. Len(s) /\ t[j] = s[j]
      BY <1>1, <2>1
    <3>2. \A j \in 1 .. i - 1 : j \in 1 .. i
      BY <2>1
    <3> QED BY <1>1, <2>1, <3>1, <3>2, SMTT(30) DEF Forth, Continues
  <2>2. CASE i = Len(s) + 1
    <3>1. t[i] = x
      BY <1>1, <2>2
    <3>2. Follows(x, n)
      BY <1>4 DEF Follows
    <3>3. \A j \in 1 .. i - 1 : ~IsPong(t[j]) => Follows(x, t[j].seq)
      BY <1>1, <1>3, <1>4, <2>2 DEF Follows
    <3>4. \A q \in n + 1 .. x.seq : \E j \in 1 .. i : IsData(t[j]) /\ t[j].seq = q
      BY <1>1, <1>4, <1>6, <2>2
    <3> QED BY <3>1, <3>2, <3>3, <3>4
  <2> QED BY <1>2, <2>1, <2>2
<1>8. \A i \in 1 .. Len(t) : ~IsPong(t[i]) => t[i].seq <= new
  BY <1>1, <1>2, <1>3, <1>4
<1> QED BY <1>6, <1>7, <1>8 DEF Forth, HasData, t

\* Pongs do not matter to Forth.
LEMMA ForthAppendPong ==
    ASSUME NEW s \in Seq(Packet), NEW n \in Nat, NEW last \in Nat, NEW full, NEW x \in Packet,
           Forth(s, n, last, full), IsPong(x)
    PROVE  Forth(Append(s, x), n, last, full)
<1> DEFINE t == Append(s, x)
<1>1. /\ t \in Seq(Packet) /\ Len(s) \in Nat /\ Len(t) = Len(s) + 1
      /\ \A i \in 1 .. Len(s) : t[i] = s[i] /\ s[i] \in Packet
      /\ t[Len(s) + 1] = x
  BY AppendEntries
<1> HIDE DEF t
<1>2. \A i \in 1 .. Len(t) : ~IsPong(t[i]) => i \in 1 .. Len(s)
  BY <1>1
<1>3. Continues(t, n)
  <2> SUFFICES ASSUME NEW i \in 1 .. Len(t), ~IsPong(t[i])
               PROVE  /\ Follows(t[i], n)
                      /\ \A j \in 1 .. i - 1 : ~IsPong(t[j]) => Follows(t[i], t[j].seq)
                      /\ \A q \in n + 1 .. t[i].seq :
                            \E j \in 1 .. i : IsData(t[j]) /\ t[j].seq = q
    BY DEF Continues
  <2>1. i \in 1 .. Len(s)
    BY <1>2
  <2>2. \A j \in 1 .. i : j \in 1 .. Len(s) /\ t[j] = s[j]
    BY <1>1, <2>1
  <2>3. \A j \in 1 .. i - 1 : j \in 1 .. i
    BY <2>1
  <2>4. t[i] = s[i] /\ ~IsPong(s[i])
    BY <1>1, <2>1
  <2>5. /\ Follows(s[i], n)
        /\ \A j \in 1 .. i - 1 : ~IsPong(s[j]) => Follows(s[i], s[j].seq)
        /\ \A q \in n + 1 .. s[i].seq : \E j \in 1 .. i : IsData(s[j]) /\ s[j].seq = q
    BY <2>1, <2>4, Zenon DEF Forth, Continues
  <2>6. \A j \in 1 .. i - 1 : ~IsPong(t[j]) => Follows(s[i], t[j].seq)
    BY <2>2, <2>3, <2>5, Zenon
  <2>7. \A q \in n + 1 .. s[i].seq : \E j \in 1 .. i : IsData(t[j]) /\ t[j].seq = q
    BY <2>2, <2>5, Zenon
  <2> QED BY <2>4, <2>5, <2>6, <2>7, Zenon
<1>4. \A i \in 1 .. Len(t) : ~IsPong(t[i]) => t[i].seq <= last
  BY <1>1, <1>2 DEF Forth
<1>5. \A q : HasData(s, q) => HasData(t, q)
  <2>1. \A j \in 1 .. Len(s) : j \in 1 .. Len(t)
    BY <1>1
  <2> QED BY <1>1, <2>1 DEF HasData
<1> QED BY <1>3, <1>4, <1>5 DEF Forth, t

\* The first packet of a stream is what the reader is due.
LEMMA ForthHead ==
    ASSUME NEW s \in Seq(Packet), NEW n \in Nat, NEW last \in Nat, NEW full,
           Forth(s, n, last, full), s # <<>>
    PROVE  /\ IsData(Head(s)) => /\ Head(s).seq = n + 1 /\ n + 1 <= last
                                 /\ Forth(Tail(s), n + 1, last, full)
           /\ Head(s).kind = "ping" => Head(s).seq = n
           /\ ~IsData(Head(s)) => Forth(Tail(s), n, last, full)
<1> DEFINE t == Tail(s)
           m == IF IsData(s[1]) THEN n + 1 ELSE n
<1>1. /\ t \in Seq(Packet) /\ Len(s) \in Nat /\ Len(s) > 0 /\ Len(t) = Len(s) - 1
      /\ Head(s) = s[1] /\ s[1] \in Packet
      /\ \A i \in 1 .. Len(t) : t[i] = s[i + 1] /\ i + 1 \in 1 .. Len(s)
  BY TailEntries
<1> HIDE DEF t
<1>2. 1 \in 1 .. Len(s) /\ s[1].seq \in Nat
  BY <1>1, PacketFields
<1>3. ~IsPong(s[1]) => /\ Follows(s[1], n) /\ s[1].seq <= last
                       /\ \A q \in n + 1 .. s[1].seq : IsData(s[1]) /\ s[1].seq = q
  <2>1. \A j \in 1 .. 1 : j = 1
    OBVIOUS
  <2> QED BY <1>2, <2>1 DEF Forth, Continues
<1>4. IsData(s[1]) => s[1].seq = n + 1 /\ n + 1 <= last
  <2> SUFFICES ASSUME IsData(s[1]) PROVE s[1].seq = n + 1 /\ n + 1 <= last
    OBVIOUS
  <2>1. ~IsPong(s[1])
    BY DEF IsData, IsPong
  <2>2. s[1].seq > n
    BY <1>3, <2>1 DEF Follows
  <2>3. n + 1 \in n + 1 .. s[1].seq
    BY <1>2, <2>2
  <2>4. s[1].seq = n + 1
    BY <1>3, <2>1, <2>3
  <2> QED BY <1>3, <2>1, <2>4
<1>5. s[1].kind = "ping" => s[1].seq = n
  <2> SUFFICES ASSUME s[1].kind = "ping" PROVE s[1].seq = n
    OBVIOUS
  <2>1. ~IsPong(s[1]) /\ ~IsData(s[1])
    BY DEF IsData, IsPong
  <2>2. s[1].seq >= n
    BY <1>3, <2>1 DEF Follows
  <2>3. n + 1 \notin n + 1 .. s[1].seq
    BY <1>3, <2>1
  <2> QED BY <1>2, <2>2, <2>3
<1>6. m \in Nat /\ m >= n /\ (~IsData(s[1]) => m = n) /\ (IsData(s[1]) => s[1].seq = m /\ m = n + 1)
  BY <1>4
<1> HIDE DEF m
<1>7. \A q \in m + 1 .. last : HasData(s, q) => HasData(t, q)
  <2> SUFFICES ASSUME NEW q \in m + 1 .. last, NEW j \in 1 .. Len(s), IsData(s[j]), s[j].seq = q
               PROVE  \E i \in 1 .. Len(t) : IsData(t[i]) /\ t[i].seq = q
    BY DEF HasData
  <2>1. j # 1
    BY <1>2, <1>6
  <2> DEFINE i == j - 1
  <2>2. i \in 1 .. Len(t) /\ i + 1 = j
    BY <1>1, <2>1
  <2> HIDE DEF i
  <2> QED BY <1>1, <2>2
<1>8. Continues(t, m)
  <2> SUFFICES ASSUME NEW i \in 1 .. Len(t), ~IsPong(t[i])
               PROVE  /\ Follows(t[i], m)
                      /\ \A j \in 1 .. i - 1 : ~IsPong(t[j]) => Follows(t[i], t[j].seq)
                      /\ \A q \in m + 1 .. t[i].seq :
                            \E j \in 1 .. i : IsData(t[j]) /\ t[j].seq = q
    BY DEF Continues
  <2> DEFINE k == i + 1
  <2>1. k \in 1 .. Len(s) /\ t[i] = s[k] /\ k - 1 = i /\ i \in Nat /\ s[k] \in Packet
    BY <1>1
  <2> HIDE DEF k
  <2>2. /\ Follows(s[k], n)
        /\ \A j \in 1 .. k - 1 : ~IsPong(s[j]) => Follows(s[k], s[j].seq)
        /\ \A q \in n + 1 .. s[k].seq : \E j \in 1 .. k : IsData(s[j]) /\ s[j].seq = q
    BY <2>1 DEF Forth, Continues
  <2>3. Follows(t[i], m)
    <3>1. 1 \in 1 .. k - 1
      BY <2>1
    <3>2. IsData(s[1]) => ~IsPong(s[1])
      BY DEF IsData, IsPong
    <3> QED BY <1>6, <2>1, <2>2, <3>1, <3>2
  <2>4. \A j \in 1 .. i - 1 : ~IsPong(t[j]) => Follows(t[i], t[j].seq)
    <3> SUFFICES ASSUME NEW j \in 1 .. i - 1, ~IsPong(t[j]) PROVE Follows(t[i], t[j].seq)
      OBVIOUS
    <3> DEFINE o == j + 1
    <3>1. j \in 1 .. Len(t) /\ o \in 1 .. k - 1 /\ t[j] = s[o]
      BY <1>1, <2>1
    <3> HIDE DEF o
    <3> QED BY <2>1, <2>2, <3>1
  <2>5. \A q \in m + 1 .. t[i].seq : \E j \in 1 .. i : IsData(t[j]) /\ t[j].seq = q
    <3> SUFFICES ASSUME NEW q \in m + 1 .. s[k].seq
                 PROVE  \E j \in 1 .. i : IsData(t[j]) /\ t[j].seq = q
      BY <2>1
    <3>1. s[k].seq \in Nat
      BY <2>1, PacketFields
    <3>2. q \in n + 1 .. s[k].seq
      BY <1>6, <3>1
    <3>3. PICK j \in 1 .. k : IsData(s[j]) /\ s[j].seq = q
      BY <2>2, <3>2
    <3>4. j # 1
      BY <1>6, <3>1, <3>3
    <3> DEFINE o == j - 1
    <3>5. o \in 1 .. i /\ o \in 1 .. Len(t) /\ o + 1 = j
      BY <1>1, <2>1, <3>4
    <3> HIDE DEF o
    <3>6. t[o] = s[j]
      BY <1>1, <3>5
    <3> QED BY <3>3, <3>5, <3>6
  <2> QED BY <2>3, <2>4, <2>5
<1>9. \A i \in 1 .. Len(t) : ~IsPong(t[i]) => t[i].seq <= last
  BY <1>1 DEF Forth
<1>10. full => \A q \in m + 1 .. last : HasData(t, q)
  <2>1. \A q \in m + 1 .. last : q \in n + 1 .. last
    BY <1>6
  <2> QED BY <1>7, <2>1 DEF Forth
<1>11. Forth(t, m, last, full)
  BY <1>8, <1>9, <1>10 DEF Forth
<1> QED BY <1>1, <1>4, <1>5, <1>6, <1>11 DEF t

\* What e sent last may be lost when e is destroyed.
LEMMA ForthPrefix ==
    ASSUME NEW s \in Seq(Packet), NEW n \in Nat, NEW last \in Nat, NEW full, NEW x \in Packet,
           Forth(Append(s, x), n, last, full)
    PROVE  Forth(s, n, last, FALSE)
<1> DEFINE t == Append(s, x)
<1>1. /\ t \in Seq(Packet) /\ Len(s) \in Nat /\ Len(t) = Len(s) + 1
      /\ \A i \in 1 .. Len(s) : t[i] = s[i] /\ s[i] \in Packet
  BY AppendEntries
<1> HIDE DEF t
<1>2. Forth(t, n, last, full)
  BY DEF t
<1>3. \A i \in 1 .. Len(s) : i \in 1 .. Len(t)
  BY <1>1
<1>4. Continues(s, n)
  <2> SUFFICES ASSUME NEW i \in 1 .. Len(s), ~IsPong(s[i])
               PROVE  /\ Follows(s[i], n)
                      /\ \A j \in 1 .. i - 1 : ~IsPong(s[j]) => Follows(s[i], s[j].seq)
                      /\ \A q \in n + 1 .. s[i].seq :
                            \E j \in 1 .. i : IsData(s[j]) /\ s[j].seq = q
    BY DEF Continues
  <2>1. \A j \in 1 .. i : j \in 1 .. Len(s) /\ t[j] = s[j]
    BY <1>1
  <2>2. \A j \in 1 .. i - 1 : j \in 1 .. i
    OBVIOUS
  <2> QED BY <1>1, <1>2, <1>3, <2>1, <2>2 DEF Forth, Continues
<1>5. \A i \in 1 .. Len(s) : ~IsPong(s[i]) => s[i].seq <= last
  BY <1>1, <1>2, <1>3 DEF Forth
<1> QED BY <1>4, <1>5 DEF Forth

\* A writer that is gone need not have sent everything.
LEMMA ForthLess ==
    ASSUME NEW s, NEW n, NEW last, NEW full, Forth(s, n, last, full)
    PROVE  Forth(s, n, last, FALSE)
BY DEF Forth

-----------------------------------------------------------------------------
(* Pongs.                                                                  *)

\* t is what remains of s when the first k packets, and perhaps some of the
\* last, are gone.
Window(t, s, k) == \A i \in 1 .. Len(t) : i + k \in 1 .. Len(s) /\ t[i] = s[i + k]

LEMMA BackWindow ==
    ASSUME NEW s \in Seq(Packet), NEW t \in Seq(Packet), NEW k \in Nat, Window(t, s, k),
           NEW lo \in Nat, NEW hi \in Nat, NEW req \in Nat \cup {None}, Back(s, lo, hi, req)
    PROVE  Back(t, lo, hi, req) /\ Back(t, lo, hi, None)
<1> SUFFICES ASSUME NEW i \in 1 .. Len(t), IsPong(t[i])
             PROVE  /\ t[i].seq \in lo .. hi
                    /\ \A j \in 1 .. i - 1 : IsPong(t[j]) => t[j].seq <= t[i].seq
                    /\ req # None => t[i].seq <= req
  BY DEF Back
<1> DEFINE o == i + k
<1>1. o \in 1 .. Len(s) /\ t[i] = s[o]
  BY DEF Window
<1>2. \A j \in 1 .. i - 1 : j + k \in 1 .. o - 1 /\ t[j] = s[j + k]
  BY DEF Window
<1> HIDE DEF o
<1>3. /\ s[o].seq \in lo .. hi /\ (req # None => s[o].seq <= req)
      /\ \A j \in 1 .. o - 1 : IsPong(s[j]) => s[j].seq <= s[o].seq
  BY <1>1 DEF Back
<1>4. \A j \in 1 .. i - 1 : IsPong(t[j]) => t[j].seq <= t[i].seq
  BY <1>1, <1>2, <1>3
<1> QED BY <1>1, <1>3, <1>4

\* The pong that is owed may be sent.
LEMMA BackAppendPong ==
    ASSUME NEW s \in Seq(Packet), NEW lo \in Nat, NEW hi \in Nat, NEW req \in Nat, NEW x \in Packet,
           Back(s, lo, hi, req), IsPong(x), x.seq = req
    PROVE  Back(Append(s, x), lo, hi, None)
<1> DEFINE t == Append(s, x)
<1>1. /\ t \in Seq(Packet) /\ Len(s) \in Nat /\ Len(t) = Len(s) + 1
      /\ \A i \in 1 .. Len(s) : t[i] = s[i] /\ s[i] \in Packet
      /\ t[Len(s) + 1] = x
  BY AppendEntries
<1> HIDE DEF t
<1>2. req # None /\ req \in lo .. hi
  BY NoneAssumption DEF Back
<1>3. \A i \in 1 .. Len(s) : IsPong(s[i]) => s[i].seq \in lo .. hi /\ s[i].seq <= req
  BY <1>2 DEF Back
<1> SUFFICES ASSUME NEW i \in 1 .. Len(t), IsPong(t[i])
             PROVE  /\ t[i].seq \in lo .. hi
                    /\ \A j \in 1 .. i - 1 : IsPong(t[j]) => t[j].seq <= t[i].seq
  BY DEF Back, t
<1>4. CASE i \in 1 .. Len(s)
  <2>1. \A j \in 1 .. i - 1 : t[j] = s[j]
    BY <1>1, <1>4
  <2> QED BY <1>1, <1>4, <2>1 DEF Back
<1>5. CASE i = Len(s) + 1
  BY <1>1, <1>2, <1>3, <1>5
<1> QED BY <1>1, <1>4, <1>5

\* Other packets do not matter.
LEMMA BackAppendOther ==
    ASSUME NEW s \in Seq(Packet), NEW lo \in Nat, NEW hi \in Nat, NEW req \in Nat \cup {None},
           NEW x \in Packet, Back(s, lo, hi, req), ~IsPong(x)
    PROVE  Back(Append(s, x), lo, hi, req)
<1> DEFINE t == Append(s, x)
<1>1. /\ t \in Seq(Packet) /\ Len(s) \in Nat /\ Len(t) = Len(s) + 1
      /\ \A i \in 1 .. Len(s) : t[i] = s[i] /\ s[i] \in Packet
      /\ t[Len(s) + 1] = x
  BY AppendEntries
<1> HIDE DEF t
<1> SUFFICES ASSUME NEW i \in 1 .. Len(t), IsPong(t[i])
             PROVE  /\ t[i].seq \in lo .. hi
                    /\ \A j \in 1 .. i - 1 : IsPong(t[j]) => t[j].seq <= t[i].seq
                    /\ req # None => t[i].seq <= req
  BY DEF Back, t
<1>2. i \in 1 .. Len(s)
  BY <1>1
<1>3. \A j \in 1 .. i - 1 : t[j] = s[j]
  BY <1>1, <1>2
<1> QED BY <1>1, <1>2, <1>3 DEF Back

\* What the reader of a pong is told is true, and not below what it knew.
LEMMA BackHead ==
    ASSUME NEW s \in Seq(Packet), NEW lo \in Nat, NEW hi \in Nat, NEW req \in Nat \cup {None},
           Back(s, lo, hi, req), s # <<>>
    PROVE  /\ IsPong(Head(s)) => Head(s).seq \in lo .. hi /\ Back(Tail(s), Head(s).seq, hi, req)
           /\ Back(Tail(s), lo, hi, req)
<1> DEFINE t == Tail(s)
<1>1. /\ t \in Seq(Packet) /\ Len(s) \in Nat /\ Len(s) > 0 /\ Len(t) = Len(s) - 1
      /\ Head(s) = s[1] /\ s[1] \in Packet
      /\ \A i \in 1 .. Len(t) : t[i] = s[i + 1] /\ i + 1 \in 1 .. Len(s)
  BY TailEntries
<1> HIDE DEF t
<1>2. Window(t, s, 1)
  BY <1>1 DEF Window
<1>3. Back(t, lo, hi, req)
  BY <1>1, <1>2, BackWindow
<1>4. ASSUME IsPong(s[1])
      PROVE  s[1].seq \in lo .. hi /\ Back(t, s[1].seq, hi, req)
  <2>1. 1 \in 1 .. Len(s) /\ s[1].seq \in Nat
    BY <1>1, PacketFields
  <2>2. s[1].seq \in lo .. hi /\ (req # None => s[1].seq <= req)
    BY <1>4, <2>1 DEF Back
  <2>3. \A i \in 1 .. Len(t) : IsPong(t[i]) => s[1].seq <= t[i].seq
    <3> SUFFICES ASSUME NEW i \in 1 .. Len(t), IsPong(t[i]) PROVE s[1].seq <= t[i].seq
      OBVIOUS
    <3> DEFINE o == i + 1
    <3>1. o \in 1 .. Len(s) /\ t[i] = s[o] /\ 1 \in 1 .. o - 1
      BY <1>1
    <3> HIDE DEF o
    <3> QED BY <1>4, <3>1 DEF Back
  <2>4. \A i \in 1 .. Len(t) : IsPong(t[i]) => t[i].seq \in s[1].seq .. hi
    BY <1>3, <2>1, <2>3 DEF Back
  <2>5. req # None => req \in s[1].seq .. hi
    BY <2>1, <2>2 DEF Back
  <2> QED BY <1>3, <2>2, <2>4, <2>5 DEF Back
<1> QED BY <1>1, <1>3, <1>4 DEF t

\* A ping behind all packets taken asks for their number.
LEMMA BackRequest ==
    ASSUME NEW s \in Seq(Packet), NEW lo \in Nat, NEW hi \in Nat, NEW req \in Nat \cup {None},
           Back(s, lo, hi, req), lo <= hi
    PROVE  Back(s, lo, hi, hi)
BY DEF Back

LEMMA BackMore ==
    ASSUME NEW s \in Seq(Packet), NEW lo \in Nat, NEW hi \in Nat, NEW req \in Nat \cup {None},
           Back(s, lo, hi, req)
    PROVE  Back(s, lo, hi + 1, req)
<1>1. \A q \in lo .. hi : q \in lo .. hi + 1
  OBVIOUS
<1> QED BY <1>1 DEF Back

-----------------------------------------------------------------------------
(* The stream of an end is what its peer buffers, what the sockets hold    *)
(* and what is in its send buffer, in this order.                          *)

Buffered(p) == IF p # None THEN <<p>> ELSE <<>>

Joined(a, b, p) == a \o b \o Buffered(p)

LEMMA StreamJoined ==
    \A e : Stream(e) = Joined(link[Peer(e)].recvbuf, wire[e], link[e].sendbuf)
BY DEF Stream, Joined, Buffered, InUse

LEMMA BufferedType ==
    ASSUME NEW p \in Packet \cup {None}
    PROVE  /\ Buffered(p) \in Seq(Packet)
           /\ p = None => Buffered(p) = <<>>
           /\ p # None => p \in Packet /\ Buffered(p) = <<p>>
BY DEF Buffered

LEMMA JoinedType ==
    ASSUME NEW a \in Seq(Packet), NEW b \in Seq(Packet), NEW p \in Packet \cup {None}
    PROVE  Joined(a, b, p) \in Seq(Packet)
BY BufferedType, ConcatProperties DEF Joined

LEMMA JoinedSend ==
    ASSUME NEW a \in Seq(Packet), NEW b \in Seq(Packet), NEW p \in Packet
    PROVE  Joined(a, b, p) = Append(Joined(a, b, None), p)
<1>1. Buffered(p) = <<p>> /\ Buffered(None) = <<>>
  BY NoneAssumption DEF Buffered
<1>2. a \o b \in Seq(Packet)
  BY ConcatProperties
<1>3. Joined(a, b, None) = a \o b
  BY <1>1, <1>2, ConcatEmptySeq DEF Joined
<1> QED BY <1>1, <1>2, <1>3, AppendIsConcat DEF Joined

\* A packet that is written stays in the stream.
LEMMA JoinedWrite ==
    ASSUME NEW a \in Seq(Packet), NEW b \in Seq(Packet), NEW p \in Packet
    PROVE  Joined(a, Append(b, p), None) = Joined(a, b, p)
<1>1. Buffered(p) = <<p>> /\ Buffered(None) = <<>> /\ <<p>> \in Seq(Packet)
  BY NoneAssumption DEF Buffered
<1>2. Append(b, p) = b \o <<p>> /\ b \o <<p>> \in Seq(Packet)
  BY <1>1, AppendIsConcat, ConcatProperties
<1>3. a \o (b \o <<p>>) = (a \o b) \o <<p>> /\ a \o (b \o <<p>>) \in Seq(Packet)
  BY <1>1, <1>2, ConcatAssociative, ConcatProperties
<1>4. (a \o (b \o <<p>>)) \o <<>> = a \o (b \o <<p>>)
  BY <1>3, ConcatEmptySeq
<1> QED BY <1>1, <1>2, <1>3, <1>4 DEF Joined

LEMMA HeadIn ==
    ASSUME NEW s \in Seq(Packet), s # <<>>
    PROVE  Head(s) \in Packet /\ Tail(s) \in Seq(Packet) /\ s = <<Head(s)>> \o Tail(s)
           /\ <<Head(s)>> \in Seq(Packet)
<1>1. Head(s) \in Packet /\ Tail(s) \in Seq(Packet) /\ <<Head(s)>> \in Seq(Packet)
  BY HeadTailProperties
<1>2. /\ Len(s) \in Nat /\ Len(s) > 0 /\ Len(Tail(s)) = Len(s) - 1 /\ Head(s) = s[1]
      /\ \A i \in 1 .. Len(Tail(s)) : Tail(s)[i] = s[i + 1]
  BY TailEntries
<1>3. Len(<<Head(s)>>) = 1 /\ <<Head(s)>>[1] = Head(s)
  OBVIOUS
<1> DEFINE u == <<Head(s)>> \o Tail(s)
<1>4. /\ u \in Seq(Packet) /\ Len(u) = 1 + Len(Tail(s))
      /\ \A i \in 1 .. 1 + Len(Tail(s)) : u[i] = IF i <= 1 THEN <<Head(s)>>[i] ELSE Tail(s)[i - 1]
  BY <1>1, <1>3, ConcatProperties
<1>5. Len(u) = Len(s)
  BY <1>2, <1>4
<1>6. ASSUME NEW i \in 1 .. Len(s) PROVE s[i] = u[i]
  <2>1. CASE i = 1
    BY <1>2, <1>3, <1>4, <2>1
  <2>2. CASE i > 1
    <3> DEFINE k == i - 1
    <3>1. k \in 1 .. Len(Tail(s)) /\ k + 1 = i
      BY <1>2, <2>2
    <3>2. u[i] = Tail(s)[k]
      BY <1>2, <1>4, <2>2
    <3> HIDE DEF k
    <3> QED BY <1>2, <3>1, <3>2
  <2> QED BY <2>1, <2>2
<1>7. s = u
  <2> HIDE DEF u
  <2> QED BY <1>4, <1>5, <1>6, SeqEqual
<1> QED BY <1>1, <1>7

LEMMA ConcatHead ==
    ASSUME NEW s \in Seq(Packet), NEW t \in Seq(Packet), s # <<>>
    PROVE  /\ s \o t \in Seq(Packet) /\ s \o t # <<>>
           /\ Head(s \o t) = Head(s) /\ Tail(s \o t) = Tail(s) \o t
<1> DEFINE h == Head(s)
           r == Tail(s)
           u == r \o t
<1>1. h \in Packet /\ r \in Seq(Packet) /\ s = <<h>> \o r /\ <<h>> \in Seq(Packet)
  BY HeadIn
<1> HIDE DEF h, r
<1>2. s \o t = <<h>> \o u /\ u \in Seq(Packet)
  BY <1>1, ConcatAssociative, ConcatProperties
<1> HIDE DEF u
<1> DEFINE v == <<h>> \o u
<1>3. /\ v \in Seq(Packet) /\ Len(v) = 1 + Len(u) /\ Len(u) \in Nat /\ v[1] = h
      /\ \A i \in 2 .. 1 + Len(u) : v[i] = u[i - 1]
  <2>1. Len(<<h>>) = 1 /\ <<h>>[1] = h /\ Len(u) \in Nat
    BY <1>2
  <2>2. /\ v \in Seq(Packet) /\ Len(v) = 1 + Len(u)
        /\ \A i \in 1 .. 1 + Len(u) : v[i] = IF i <= 1 THEN <<h>>[i] ELSE u[i - 1]
    BY <1>1, <1>2, <2>1, ConcatProperties
  <2>3. v[1] = h
    BY <2>1, <2>2
  <2> QED BY <2>1, <2>2, <2>3
<1> HIDE DEF v
<1>4. v # <<>>
  BY <1>3
<1>5. /\ Tail(v) \in Seq(Packet) /\ Len(Tail(v)) = Len(v) - 1 /\ Head(v) = v[1]
      /\ \A i \in 1 .. Len(Tail(v)) : Tail(v)[i] = v[i + 1]
  BY <1>3, <1>4, TailEntries
<1> DEFINE w == Tail(v)
<1> HIDE DEF w
<1>6. w \in Seq(Packet) /\ Len(w) = Len(u) /\ \A i \in 1 .. Len(w) : w[i] = v[i + 1]
  BY <1>3, <1>5 DEF w
<1>7. ASSUME NEW i \in 1 .. Len(w) PROVE w[i] = u[i]
  <2> DEFINE k == i + 1
  <2>1. k \in 2 .. 1 + Len(u) /\ k - 1 = i
    BY <1>3, <1>6
  <2>2. w[i] = v[k]
    BY <1>6
  <2> HIDE DEF k
  <2> QED BY <1>3, <2>1, <2>2
<1>8. w = u
  BY <1>2, <1>6, <1>7, SeqEqual
<1> QED BY <1>2, <1>3, <1>4, <1>5, <1>8 DEF h, r, u, v, w

\* The first packet of the stream is taken from recv_buffer, or else from the
\* socket.
LEMMA JoinedRead ==
    ASSUME NEW a \in Seq(Packet), NEW b \in Seq(Packet), NEW p \in Packet \cup {None}
    PROVE  /\ a # <<>> => /\ Joined(a, b, p) # <<>> /\ Head(Joined(a, b, p)) = Head(a)
                          /\ Joined(Tail(a), b, p) = Tail(Joined(a, b, p))
           /\ a = <<>> /\ b # <<>> => /\ Joined(a, b, p) # <<>> /\ Head(Joined(a, b, p)) = Head(b)
                                      /\ Joined(a, Tail(b), p) = Tail(Joined(a, b, p))
<1> DEFINE f == Buffered(p)
<1>1. f \in Seq(Packet)
  BY BufferedType
<1> HIDE DEF f
<1>2. ASSUME a # <<>>
      PROVE  /\ a \o b \o f # <<>> /\ Head(a \o b \o f) = Head(a)
             /\ Tail(a) \o b \o f = Tail(a \o b \o f)
  <2> DEFINE g == a \o b
  <2>1. g \in Seq(Packet) /\ g # <<>> /\ Head(g) = Head(a) /\ Tail(g) = Tail(a) \o b
    BY <1>2, ConcatHead
  <2> HIDE DEF g
  <2>2. g \o f # <<>> /\ Head(g \o f) = Head(g) /\ Tail(g \o f) = Tail(g) \o f
    BY <1>1, <2>1, ConcatHead
  <2> QED BY <2>1, <2>2 DEF g
<1>3. ASSUME a = <<>>, b # <<>>
      PROVE  /\ a \o b \o f # <<>> /\ Head(a \o b \o f) = Head(b)
             /\ a \o Tail(b) \o f = Tail(a \o b \o f)
  <2>1. Tail(b) \in Seq(Packet)
    BY <1>3, HeadTailProperties
  <2>2. a \o b = b /\ a \o Tail(b) = Tail(b)
    BY <1>3, <2>1, ConcatEmptySeq
  <2>3. b \o f # <<>> /\ Head(b \o f) = Head(b) /\ Tail(b \o f) = Tail(b) \o f
    BY <1>1, <1>3, ConcatHead
  <2> QED BY <2>2, <2>3, Zenon
<1> QED BY <1>2, <1>3 DEF Joined, f

\* Moving a packet into recv_buffer leaves the stream as it is.
LEMMA JoinedMove ==
    ASSUME NEW a \in Seq(Packet), NEW b \in Seq(Packet), NEW p \in Packet \cup {None}, b # <<>>
    PROVE  Joined(Append(a, Head(b)), Tail(b), p) = Joined(a, b, p)
<1>1. Head(b) \in Packet /\ Tail(b) \in Seq(Packet) /\ b = <<Head(b)>> \o Tail(b)
      /\ <<Head(b)>> \in Seq(Packet)
  BY HeadIn
<1>2. Append(a, Head(b)) = a \o <<Head(b)>>
  BY <1>1, AppendIsConcat
<1>3. (a \o <<Head(b)>>) \o Tail(b) = a \o (<<Head(b)>> \o Tail(b))
  BY <1>1, ConcatAssociative
<1> QED BY <1>1, <1>2, <1>3 DEF Joined

\* What remains when a buffer at one of the ends is gone.
LEMMA JoinedWindow ==
    ASSUME NEW a \in Seq(Packet), NEW b \in Seq(Packet), NEW p \in Packet \cup {None}
    PROVE  /\ Window(Joined(<<>>, b, p), Joined(a, b, p), Len(a))
           /\ Window(Joined(a, b, None), Joined(a, b, p), 0)
<1> DEFINE f == Buffered(p)
<1>1. f \in Seq(Packet) /\ Buffered(None) = <<>> /\ <<>> \in Seq(Packet)
  BY BufferedType, NoneAssumption DEF Buffered
<1> HIDE DEF f
<1>2. a \o b \in Seq(Packet) /\ b \o f \in Seq(Packet) /\ <<>> \o b = b /\ (a \o b) \o <<>> = a \o b
      /\ (a \o b) \o f = a \o (b \o f)
  BY <1>1, ConcatProperties, ConcatEmptySeq, ConcatAssociative
<1>3. Window(b \o f, a \o (b \o f), Len(a))
  <2> DEFINE u == b \o f
  <2>1. u \in Seq(Packet)
    BY <1>2
  <2> HIDE DEF u
  <2>2. /\ Len(a) \in Nat /\ Len(u) \in Nat /\ Len(a \o u) = Len(a) + Len(u)
        /\ \A i \in 1 .. Len(a) + Len(u) : (a \o u)[i] = IF i <= Len(a) THEN a[i] ELSE u[i - Len(a)]
    BY <2>1, ConcatProperties
  <2>3. ASSUME NEW i \in 1 .. Len(u)
        PROVE  i + Len(a) \in 1 .. Len(a \o u) /\ u[i] = (a \o u)[i + Len(a)]
    <3> DEFINE k == i + Len(a)
    <3>1. k \in 1 .. Len(a) + Len(u) /\ ~(k <= Len(a)) /\ k - Len(a) = i
      BY <2>2
    <3> HIDE DEF k
    <3>2. (a \o u)[k] = u[i]
      BY <2>2, <3>1
    <3> QED BY <2>2, <3>1, <3>2 DEF k
  <2> QED BY <2>3 DEF Window, u
<1>4. Window(a \o b, (a \o b) \o f, 0)
  <2> DEFINE u == a \o b
  <2>1. u \in Seq(Packet)
    BY <1>2
  <2> HIDE DEF u
  <2>2. /\ Len(f) \in Nat /\ Len(u) \in Nat /\ Len(u \o f) = Len(u) + Len(f)
        /\ \A i \in 1 .. Len(u) + Len(f) : (u \o f)[i] = IF i <= Len(u) THEN u[i] ELSE f[i - Len(u)]
    BY <1>1, <2>1, ConcatProperties
  <2>3. ASSUME NEW i \in 1 .. Len(u)
        PROVE  i + 0 = i /\ i \in 1 .. Len(u \o f) /\ u[i] = (u \o f)[i]
    BY <2>2
  <2> QED BY <2>3 DEF Window, u
<1> QED BY <1>1, <1>2, <1>3, <1>4 DEF Joined, f

-----------------------------------------------------------------------------
(* The methods of Link: the type of what they return, and what they do to  *)
(* the fields that the invariants are about.                               *)

\* The fields that count packets are the same in l and m.
SameCounts(l, m) ==
    /\ m.pong_request = l.pong_request
    /\ m.last_seq_sent = l.last_seq_sent
    /\ m.ack = l.ack
    /\ m.in_flight = l.in_flight
    /\ m.waiting = l.waiting
    /\ m.removed = l.removed

\* And so are the buffers.
Same(l, m) == SameCounts(l, m) /\ m.sendbuf = l.sendbuf /\ m.recvbuf = l.recvbuf

\* m is l after the packet x was put into the empty send buffer.
Puts(l, m, x) ==
    /\ l.sendbuf = None /\ m.sendbuf = x /\ x \in Packet
    /\ m.recvbuf = l.recvbuf /\ m.ack = l.ack /\ m.waiting = l.waiting /\ m.removed = l.removed
    /\ \/ /\ IsPong(x) /\ l.pong_request # None /\ x.seq = l.pong_request /\ m.pong_request = None
          /\ m.last_seq_sent = l.last_seq_sent /\ m.in_flight = l.in_flight
       \/ /\ x.kind = "ping" /\ x.seq = l.last_seq_sent /\ m.pong_request = l.pong_request
          /\ m.last_seq_sent = l.last_seq_sent /\ m.in_flight = l.in_flight
       \/ /\ IsData(x) /\ x.seq = l.last_seq_sent + 1 /\ m.pong_request = l.pong_request
          /\ m.last_seq_sent = x.seq /\ m.in_flight = Append(l.in_flight, x.seq)

LEMMA LinkFields ==
    ASSUME NEW l \in LinkState
    PROVE  /\ l.sendbuf \in Packet \cup {None} /\ l.edge \in BOOLEAN /\ l.bloat \in BOOLEAN
           /\ l.ping_due \in BOOLEAN /\ l.pong_request \in Nat \cup {None}
           /\ l.last_seq_sent \in Nat /\ l.ack \in Nat /\ l.in_flight \in Seq(Nat)
           /\ l.recvbuf \in Seq(Packet) /\ l.waiting \in Nat \cup {None}
           /\ l.timed_out \in BOOLEAN /\ l.removed \in BOOLEAN /\ l.sched \in SUBSET Callbacks
           /\ l.blocked \in BOOLEAN /\ l.in_event \in BOOLEAN
BY DEF LinkState

LEMMA SetSched ==
    ASSUME NEW l \in LinkState, NEW s \in SUBSET Callbacks
    PROVE  [l EXCEPT !.sched = s] \in LinkState /\ Same(l, [l EXCEPT !.sched = s])
BY DEF LinkState, Same, SameCounts

LEMMA ScheduleType ==
    ASSUME NEW l \in LinkState, NEW f \in Callbacks
    PROVE  Schedule(l, f) \in LinkState /\ Same(l, Schedule(l, f))
<1>1. l.sched \cup {f} \in SUBSET Callbacks
  BY LinkFields
<1> QED BY <1>1, SetSched DEF Schedule

LEMMA SetSendbuf ==
    ASSUME NEW l \in LinkState, NEW x \in Packet \cup {None}
    PROVE  [l EXCEPT !.sendbuf = x] \in LinkState
BY DEF LinkState

LEMMA RawSendType ==
    ASSUME NEW l \in LinkState, NEW kind \in {"data", "ping", "pong"}, NEW seq \in Nat
    PROVE  /\ RawSend(l, kind, seq) \in LinkState
           /\ RawSend(l, kind, seq).sendbuf = [kind |-> kind, seq |-> seq]
           /\ [kind |-> kind, seq |-> seq] \in Packet
           /\ RawSend(l, kind, seq).recvbuf = l.recvbuf
           /\ SameCounts(l, RawSend(l, kind, seq))
<1> DEFINE x == [kind |-> kind, seq |-> seq]
           m == [l EXCEPT !.sendbuf = x]
<1>1. x \in Packet
  BY DEF Packet
<1>2. m \in LinkState
  BY <1>1, SetSendbuf
<1>3. m.sendbuf = x /\ m.recvbuf = l.recvbuf /\ SameCounts(l, m)
  BY DEF LinkState, SameCounts
<1>4. "write" \in Callbacks /\ RawSend(l, kind, seq) = Schedule(m, "write")
  BY DEF Callbacks, RawSend
<1> HIDE DEF m, x
<1>5. RawSend(l, kind, seq) \in LinkState /\ Same(m, RawSend(l, kind, seq))
  BY <1>2, <1>4, ScheduleType
<1> QED BY <1>1, <1>3, <1>5 DEF Same, SameCounts, x

LEMMA SendAuxType ==
    ASSUME NEW l \in LinkState
    PROVE  /\ SendAux(l) \in LinkState
           /\ \/ Same(l, SendAux(l)) /\ (~InUse(l) => l.pong_request = None /\ ~l.ping_due)
              \/ \E x \in Packet : Puts(l, SendAux(l), x)
<1>1. CASE l.sendbuf # None
  BY <1>1 DEF SendAux, Same, SameCounts, InUse
<1>2. CASE l.sendbuf = None /\ l.pong_request # None
  <2> DEFINE seq == l.pong_request
             k == "pong"
             m == RawSend(l, k, seq)
             x == [kind |-> k, seq |-> seq]
  <2>1. seq \in Nat /\ k \in {"data", "ping", "pong"}
    BY <1>2, LinkFields
  <2>2. SendAux(l) = [m EXCEPT !.pong_request = None] /\ IsPong(x) /\ x.seq = seq
    BY <1>2 DEF SendAux, IsPong
  <2>3. /\ m \in LinkState /\ m.sendbuf = x /\ x \in Packet
        /\ m.recvbuf = l.recvbuf /\ SameCounts(l, m)
    <3> HIDE DEF k, seq
    <3> QED BY <2>1, RawSendType
  <2> HIDE DEF m, x
  <2>4. /\ SendAux(l) \in LinkState
        /\ SendAux(l).sendbuf = x /\ SendAux(l).pong_request = None
        /\ SendAux(l).recvbuf = m.recvbuf /\ SendAux(l).ack = m.ack
        /\ SendAux(l).waiting = m.waiting /\ SendAux(l).removed = m.removed
        /\ SendAux(l).last_seq_sent = m.last_seq_sent /\ SendAux(l).in_flight = m.in_flight
    BY <2>2, <2>3 DEF LinkState
  <2> QED BY <1>2, <2>2, <2>3, <2>4 DEF Puts, SameCounts
<1>3. CASE l.sendbuf = None /\ l.pong_request = None /\ l.ping_due
  <2> DEFINE seq == l.last_seq_sent
             k == "ping"
             m == RawSend(l, k, seq)
             x == [kind |-> k, seq |-> seq]
  <2>1. seq \in Nat /\ k \in {"data", "ping", "pong"}
    BY LinkFields
  <2>2. SendAux(l) = [m EXCEPT !.ping_due = FALSE] /\ x.kind = "ping" /\ x.seq = seq
    BY <1>3 DEF SendAux
  <2>3. /\ m \in LinkState /\ m.sendbuf = x /\ x \in Packet
        /\ m.recvbuf = l.recvbuf /\ SameCounts(l, m)
    <3> HIDE DEF k, seq
    <3> QED BY <2>1, RawSendType
  <2> HIDE DEF m, x
  <2>4. /\ SendAux(l) \in LinkState
        /\ SendAux(l).sendbuf = x /\ SendAux(l).pong_request = m.pong_request
        /\ SendAux(l).recvbuf = m.recvbuf /\ SendAux(l).ack = m.ack
        /\ SendAux(l).waiting = m.waiting /\ SendAux(l).removed = m.removed
        /\ SendAux(l).last_seq_sent = m.last_seq_sent /\ SendAux(l).in_flight = m.in_flight
    BY <2>2, <2>3 DEF LinkState
  <2> QED BY <1>3, <2>2, <2>3, <2>4 DEF Puts, SameCounts
<1>4. CASE l.sendbuf = None /\ l.pong_request = None /\ ~l.ping_due
  BY <1>4 DEF SendAux, Same, SameCounts, InUse
<1> QED BY <1>1, <1>2, <1>3, <1>4

LEMMA SendType ==
    ASSUME NEW l \in LinkState
    PROVE  /\ Send(l) \in LinkState
           /\ Same(l, Send(l)) \/ \E x \in Packet : Puts(l, Send(l), x)
<1>1. CASE l.timed_out \/ l.bloat
  BY <1>1 DEF Send, Same, SameCounts
<1>2. CASE ~(l.timed_out \/ l.bloat) /\ InUse(SendAux(l))
  <2>1. Send(l) = SendAux(l)
    BY <1>2 DEF Send
  <2> QED BY <2>1, SendAuxType
<1>3. CASE ~(l.timed_out \/ l.bloat) /\ ~InUse(SendAux(l))
  <2> DEFINE seq == l.last_seq_sent + 1
             k == "data"
             m == RawSend(l, k, seq)
             x == [kind |-> k, seq |-> seq]
  <2>1. seq \in Nat /\ k \in {"data", "ping", "pong"}
    BY LinkFields
  <2>2. Send(l) = [m EXCEPT !.last_seq_sent = seq, !.in_flight = Append(@, seq)]
    BY <1>3 DEF Send
  <2>3. /\ m \in LinkState /\ m.sendbuf = x /\ x \in Packet
        /\ m.recvbuf = l.recvbuf /\ SameCounts(l, m)
    <3> HIDE DEF k, seq
    <3> QED BY <2>1, RawSendType
  <2>4. IsData(x) /\ x.seq = seq
    BY DEF IsData
  <2>5. l.sendbuf = None
    <3>1. ~(\E y \in Packet : Puts(l, SendAux(l), y))
      BY <1>3, NoneAssumption DEF Puts, InUse
    <3> QED BY <1>3, <3>1, SendAuxType DEF Same, InUse
  <2>6. Append(m.in_flight, seq) \in Seq(Nat)
    BY <2>1, <2>3, LinkFields
  <2> HIDE DEF m, x, seq
  <2>7. /\ Send(l) \in LinkState
        /\ Send(l).sendbuf = x /\ Send(l).pong_request = m.pong_request
        /\ Send(l).recvbuf = m.recvbuf /\ Send(l).ack = m.ack
        /\ Send(l).waiting = m.waiting /\ Send(l).removed = m.removed
        /\ Send(l).last_seq_sent = seq /\ Send(l).in_flight = Append(m.in_flight, seq)
    BY <2>1, <2>2, <2>3, <2>6, ZenonT(30) DEF LinkState
  <2> QED BY <2>3, <2>4, <2>5, <2>7 DEF Puts, SameCounts, seq
<1> QED BY <1>1, <1>2, <1>3

LEMMA WriteReadyType ==
    ASSUME NEW l \in LinkState, NEW room \in BOOLEAN, NEW m, m = WriteReady(l, room)
    PROVE  /\ m \in LinkState /\ SameCounts(l, m) /\ m.recvbuf = l.recvbuf
           /\ m.sendbuf = l.sendbuf \/ m.sendbuf = None
           /\ m.sendbuf # l.sendbuf => room /\ l.sendbuf # None
<1>1. CASE l.timed_out
  BY <1>1 DEF WriteReady, SameCounts
<1>2. CASE ~l.timed_out /\ InUse(l) /\ ~room
  <2>1. m = [l EXCEPT !.blocked = TRUE]
    BY <1>2 DEF WriteReady
  <2> QED BY <2>1 DEF SameCounts, LinkState
<1>3. CASE ~l.timed_out /\ (InUse(l) => room)
  <2> DEFINE flushed == [l EXCEPT !.sendbuf = None, !.edge = FALSE]
  <2>1. m = IF l.edge THEN Schedule(flushed, "edge") ELSE flushed
    BY <1>3 DEF WriteReady
  <2>2. flushed \in LinkState /\ SameCounts(l, flushed) /\ flushed.recvbuf = l.recvbuf /\ flushed.sendbuf = None
    BY DEF LinkState, SameCounts
  <2> HIDE DEF flushed
  <2>3. "edge" \in Callbacks
    BY DEF Callbacks
  <2>4. Schedule(flushed, "edge") \in LinkState /\ Same(flushed, Schedule(flushed, "edge"))
    BY <2>2, <2>3, ScheduleType
  <2>5. m \in LinkState /\ Same(flushed, m)
    BY <2>1, <2>2, <2>4 DEF Same, SameCounts
  <2> QED BY <1>3, <2>2, <2>5 DEF Same, SameCounts, InUse
<1> QED BY <1>1, <1>2, <1>3, LinkFields

LEMMA MaybeRetransmitType ==
    ASSUME NEW e, NEW l \in LinkState, NEW m \in MaybeRetransmit(e, l)
    PROVE  m \in LinkState /\ Same(l, m)
<1> DEFINE o == [l EXCEPT !.timed_out = TRUE]
<1>1. o \in LinkState /\ Same(l, o)
  BY DEF LinkState, Same, SameCounts
<1>2. m = l \/ m = Schedule(o, "ready")
  BY DEF MaybeRetransmit
<1> HIDE DEF o
<1>3. "ready" \in Callbacks
  BY DEF Callbacks
<1>4. Schedule(o, "ready") \in LinkState /\ Same(o, Schedule(o, "ready"))
  BY <1>1, <1>3, ScheduleType
<1> QED BY <1>1, <1>2, <1>4 DEF Same, SameCounts

LEMMA BufferbloatCheckType ==
    ASSUME NEW l \in LinkState, NEW rtt
    PROVE  BufferbloatCheck(l, rtt) \in LinkState /\ Same(l, BufferbloatCheck(l, rtt))
<1> DEFINE on == [l EXCEPT !.bloat = TRUE]
           off == [l EXCEPT !.bloat = FALSE]
<1>1. on \in LinkState /\ Same(l, on) /\ off \in LinkState /\ Same(l, off) /\ Same(l, l)
  BY DEF LinkState, Same, SameCounts
<1>2. BufferbloatCheck(l, rtt) \in {Schedule(off, "ready"), on, l}
  <2>1. CASE l.bloat /\ rtt = "low"
    BY <2>1 DEF BufferbloatCheck
  <2>2. CASE ~l.bloat /\ rtt = "high"
    BY <2>2 DEF BufferbloatCheck
  <2>3. CASE ~(l.bloat /\ rtt = "low") /\ ~(~l.bloat /\ rtt = "high")
    BY <2>3 DEF BufferbloatCheck
  <2> QED BY <2>1, <2>2, <2>3
<1> HIDE DEF on, off
<1>3. "ready" \in Callbacks
  BY DEF Callbacks
<1>4. Schedule(off, "ready") \in LinkState /\ Same(off, Schedule(off, "ready"))
  BY <1>1, <1>3, ScheduleType
<1> QED BY <1>1, <1>2, <1>4 DEF Same, SameCounts

\* The numbers after lo, up to hi: what is in flight.
Numbers(lo, hi) == [i \in 1 .. hi - lo |-> lo + i]

LEMMA NumbersType ==
    ASSUME NEW lo \in Nat, NEW hi \in Nat, lo <= hi
    PROVE  /\ Numbers(lo, hi) \in Seq(Nat) /\ Len(Numbers(lo, hi)) = hi - lo
           /\ \A i \in 1 .. hi - lo : Numbers(lo, hi)[i] = lo + i
<1>1. hi - lo \in Nat
  OBVIOUS
<1>2. \A i \in 1 .. hi - lo : lo + i \in Nat
  OBVIOUS
<1> QED BY <1>1, <1>2 DEF Numbers

LEMMA NumbersAppend ==
    ASSUME NEW lo \in Nat, NEW hi \in Nat, lo <= hi
    PROVE  Append(Numbers(lo, hi), hi + 1) = Numbers(lo, hi + 1)
<1> DEFINE q == Numbers(lo, hi)
           r == Numbers(lo, hi + 1)
<1>1. /\ q \in Seq(Nat) /\ Len(q) = hi - lo /\ \A i \in 1 .. hi - lo : q[i] = lo + i
  BY NumbersType
<1>2. hi + 1 \in Nat /\ lo <= hi + 1
  OBVIOUS
<1>3. /\ r \in Seq(Nat) /\ Len(r) = hi + 1 - lo /\ \A i \in 1 .. hi + 1 - lo : r[i] = lo + i
  BY <1>2, NumbersType
<1> HIDE DEF q, r
<1>4. /\ Append(q, hi + 1) \in Seq(Nat) /\ Len(Append(q, hi + 1)) = Len(q) + 1
      /\ \A i \in 1 .. Len(q) : Append(q, hi + 1)[i] = q[i]
      /\ Append(q, hi + 1)[Len(q) + 1] = hi + 1
  BY <1>1, <1>2, AppendProperties
<1>5. ASSUME NEW i \in 1 .. Len(r) PROVE Append(q, hi + 1)[i] = r[i]
  <2>1. CASE i \in 1 .. Len(q)
    BY <1>1, <1>3, <1>4, <2>1
  <2>2. CASE i = Len(q) + 1
    BY <1>1, <1>3, <1>4, <2>2
  <2> QED BY <1>1, <1>3, <2>1, <2>2
<1>6. Len(Append(q, hi + 1)) = Len(r)
  BY <1>1, <1>3, <1>4
<1>7. Append(q, hi + 1) = r
  BY <1>3, <1>4, <1>5, <1>6, SeqEqual
<1> QED BY <1>7 DEF q, r

LEMMA FlushedNumbers ==
    ASSUME NEW lo \in Nat, NEW hi \in Nat, NEW seq \in lo .. hi
    PROVE  Flushed(Numbers(lo, hi), seq) = Numbers(seq, hi)
<1> DEFINE q == Numbers(lo, hi)
           r == Numbers(seq, hi)
           Popped(n) == (\A i \in 1 .. n : q[i] <= seq) /\ (n < Len(q) => q[n + 1] > seq)
           n == CHOOSE n \in 0 .. Len(q) : Popped(n)
<1>1. seq \in Nat /\ lo <= seq /\ seq <= hi
  OBVIOUS
<1>2. /\ q \in Seq(Nat) /\ Len(q) = hi - lo /\ \A i \in 1 .. hi - lo : q[i] = lo + i
  BY <1>1, NumbersType
<1>3. /\ r \in Seq(Nat) /\ Len(r) = hi - seq /\ \A i \in 1 .. hi - seq : r[i] = seq + i
  BY <1>1, NumbersType
<1>4. Flushed(q, seq) = SubSeq(q, n + 1, Len(q))
  BY DEF Flushed
<1> HIDE DEF q, r
<1>5. seq - lo \in 0 .. Len(q) /\ Popped(seq - lo)
  <2>1. seq - lo \in 0 .. Len(q) /\ \A i \in 1 .. seq - lo : i \in 1 .. hi - lo /\ lo + i <= seq
    BY <1>1, <1>2
  <2>2. ASSUME seq - lo < Len(q) PROVE q[seq - lo + 1] > seq
    <3>1. seq - lo + 1 \in 1 .. hi - lo /\ lo + (seq - lo + 1) > seq
      BY <1>1, <1>2, <2>2
    <3> QED BY <1>2, <3>1
  <2> QED BY <1>2, <2>1, <2>2
<1>6. n \in 0 .. Len(q) /\ Popped(n)
  <2> HIDE DEF Popped
  <2>1. \E o \in 0 .. Len(q) : Popped(o)
    BY <1>5
  <2> QED BY <2>1
<1> HIDE DEF n
<1>7. n = seq - lo
  <2>1. n \in Nat /\ n <= hi - lo
    BY <1>1, <1>2, <1>6
  <2>2. ~(n < seq - lo)
    <3> SUFFICES ASSUME n < seq - lo PROVE FALSE
      OBVIOUS
    <3>1. n + 1 \in 1 .. hi - lo /\ n < Len(q) /\ lo + (n + 1) <= seq
      BY <1>1, <1>2, <2>1
    <3> QED BY <1>1, <1>2, <1>6, <3>1
  <2>3. ~(n > seq - lo)
    <3> SUFFICES ASSUME n > seq - lo PROVE FALSE
      OBVIOUS
    <3>1. n \in 1 .. n /\ n \in 1 .. hi - lo /\ lo + n > seq
      BY <1>1, <2>1
    <3>2. q[n] = lo + n /\ q[n] <= seq
      BY <1>2, <1>6, <3>1
    <3> QED BY <1>1, <2>1, <3>1, <3>2
  <2> QED BY <1>1, <2>1, <2>2, <2>3
<1> DEFINE t == SubSeq(q, n + 1, Len(q))
<1>8. /\ t \in Seq(Nat) /\ Len(t) = hi - seq
      /\ \A i \in 1 .. hi - seq : t[i] = q[n + i] /\ n + i \in 1 .. hi - lo /\ lo + (n + i) = seq + i
  <2>1. n + 1 \in Int /\ Len(q) \in Int /\ \A i \in n + 1 .. Len(q) : q[i] \in Nat
    BY <1>1, <1>2, <1>7
  <2>2. /\ t \in Seq(Nat)
        /\ Len(t) = IF n + 1 <= Len(q) THEN Len(q) - (n + 1) + 1 ELSE 0
        /\ \A i \in 1 .. Len(q) - (n + 1) + 1 : t[i] = q[(n + 1) + i - 1]
    BY <2>1, SubSeqProperties
  <2> HIDE DEF t
  <2>3. Len(q) - (n + 1) + 1 = hi - seq /\ \A i \in 1 .. hi - seq : (n + 1) + i - 1 = n + i
    BY <1>1, <1>2, <1>7
  <2>4. Len(t) = hi - seq
    BY <1>1, <1>2, <1>7, <2>2
  <2>5. \A i \in 1 .. hi - seq : n + i \in 1 .. hi - lo /\ lo + (n + i) = seq + i
    BY <1>1, <1>7
  <2> QED BY <2>2, <2>3, <2>4, <2>5
<1> HIDE DEF t
<1>9. \A i \in 1 .. Len(t) : t[i] = r[i]
  BY <1>2, <1>3, <1>8
<1>10. t = r
  BY <1>3, <1>8, <1>9, SeqEqual
<1> QED BY <1>4, <1>10 DEF t, q, r

-----------------------------------------------------------------------------
(* The invariant, for one direction: l is the Link that sends data, p its  *)
(* peer, whose Multilink took got packets from it.                         *)

\* How many packets p has parsed.
Count(p, got) == got + (IF p.waiting = None THEN 0 ELSE 1)

\* s is on its way from l to p.
SentRight(l, p, got, s) ==
    /\ Count(p, got) <= l.last_seq_sent
    /\ p.waiting # None => p.waiting = Count(p, got)
    /\ ~p.removed => Forth(s, Count(p, got), l.last_seq_sent, ~l.removed)

\* s is on its way from p to l.
ToldRight(l, p, got, s) ==
    /\ l.ack <= got
    /\ l.in_flight = Numbers(l.ack, l.last_seq_sent)
    /\ Back(s, l.ack, got, p.pong_request)

Sound(e) ==
    /\ SentRight(link[e], link[Peer(e)], Len(delivered[Peer(e)]), Stream(e))
    /\ ToldRight(link[e], link[Peer(e)], Len(delivered[Peer(e)]), Stream(Peer(e)))

LEMMA InvIsSound ==
    StreamInv /\ AckInv <=> \A e \in Ends : Sound(e)
<1> DEFINE n(e) == Parsed(e)
           last(e) == link[e].last_seq_sent
           s(e) == Stream(e)
           got(e) == Len(delivered[Peer(e)])
           request(e) == link[Peer(e)].pong_request
           A(e) == /\ n(e) <= last(e)
                   /\ link[Peer(e)].waiting # None => link[Peer(e)].waiting = n(e)
                   /\ ~link[Peer(e)].removed =>
                         /\ Continues(s(e), n(e))
                         /\ \A i \in 1 .. Len(s(e)) : ~IsPong(s(e)[i]) => s(e)[i].seq <= last(e)
                         /\ ~link[e].removed => \A q \in n(e) + 1 .. last(e) : HasData(s(e), q)
           B(e) == /\ link[e].ack <= got(e)
                   /\ link[e].in_flight = [i \in 1 .. last(e) - link[e].ack |-> link[e].ack + i]
                   /\ \A i \in 1 .. Len(s(Peer(e))) : IsPong(s(Peer(e))[i]) =>
                         /\ s(Peer(e))[i].seq \in link[e].ack .. got(e)
                         /\ \A j \in 1 .. i - 1 : IsPong(s(Peer(e))[j]) => s(Peer(e))[j].seq <= s(Peer(e))[i].seq
                         /\ request(e) # None => s(Peer(e))[i].seq <= request(e)
                   /\ request(e) # None => request(e) \in link[e].ack .. got(e)
<1>1. \A e \in Ends : n(e) = Count(link[Peer(e)], got(e))
  BY DEF Parsed, Count
<1>2. ASSUME NEW e \in Ends
      PROVE  A(e) <=> SentRight(link[e], link[Peer(e)], got(e), s(e))
  <2> HIDE DEF n, last, s, got
  <2>1. n(e) = Count(link[Peer(e)], got(e))
    BY <1>1
  <2> QED BY <2>1 DEF SentRight, Forth, last
<1>3. ASSUME NEW e \in Ends
      PROVE  B(e) <=> ToldRight(link[e], link[Peer(e)], got(e), s(Peer(e)))
  BY DEF ToldRight, Back, Numbers
<1>4. StreamInv <=> \A e \in Ends : A(e)
  BY DEF StreamInv
<1>5. AckInv <=> \A e \in Ends : B(e)
  BY DEF AckInv
<1> HIDE DEF A, B
<1> QED BY <1>2, <1>3, <1>4, <1>5 DEF Sound, got, s

LEMMA InvIsSoundNext ==
    (StreamInv /\ AckInv)' <=> (\A e \in Ends : Sound(e))'
BY InvIsSound, PTL

-----------------------------------------------------------------------------
(* What a step may do to the two directions.                               *)

\* l becomes m by sending x.
Emitted(l, m, x) ==
    /\ m.ack = l.ack /\ m.waiting = l.waiting /\ m.removed = l.removed
    /\ \/ /\ IsPong(x) /\ l.pong_request # None /\ x.seq = l.pong_request /\ m.pong_request = None
          /\ m.last_seq_sent = l.last_seq_sent /\ m.in_flight = l.in_flight
       \/ /\ x.kind = "ping" /\ x.seq = l.last_seq_sent /\ m.pong_request = l.pong_request
          /\ m.last_seq_sent = l.last_seq_sent /\ m.in_flight = l.in_flight
       \/ /\ IsData(x) /\ x.seq = l.last_seq_sent + 1 /\ m.pong_request = l.pong_request
          /\ m.last_seq_sent = x.seq /\ m.in_flight = Append(l.in_flight, x.seq)

\* l becomes m by parsing x.
Absorbed(l, m, x) ==
    /\ m.last_seq_sent = l.last_seq_sent /\ m.removed = l.removed
    /\ \/ /\ IsData(x) /\ m.waiting = x.seq
          /\ m.pong_request = l.pong_request /\ m.ack = l.ack /\ m.in_flight = l.in_flight
       \/ /\ x.kind = "ping" /\ m.pong_request = x.seq
          /\ m.waiting = l.waiting /\ m.ack = l.ack /\ m.in_flight = l.in_flight
       \/ /\ IsPong(x) /\ m.ack = x.seq /\ m.in_flight = Flushed(l.in_flight, x.seq)
          /\ m.waiting = l.waiting /\ m.pong_request = l.pong_request

\* l becomes m by handing its packet to Multilink.
Handed(l, m) ==
    /\ l.waiting # None /\ m.waiting = None
    /\ m.last_seq_sent = l.last_seq_sent /\ m.removed = l.removed
    /\ m.pong_request = l.pong_request /\ m.ack = l.ack /\ m.in_flight = l.in_flight

\* l becomes m by being destroyed.
Gone(l, m) ==
    /\ m.waiting = None /\ m.pong_request = None /\ m.removed = TRUE
    /\ m.last_seq_sent = l.last_seq_sent /\ m.ack = l.ack /\ m.in_flight = l.in_flight

LEMMA SoundSame ==
    ASSUME NEW l, NEW m, NEW p, NEW q, NEW got, NEW s,
           SameCounts(l, m), SameCounts(p, q)
    PROVE  /\ SentRight(l, p, got, s) => SentRight(m, q, got, s)
           /\ ToldRight(l, p, got, s) => ToldRight(m, q, got, s)
<1>1. Count(q, got) = Count(p, got)
  BY DEF Count, SameCounts
<1> QED BY <1>1 DEF SentRight, ToldRight, SameCounts

LEMMA SoundEmitted ==
    ASSUME NEW l \in LinkState, NEW m \in LinkState, NEW p \in LinkState, NEW q \in LinkState,
           NEW got \in Nat, NEW s \in Seq(Packet), NEW x \in Packet, SameCounts(p, q), Emitted(l, m, x)
    PROVE  /\ SentRight(l, p, got, s) /\ ~l.removed => SentRight(m, q, got, Append(s, x))
           /\ ToldRight(l, p, got, s) /\ l.ack <= l.last_seq_sent => ToldRight(m, q, got, s)
           /\ SentRight(p, l, got, s) => SentRight(q, m, got, s)
           /\ ToldRight(p, l, got, s) => ToldRight(q, m, got, Append(s, x))
<1> USE LinkFields
<1>1. ASSUME SentRight(l, p, got, s), ~l.removed PROVE SentRight(m, q, got, Append(s, x))
  <2> DEFINE n == Count(p, got)
             last == l.last_seq_sent
             new == m.last_seq_sent
  <2>1. n \in Nat /\ last \in Nat /\ new \in Nat /\ n <= last /\ n = Count(q, got)
    BY <1>1 DEF Count, SentRight, SameCounts
  <2>2. last <= new
    BY <2>1 DEF Emitted
  <2>3. ASSUME ~p.removed PROVE Forth(Append(s, x), n, new, TRUE)
    <3>1. Forth(s, n, last, TRUE)
      BY <1>1, <2>3 DEF SentRight
    <3> HIDE DEF n
    <3>2. CASE IsPong(x)
      <4>1. new = last
        BY <3>2 DEF Emitted, IsPong, IsData
      <4> HIDE DEF last, new
      <4> QED BY <2>1, <3>1, <3>2, <4>1, ForthAppendPong
    <3>3. CASE ~IsPong(x)
      <4>1. \/ IsData(x) /\ x.seq = last + 1 /\ new = last + 1
            \/ x.kind = "ping" /\ x.seq = last /\ new = last
        BY <3>3 DEF Emitted
      <4> HIDE DEF last, new
      <4> QED BY <2>1, <3>1, <4>1, ForthAppend
    <3> QED BY <3>2, <3>3
  <2>4. m.removed = FALSE /\ q.waiting = p.waiting /\ q.removed = p.removed
    BY <1>1 DEF Emitted, SameCounts
  <2>5. n <= new
    BY <2>1, <2>2
  <2> QED BY <1>1, <2>1, <2>3, <2>4, <2>5 DEF SentRight
<1>2. ASSUME ToldRight(l, p, got, s), l.ack <= l.last_seq_sent PROVE ToldRight(m, q, got, s)
  <2>1. m.in_flight = Numbers(m.ack, m.last_seq_sent)
    <3>1. CASE IsData(x)
      <4>1. m.last_seq_sent = l.last_seq_sent + 1 /\ m.in_flight = Append(l.in_flight, l.last_seq_sent + 1)
            /\ m.ack = l.ack
        BY <3>1 DEF Emitted, IsData, IsPong
      <4> DEFINE lo == l.ack
                 hi == l.last_seq_sent
      <4>2. lo \in Nat /\ hi \in Nat /\ lo <= hi /\ l.in_flight = Numbers(lo, hi)
        BY <1>2 DEF ToldRight, LinkState
      <4>3. m.last_seq_sent = hi + 1 /\ m.in_flight = Append(l.in_flight, hi + 1) /\ m.ack = lo
        BY <4>1
      <4> HIDE DEF lo, hi
      <4>4. Append(Numbers(lo, hi), hi + 1) = Numbers(lo, hi + 1)
        BY <4>2, NumbersAppend
      <4> QED BY <4>2, <4>3, <4>4, Zenon
    <3>2. CASE ~IsData(x)
      BY <1>2, <3>2 DEF Emitted, ToldRight
    <3> QED BY <3>1, <3>2
  <2> QED BY <1>2, <2>1 DEF ToldRight, Emitted, SameCounts
<1>3. ASSUME SentRight(p, l, got, s) PROVE SentRight(q, m, got, s)
  <2>1. Count(m, got) = Count(l, got)
    BY DEF Count, Emitted
  <2> QED BY <1>3, <2>1 DEF SentRight, Emitted, SameCounts
<1>4. ASSUME ToldRight(p, l, got, s) PROVE ToldRight(q, m, got, Append(s, x))
  <2> DEFINE lo == p.ack
             req == l.pong_request
             new == m.pong_request
  <2>1. lo \in Nat /\ req \in Nat \cup {None} /\ Back(s, lo, got, req)
    BY <1>4 DEF ToldRight
  <2>2. Back(Append(s, x), lo, got, new)
    <3>1. CASE IsPong(x)
      <4>1. req # None /\ x.seq = req /\ new = None
        BY <3>1 DEF Emitted, IsPong, IsData
      <4> HIDE DEF lo, req, new
      <4>2. req \in Nat
        BY <2>1, <4>1
      <4> QED BY <2>1, <3>1, <4>1, <4>2, BackAppendPong
    <3>2. CASE ~IsPong(x)
      <4>1. new = req
        BY <3>2 DEF Emitted
      <4> HIDE DEF lo, req, new
      <4> QED BY <2>1, <3>2, <4>1, BackAppendOther
    <3> QED BY <3>1, <3>2
  <2> QED BY <1>4, <2>2 DEF ToldRight, SameCounts
<1> QED BY <1>1, <1>2, <1>3, <1>4

\* The reader l of the stream s of its peer p parses the first packet.
LEMMA SoundAbsorbed ==
    ASSUME NEW l \in LinkState, NEW m \in LinkState, NEW p \in LinkState, NEW q \in LinkState,
           NEW s \in Seq(Packet), s # <<>>, NEW t \in Seq(Packet), NEW taken \in Nat, NEW got \in Nat,
           SameCounts(p, q), Absorbed(l, m, Head(s)), ~l.removed, l.waiting = None,
           SentRight(p, l, taken, s), ToldRight(l, p, got, s), got <= l.last_seq_sent,
           SentRight(l, p, got, t), ToldRight(p, l, taken, t)
    PROVE  /\ SentRight(q, m, taken, Tail(s))
           /\ ToldRight(m, q, got, Tail(s))
           /\ SentRight(m, q, got, t)
           /\ ToldRight(q, m, taken, t)
<1> DEFINE x == Head(s)
           last == p.last_seq_sent
           full == ~p.removed
<1> USE LinkFields, NoneAssumption
<1>1. x \in Packet /\ x.seq \in Nat /\ Tail(s) \in Seq(Packet) /\ last \in Nat
      /\ x.kind \in {"data", "ping", "pong"}
  BY TailEntries, PacketFields
<1>2. Count(l, taken) = taken /\ taken <= last /\ Forth(s, taken, last, full)
  BY DEF Count, SentRight
<1>3. /\ IsData(x) => x.seq = taken + 1 /\ taken + 1 <= last /\ Forth(Tail(s), taken + 1, last, full)
      /\ x.kind = "ping" => x.seq = taken
      /\ ~IsData(x) => Forth(Tail(s), taken, last, full)
  <2> HIDE DEF last, full
  <2> QED BY <1>1, <1>2, ForthHead DEF x
<1> HIDE DEF x
<1>4. Absorbed(l, m, x)
  BY DEF x
<1>5. q.last_seq_sent = last /\ q.removed = p.removed /\ q.waiting = p.waiting /\ q.ack = p.ack
      /\ q.in_flight = p.in_flight /\ q.pong_request = p.pong_request
  BY DEF SameCounts
<1>6. SentRight(q, m, taken, Tail(s))
  <2>1. CASE IsData(x)
    <3>1. m.waiting = taken + 1 /\ m.waiting # None /\ ~m.removed
      BY <1>1, <1>3, <1>4, <2>1 DEF Absorbed, IsData, IsPong
    <3>2. Count(m, taken) = taken + 1
      BY <3>1 DEF Count
    <3> QED BY <1>3, <1>5, <2>1, <3>1, <3>2 DEF SentRight
  <2>2. CASE ~IsData(x)
    <3>1. m.waiting = None
      BY <1>4, <2>2 DEF Absorbed
    <3>2. Count(m, taken) = taken
      BY <3>1 DEF Count
    <3> QED BY <1>2, <1>3, <1>5, <2>2, <3>1, <3>2 DEF SentRight
  <2> QED BY <2>1, <2>2
<1>7. ToldRight(m, q, got, Tail(s))
  <2> DEFINE lo == l.ack
             req == p.pong_request
  <2>1. lo \in Nat /\ req \in Nat \cup {None} /\ Back(s, lo, got, req)
        /\ lo <= got /\ l.in_flight = Numbers(lo, l.last_seq_sent)
    BY DEF ToldRight
  <2>2. /\ IsPong(x) => x.seq \in lo .. got /\ Back(Tail(s), x.seq, got, req)
        /\ Back(Tail(s), lo, got, req)
    <3> HIDE DEF lo, req
    <3> QED BY <2>1, BackHead DEF x
  <2>3. CASE IsPong(x)
    <3>1. m.ack = x.seq /\ m.in_flight = Flushed(l.in_flight, x.seq) /\ m.last_seq_sent = l.last_seq_sent
      BY <1>4, <2>3 DEF Absorbed, IsPong, IsData
    <3>2. x.seq \in lo .. l.last_seq_sent /\ x.seq <= got
      BY <1>1, <2>1, <2>2, <2>3
    <3>3. Flushed(Numbers(lo, l.last_seq_sent), x.seq) = Numbers(x.seq, l.last_seq_sent)
      <4> HIDE DEF lo
      <4> QED BY <2>1, <3>2, FlushedNumbers
    <3> QED BY <1>5, <2>1, <2>2, <2>3, <3>1, <3>2, <3>3 DEF ToldRight
  <2>4. CASE ~IsPong(x)
    <3>1. m.ack = lo /\ m.in_flight = l.in_flight /\ m.last_seq_sent = l.last_seq_sent
      BY <1>4, <2>4 DEF Absorbed
    <3> QED BY <1>5, <2>1, <2>2, <3>1 DEF ToldRight
  <2> QED BY <2>3, <2>4
<1>8. SentRight(m, q, got, t)
  <2>1. Count(q, got) = Count(p, got) /\ m.last_seq_sent = l.last_seq_sent /\ m.removed = l.removed
    BY <1>4, <1>5 DEF Count, Absorbed
  <2> QED BY <1>5, <2>1 DEF SentRight
<1>9. ToldRight(q, m, taken, t)
  <2> DEFINE lo == p.ack
             req == l.pong_request
  <2>1. lo \in Nat /\ req \in Nat \cup {None} /\ Back(t, lo, taken, req) /\ lo <= taken
    BY DEF ToldRight
  <2>2. CASE x.kind = "ping"
    <3>1. m.pong_request = taken
      BY <1>3, <1>4, <2>2 DEF Absorbed, IsData, IsPong
    <3>2. Back(t, lo, taken, taken)
      <4> HIDE DEF lo, req
      <4> QED BY <2>1, BackRequest
    <3> QED BY <1>5, <3>1, <3>2 DEF ToldRight
  <2>3. CASE x.kind # "ping"
    <3>1. m.pong_request = req
      BY <1>4, <2>3 DEF Absorbed
    <3> QED BY <1>5, <2>1, <3>1 DEF ToldRight
  <2> QED BY <2>2, <2>3
<1> QED BY <1>6, <1>7, <1>8, <1>9

\* l hands the packet that waits to Multilink, which had taken `taken' ones.
LEMMA SoundHanded ==
    ASSUME NEW l \in LinkState, NEW m \in LinkState, NEW p \in LinkState, NEW q \in LinkState,
           NEW s \in Seq(Packet), NEW t \in Seq(Packet), NEW taken \in Nat, NEW got \in Nat,
           SameCounts(p, q), Handed(l, m),
           SentRight(p, l, taken, s), ToldRight(l, p, got, s),
           SentRight(l, p, got, t), ToldRight(p, l, taken, t)
    PROVE  /\ l.waiting = taken + 1
           /\ SentRight(q, m, taken + 1, s)
           /\ ToldRight(m, q, got, s)
           /\ SentRight(m, q, got, t)
           /\ ToldRight(q, m, taken + 1, t)
<1> USE LinkFields
<1>1. q.last_seq_sent = p.last_seq_sent /\ q.removed = p.removed /\ q.waiting = p.waiting /\ q.ack = p.ack
      /\ q.in_flight = p.in_flight /\ q.pong_request = p.pong_request
  BY DEF SameCounts
<1>2. Count(l, taken) = taken + 1 /\ Count(m, taken + 1) = taken + 1
  BY DEF Handed, Count
<1>3. Count(q, got) = Count(p, got)
  BY <1>1 DEF Count
<1>4. Back(t, p.ack, taken + 1, l.pong_request)
  <2> DEFINE lo == p.ack
             req == l.pong_request
  <2>1. lo \in Nat /\ req \in Nat \cup {None} /\ Back(t, lo, taken, req)
    BY DEF ToldRight
  <2> HIDE DEF lo, req
  <2>2. Back(t, lo, taken + 1, req)
    BY <2>1, BackMore
  <2> QED BY <2>2 DEF lo, req
<1>5. p.ack <= taken + 1
  BY DEF ToldRight
<1> QED BY <1>1, <1>2, <1>3, <1>4, <1>5 DEF SentRight, ToldRight, Handed

\* l is destroyed: of the stream t it sent u is left, of s a part v is left.
LEMMA SoundGone ==
    ASSUME NEW l \in LinkState, NEW m \in LinkState, NEW p \in LinkState, NEW q \in LinkState,
           NEW s \in Seq(Packet), NEW v \in Seq(Packet), NEW t \in Seq(Packet), NEW u \in Seq(Packet),
           NEW taken \in Nat, NEW got \in Nat, NEW k \in Nat, Window(v, s, k), Window(u, t, 0),
           t = u \/ \E x \in Packet : t = Append(u, x),
           SameCounts(p, q), Gone(l, m),
           SentRight(p, l, taken, s), ToldRight(l, p, got, s),
           SentRight(l, p, got, t), ToldRight(p, l, taken, t)
    PROVE  /\ SentRight(q, m, taken, v)
           /\ ToldRight(m, q, got, v)
           /\ SentRight(m, q, got, u)
           /\ ToldRight(q, m, taken, u)
<1> USE LinkFields
<1>1. q.last_seq_sent = p.last_seq_sent /\ q.removed = p.removed /\ q.waiting = p.waiting /\ q.ack = p.ack
      /\ q.in_flight = p.in_flight /\ q.pong_request = p.pong_request
  BY DEF SameCounts
<1>2. SentRight(q, m, taken, v)
  <2>1. Count(m, taken) = taken /\ Count(m, taken) <= Count(l, taken) /\ Count(l, taken) \in Nat
    BY SMTT(30) DEF Count, Gone
  <2> QED BY <1>1, <2>1, SMTT(30) DEF SentRight, Gone
<1>3. ToldRight(m, q, got, v)
  <2> DEFINE lo == l.ack
             req == p.pong_request
  <2>1. lo \in Nat /\ req \in Nat \cup {None} /\ Back(s, lo, got, req)
    BY DEF ToldRight
  <2>2. Back(v, lo, got, req)
    <3> HIDE DEF lo, req
    <3> QED BY <2>1, BackWindow
  <2> QED BY <1>1, <2>2 DEF ToldRight, Gone
<1>4. SentRight(m, q, got, u)
  <2> DEFINE n == Count(p, got)
             last == l.last_seq_sent
             full == ~l.removed
  <2>1. n \in Nat /\ last \in Nat /\ n = Count(q, got)
    BY <1>1 DEF Count
  <2>2. ASSUME ~p.removed PROVE Forth(u, n, last, FALSE)
    <3>1. Forth(t, n, last, full)
      BY <2>2 DEF SentRight
    <3> HIDE DEF n, last, full
    <3>2. CASE t = u
      BY <3>1, <3>2, ForthLess
    <3>3. CASE \E x \in Packet : t = Append(u, x)
      <4>1. PICK x \in Packet : t = Append(u, x)
        BY <3>3
      <4>2. Forth(Append(u, x), n, last, full)
        BY <3>1, <4>1
      <4> QED BY <2>1, <4>2, ForthPrefix
    <3> QED BY <3>2, <3>3
  <2>3. m.removed = TRUE /\ m.last_seq_sent = last
    BY DEF Gone
  <2> HIDE DEF n, last
  <2>4. n <= last /\ (q.waiting # None => q.waiting = n)
    BY <1>1 DEF SentRight, n, last
  <2> QED BY <1>1, <2>1, <2>2, <2>3, <2>4 DEF SentRight
<1>5. ToldRight(q, m, taken, u)
  <2> DEFINE lo == p.ack
             req == l.pong_request
  <2>1. lo \in Nat /\ req \in Nat \cup {None} /\ Back(t, lo, taken, req) /\ 0 \in Nat
    BY DEF ToldRight
  <2>2. Back(u, lo, taken, None)
    <3> HIDE DEF lo, req
    <3> QED BY <2>1, BackWindow
  <2> QED BY <1>1, <2>2 DEF ToldRight, Gone
<1> QED BY <1>2, <1>3, <1>4, <1>5

-----------------------------------------------------------------------------
(* Every step is of one of five kinds, each of which keeps the invariant.  *)

Steady(x) == SameCounts(link[x], link'[x])

Silent ==
    /\ \A x \in Ends : Steady(x) /\ Stream(x)' = Stream(x)
    /\ delivered' = delivered

Emits(e) ==
    /\ Steady(Peer(e)) /\ Stream(Peer(e))' = Stream(Peer(e)) /\ delivered' = delivered
    /\ ~link[e].removed
    /\ \E x \in Packet : Stream(e)' = Append(Stream(e), x) /\ Emitted(link[e], link'[e], x)

Absorbs(e) ==
    /\ Steady(Peer(e)) /\ Stream(e)' = Stream(e) /\ delivered' = delivered
    /\ ~link[e].removed /\ link[e].waiting = None
    /\ Stream(Peer(e)) # <<>> /\ Stream(Peer(e))' = Tail(Stream(Peer(e)))
    /\ Absorbed(link[e], link'[e], Head(Stream(Peer(e))))

Hands(e) ==
    /\ Steady(Peer(e)) /\ \A x \in Ends : Stream(x)' = Stream(x)
    /\ Handed(link[e], link'[e])
    /\ delivered' = [delivered EXCEPT ![e] = Append(@, link[e].waiting)]

Dies(e) ==
    /\ Steady(Peer(e)) /\ delivered' = delivered
    /\ Gone(link[e], link'[e])
    /\ \E k \in Nat : Window(Stream(Peer(e))', Stream(Peer(e)), k)
    /\ Window(Stream(e)', Stream(e), 0)
    /\ Stream(e) = Stream(e)' \/ \E x \in Packet : Stream(e) = Append(Stream(e)', x)

LEMMA StreamType ==
    ASSUME TypeOK, NEW e \in Ends
    PROVE  /\ link[e] \in LinkState /\ link[Peer(e)] \in LinkState
           /\ Stream(e) \in Seq(Packet) /\ Stream(Peer(e)) \in Seq(Packet)
           /\ delivered[e] \in Seq(Nat) /\ delivered[Peer(e)] \in Seq(Nat)
           /\ Len(delivered[e]) \in Nat /\ Len(delivered[Peer(e)]) \in Nat
<1>1. Peer(e) \in Ends /\ Peer(Peer(e)) = e
  BY PeerEnd
<1>2. \A x \in Ends : link[x] \in LinkState /\ wire[x] \in Seq(Packet) /\ delivered[x] \in Seq(Nat)
  BY DEF TypeOK
<1>3. \A x \in Ends : link[x].recvbuf \in Seq(Packet) /\ link[x].sendbuf \in Packet \cup {None}
  BY <1>2, LinkFields
<1>4. Joined(link[Peer(e)].recvbuf, wire[e], link[e].sendbuf) \in Seq(Packet)
  BY <1>1, <1>2, <1>3, JoinedType
<1>5. Joined(link[e].recvbuf, wire[Peer(e)], link[Peer(e)].sendbuf) \in Seq(Packet)
  BY <1>1, <1>2, <1>3, JoinedType
<1>6. Len(delivered[e]) \in Nat /\ Len(delivered[Peer(e)]) \in Nat
  BY <1>1, <1>2
<1> QED BY <1>1, <1>2, <1>4, <1>5, <1>6, StreamJoined

LEMMA StreamTypeNext ==
    ASSUME TypeOK', NEW e \in Ends
    PROVE  /\ link'[e] \in LinkState /\ link'[Peer(e)] \in LinkState
           /\ Stream(e)' \in Seq(Packet) /\ Stream(Peer(e))' \in Seq(Packet)
<1>1. Peer(e) \in Ends /\ Peer(Peer(e)) = e
  BY PeerEnd
<1>2. \A x \in Ends : link'[x] \in LinkState /\ wire'[x] \in Seq(Packet)
  BY DEF TypeOK
<1>3. \A x \in Ends : link'[x].recvbuf \in Seq(Packet) /\ link'[x].sendbuf \in Packet \cup {None}
  BY <1>2, LinkFields
<1>4. Joined(link'[Peer(e)].recvbuf, wire'[e], link'[e].sendbuf) \in Seq(Packet)
  BY <1>1, <1>2, <1>3, JoinedType
<1>5. Joined(link'[e].recvbuf, wire'[Peer(e)], link'[Peer(e)].sendbuf) \in Seq(Packet)
  BY <1>1, <1>2, <1>3, JoinedType
<1>6. \A x : Stream(x)' = Joined(link'[Peer(x)].recvbuf, wire'[x], link'[x].sendbuf)
  BY DEF Stream, Joined, Buffered, InUse
<1> QED BY <1>1, <1>2, <1>4, <1>5, <1>6

\* The two directions at an end and its peer make up the invariant.
LEMMA BothSound ==
    ASSUME NEW e \in Ends
    PROVE  /\ (\A x \in Ends : Sound(x)) <=>
                /\ SentRight(link[e], link[Peer(e)], Len(delivered[Peer(e)]), Stream(e))
                /\ ToldRight(link[e], link[Peer(e)], Len(delivered[Peer(e)]), Stream(Peer(e)))
                /\ SentRight(link[Peer(e)], link[e], Len(delivered[e]), Stream(Peer(e)))
                /\ ToldRight(link[Peer(e)], link[e], Len(delivered[e]), Stream(e))
<1>1. Peer(e) \in Ends /\ Peer(Peer(e)) = e /\ \A x \in Ends : x = e \/ x = Peer(e)
  BY PeerEnd
<1>2. (\A x \in Ends : Sound(x)) <=> Sound(e) /\ Sound(Peer(e))
  BY <1>1
<1> QED BY <1>1, <1>2 DEF Sound

LEMMA BothSoundNext ==
    ASSUME NEW e \in Ends
    PROVE  /\ (\A x \in Ends : Sound(x)') <=>
                /\ SentRight(link'[e], link'[Peer(e)], Len(delivered'[Peer(e)]), Stream(e)')
                /\ ToldRight(link'[e], link'[Peer(e)], Len(delivered'[Peer(e)]), Stream(Peer(e))')
                /\ SentRight(link'[Peer(e)], link'[e], Len(delivered'[e]), Stream(Peer(e))')
                /\ ToldRight(link'[Peer(e)], link'[e], Len(delivered'[e]), Stream(e)')
<1>1. Peer(e) \in Ends /\ Peer(Peer(e)) = e /\ \A x \in Ends : x = e \/ x = Peer(e)
  BY PeerEnd
<1>2. (\A x \in Ends : Sound(x)') <=> Sound(e)' /\ Sound(Peer(e))'
  BY <1>1
<1> QED BY <1>1, <1>2 DEF Sound

\* No link knows more acknowledgements than there are packets sent.
LEMMA AckBelowSent ==
    ASSUME NEW l \in LinkState, NEW p \in LinkState, NEW got \in Nat, NEW s, NEW t,
           SentRight(l, p, got, s), ToldRight(l, p, got, t)
    PROVE  got <= l.last_seq_sent /\ l.ack <= l.last_seq_sent
BY LinkFields DEF SentRight, ToldRight, Count

LEMMA SilentStep ==
    ASSUME TypeOK, \A x \in Ends : Sound(x), Silent
    PROVE  \A x \in Ends : Sound(x)'
<1> SUFFICES ASSUME NEW e \in Ends PROVE Sound(e)'
  OBVIOUS
<1> DEFINE p == Peer(e)
<1>1. p \in Ends
  BY PeerEnd
<1>2. /\ SameCounts(link[e], link'[e]) /\ SameCounts(link[p], link'[p])
      /\ Stream(e)' = Stream(e) /\ Stream(p)' = Stream(p) /\ delivered' = delivered
  BY <1>1 DEF Silent, Steady
<1>3. /\ SentRight(link[e], link[p], Len(delivered[p]), Stream(e))
      /\ ToldRight(link[e], link[p], Len(delivered[p]), Stream(p))
  BY DEF Sound
<1> DEFINE l == link[e]
           m == link'[e]
           o == link[p]
           q == link'[p]
           got == Len(delivered[p])
           s == Stream(e)
           t == Stream(p)
<1>4. SentRight(m, q, got, s) /\ ToldRight(m, q, got, t)
  <2>1. SameCounts(l, m) /\ SameCounts(o, q) /\ SentRight(l, o, got, s) /\ ToldRight(l, o, got, t)
    BY <1>2, <1>3
  <2> HIDE DEF l, m, o, q, got, s, t
  <2> QED BY <2>1, SoundSame
<1> QED BY <1>2, <1>4 DEF Sound

LEMMA EmitsStep ==
    ASSUME TypeOK, TypeOK', \A x \in Ends : Sound(x), NEW e \in Ends, Emits(e)
    PROVE  \A x \in Ends : Sound(x)'
<1> DEFINE l == link[e]
           m == link'[e]
           p == link[Peer(e)]
           q == link'[Peer(e)]
           got == Len(delivered[Peer(e)])
           taken == Len(delivered[e])
           t == Stream(e)
           s == Stream(Peer(e))
<1>1. /\ l \in LinkState /\ m \in LinkState /\ p \in LinkState /\ q \in LinkState
      /\ got \in Nat /\ taken \in Nat /\ s \in Seq(Packet) /\ t \in Seq(Packet)
  BY StreamType, StreamTypeNext
<1>2. SentRight(l, p, got, t) /\ ToldRight(l, p, got, s) /\ SentRight(p, l, taken, s) /\ ToldRight(p, l, taken, t)
  BY BothSound
<1>3. PICK x \in Packet : Stream(e)' = Append(t, x) /\ Emitted(l, m, x)
  BY DEF Emits
<1>4. SameCounts(p, q) /\ Stream(Peer(e))' = s /\ ~l.removed /\ delivered' = delivered
  BY DEF Emits, Steady
<1>5. /\ SentRight(m, q, got, Append(t, x)) /\ ToldRight(m, q, got, s)
      /\ SentRight(q, m, taken, s) /\ ToldRight(q, m, taken, Append(t, x))
  <2> HIDE DEF l, m, p, q, got, taken, s, t
  <2>1. l.ack <= l.last_seq_sent
    BY <1>1, <1>2, AckBelowSent
  <2> QED BY <1>1, <1>2, <1>3, <1>4, <2>1, SoundEmitted
<1> QED BY <1>3, <1>4, <1>5, BothSoundNext

LEMMA AbsorbsStep ==
    ASSUME TypeOK, TypeOK', \A x \in Ends : Sound(x), NEW e \in Ends, Absorbs(e)
    PROVE  \A x \in Ends : Sound(x)'
<1> DEFINE l == link[e]
           m == link'[e]
           p == link[Peer(e)]
           q == link'[Peer(e)]
           got == Len(delivered[Peer(e)])
           taken == Len(delivered[e])
           t == Stream(e)
           s == Stream(Peer(e))
<1>1. /\ l \in LinkState /\ m \in LinkState /\ p \in LinkState /\ q \in LinkState
      /\ got \in Nat /\ taken \in Nat /\ s \in Seq(Packet) /\ t \in Seq(Packet)
  BY StreamType, StreamTypeNext
<1>2. SentRight(l, p, got, t) /\ ToldRight(l, p, got, s) /\ SentRight(p, l, taken, s) /\ ToldRight(p, l, taken, t)
  BY BothSound
<1>3. /\ SameCounts(p, q) /\ Stream(e)' = t /\ delivered' = delivered
      /\ ~l.removed /\ l.waiting = None /\ s # <<>> /\ Stream(Peer(e))' = Tail(s)
      /\ Absorbed(l, m, Head(s))
  BY DEF Absorbs, Steady
<1>4. /\ SentRight(q, m, taken, Tail(s)) /\ ToldRight(m, q, got, Tail(s))
      /\ SentRight(m, q, got, t) /\ ToldRight(q, m, taken, t)
  <2> HIDE DEF l, m, p, q, got, taken, s, t
  <2>1. got <= l.last_seq_sent
    BY <1>1, <1>2, AckBelowSent
  <2> QED BY <1>1, <1>2, <1>3, <2>1, SoundAbsorbed
<1> QED BY <1>3, <1>4, BothSoundNext

\* Multilink takes the packets in the order of their numbers.
LEMMA HandsStep ==
    ASSUME TypeOK, TypeOK', LinkInOrder, \A x \in Ends : Sound(x), NEW e \in Ends, Hands(e)
    PROVE  LinkInOrder' /\ \A x \in Ends : Sound(x)'
<1> DEFINE l == link[e]
           m == link'[e]
           p == link[Peer(e)]
           q == link'[Peer(e)]
           got == Len(delivered[Peer(e)])
           taken == Len(delivered[e])
           t == Stream(e)
           s == Stream(Peer(e))
<1>1. /\ l \in LinkState /\ m \in LinkState /\ p \in LinkState /\ q \in LinkState
      /\ got \in Nat /\ taken \in Nat /\ s \in Seq(Packet) /\ t \in Seq(Packet)
  BY StreamType, StreamTypeNext
<1>2. SentRight(l, p, got, t) /\ ToldRight(l, p, got, s) /\ SentRight(p, l, taken, s) /\ ToldRight(p, l, taken, t)
  BY BothSound
<1>3. /\ Peer(e) \in Ends /\ Peer(e) # e /\ \A x \in Ends : x = e \/ x = Peer(e)
  BY PeerEnd
<1>4. /\ SameCounts(p, q) /\ Stream(e)' = t /\ Stream(Peer(e))' = s /\ Handed(l, m)
  BY <1>3 DEF Hands, Steady
<1>5. /\ l.waiting = taken + 1
      /\ SentRight(q, m, taken + 1, s) /\ ToldRight(m, q, got, s)
      /\ SentRight(m, q, got, t) /\ ToldRight(q, m, taken + 1, t)
  <2> HIDE DEF l, m, p, q, got, taken, s, t
  <2> QED BY <1>1, <1>2, <1>4, SoundHanded
<1>6. delivered'[e] = Append(delivered[e], taken + 1) /\ delivered'[Peer(e)] = delivered[Peer(e)]
  BY <1>3, <1>5 DEF Hands, TypeOK
<1>7. delivered[e] = [i \in 1 .. taken |-> i] /\ delivered[Peer(e)] = [i \in 1 .. got |-> i]
  BY <1>3 DEF LinkInOrder
<1>8. delivered'[e] = [i \in 1 .. taken + 1 |-> i] /\ Len(delivered'[e]) = taken + 1
  <2>1. Numbers(0, taken) = delivered[e] /\ 0 <= taken /\ 0 \in Nat
    <3>1. taken - 0 = taken /\ \A i \in 1 .. taken : 0 + i = i
      BY <1>1
    <3> HIDE DEF taken
    <3> QED BY <1>1, <1>7, <3>1 DEF Numbers
  <2>2. Append(delivered[e], taken + 1) = Numbers(0, taken + 1)
    <3> HIDE DEF taken
    <3> QED BY <1>1, <2>1, NumbersAppend
  <2>3. Numbers(0, taken + 1) = [i \in 1 .. taken + 1 |-> i] /\ Len(Numbers(0, taken + 1)) = taken + 1
    <3>1. taken + 1 - 0 = taken + 1 /\ (\A i \in 1 .. taken + 1 : 0 + i = i) /\ taken + 1 \in Nat
      BY <1>1
    <3> HIDE DEF taken
    <3>2. Len(Numbers(0, taken + 1)) = taken + 1
      BY <3>1, NumbersType
    <3> QED BY <3>1, <3>2 DEF Numbers
  <2> QED BY <1>6, <2>2, <2>3
<1>9. \A x \in Ends : delivered'[x] = [i \in 1 .. Len(delivered'[x]) |-> i]
  <2> HIDE DEF taken
  <2> QED BY <1>3, <1>6, <1>7, <1>8
<1>10. LinkInOrder'
  BY <1>9 DEF LinkInOrder
<1> QED BY <1>4, <1>5, <1>6, <1>8, <1>10, BothSoundNext

LEMMA DiesStep ==
    ASSUME TypeOK, TypeOK', \A x \in Ends : Sound(x), NEW e \in Ends, Dies(e)
    PROVE  \A x \in Ends : Sound(x)'
<1> DEFINE l == link[e]
           m == link'[e]
           p == link[Peer(e)]
           q == link'[Peer(e)]
           got == Len(delivered[Peer(e)])
           taken == Len(delivered[e])
           t == Stream(e)
           s == Stream(Peer(e))
           u == Stream(e)'
           v == Stream(Peer(e))'
<1>1. /\ l \in LinkState /\ m \in LinkState /\ p \in LinkState /\ q \in LinkState
      /\ got \in Nat /\ taken \in Nat /\ s \in Seq(Packet) /\ t \in Seq(Packet)
      /\ u \in Seq(Packet) /\ v \in Seq(Packet)
  BY StreamType, StreamTypeNext
<1>2. SentRight(l, p, got, t) /\ ToldRight(l, p, got, s) /\ SentRight(p, l, taken, s) /\ ToldRight(p, l, taken, t)
  BY BothSound
<1>3. /\ SameCounts(p, q) /\ delivered' = delivered /\ Gone(l, m)
      /\ Window(u, t, 0) /\ (t = u \/ \E x \in Packet : t = Append(u, x))
  BY DEF Dies, Steady
<1>4. PICK k \in Nat : Window(v, s, k)
  BY DEF Dies
<1>5. /\ SentRight(q, m, taken, v) /\ ToldRight(m, q, got, v)
      /\ SentRight(m, q, got, u) /\ ToldRight(q, m, taken, u)
  <2> HIDE DEF l, m, p, q, got, taken, s, t, u, v
  <2> QED BY <1>1, <1>2, <1>3, <1>4, SoundGone, ZenonT(30)
<1> QED BY <1>3, <1>5, BothSoundNext

-----------------------------------------------------------------------------
(* The kind of each action.                                                *)

LEMMA StreamJoinedNext ==
    \A e : Stream(e)' = Joined(link'[Peer(e)].recvbuf, wire'[e], link'[e].sendbuf)
BY DEF Stream, Joined, Buffered, InUse

LEMMA LinkBuffers ==
    ASSUME TypeOK, NEW e \in Ends
    PROVE  /\ link[e] \in LinkState /\ link[Peer(e)] \in LinkState
           /\ link[e].recvbuf \in Seq(Packet) /\ link[e].sendbuf \in Packet \cup {None}
           /\ link[Peer(e)].recvbuf \in Seq(Packet) /\ link[Peer(e)].sendbuf \in Packet \cup {None}
           /\ wire[e] \in Seq(Packet) /\ wire[Peer(e)] \in Seq(Packet)
           /\ todo[e] \in Nat
           /\ Stream(e) = Joined(link[Peer(e)].recvbuf, wire[e], link[e].sendbuf)
           /\ Stream(Peer(e)) = Joined(link[e].recvbuf, wire[Peer(e)], link[Peer(e)].sendbuf)
<1>1. Peer(e) \in Ends /\ Peer(Peer(e)) = e
  BY PeerEnd
<1>2. \A x \in Ends : link[x] \in LinkState /\ wire[x] \in Seq(Packet) /\ todo[x] \in Nat
  BY DEF TypeOK
<1>3. \A x \in Ends : link[x].recvbuf \in Seq(Packet) /\ link[x].sendbuf \in Packet \cup {None}
  BY <1>2, LinkFields
<1> QED BY <1>1, <1>2, <1>3, StreamJoined

\* A step at e that leaves its peer and the sockets alone.
Local(e, m) ==
    /\ link' = [link EXCEPT ![e] = m]
    /\ wire' = wire
    /\ delivered' = delivered
    /\ todo' \in [Ends -> Nat]

LEMMA LocalStep ==
    ASSUME TypeOK, NEW e \in Ends, NEW m \in LinkState, Local(e, m)
    PROVE  /\ TypeOK'
           /\ link'[e] = m /\ link'[Peer(e)] = link[Peer(e)]
           /\ Steady(Peer(e))
           /\ Stream(e)' = Joined(link[Peer(e)].recvbuf, wire[e], m.sendbuf)
           /\ Stream(Peer(e))' = Joined(m.recvbuf, wire[Peer(e)], link[Peer(e)].sendbuf)
<1>1. Peer(e) \in Ends /\ Peer(Peer(e)) = e /\ Peer(e) # e
  BY PeerEnd
<1>2. link \in [Ends -> LinkState]
  BY DEF TypeOK
<1>3. link'[e] = m /\ link'[Peer(e)] = link[Peer(e)] /\ link' \in [Ends -> LinkState]
  BY <1>1, <1>2 DEF Local
<1>4. TypeOK'
  BY <1>3 DEF TypeOK, Local
<1>5. Steady(Peer(e))
  BY <1>3 DEF Steady, SameCounts
<1>6. /\ Stream(e)' = Joined(link[Peer(e)].recvbuf, wire[e], m.sendbuf)
      /\ Stream(Peer(e))' = Joined(m.recvbuf, wire[Peer(e)], link[Peer(e)].sendbuf)
  BY <1>1, <1>3, StreamJoinedNext DEF Local
<1> QED BY <1>3, <1>4, <1>5, <1>6

LEMMA LocalSilent ==
    ASSUME TypeOK, NEW e \in Ends, NEW m \in LinkState, Local(e, m), Same(link[e], m)
    PROVE  TypeOK' /\ Silent
<1>1. /\ TypeOK' /\ link'[e] = m /\ Steady(Peer(e))
      /\ Stream(e)' = Joined(link[Peer(e)].recvbuf, wire[e], m.sendbuf)
      /\ Stream(Peer(e))' = Joined(m.recvbuf, wire[Peer(e)], link[Peer(e)].sendbuf)
  BY LocalStep
<1>2. Stream(e)' = Stream(e) /\ Stream(Peer(e))' = Stream(Peer(e))
  BY <1>1, LinkBuffers DEF Same
<1>3. Steady(e)
  BY <1>1 DEF Same, Steady
<1> QED BY <1>1, <1>2, <1>3, PeerEnd DEF Silent, Local

LEMMA LocalEmits ==
    ASSUME TypeOK, NEW e \in Ends, NEW m \in LinkState, Local(e, m), Alive(e),
           NEW x \in Packet, Puts(link[e], m, x)
    PROVE  TypeOK' /\ Emits(e)
<1>1. /\ TypeOK' /\ link'[e] = m /\ Steady(Peer(e))
      /\ Stream(e)' = Joined(link[Peer(e)].recvbuf, wire[e], m.sendbuf)
      /\ Stream(Peer(e))' = Joined(m.recvbuf, wire[Peer(e)], link[Peer(e)].sendbuf)
  BY LocalStep
<1>2. Stream(Peer(e))' = Stream(Peer(e))
  BY <1>1, LinkBuffers DEF Puts
<1>3. Stream(e)' = Append(Stream(e), x)
  <2> DEFINE a == link[Peer(e)].recvbuf
             b == wire[e]
  <2>1. a \in Seq(Packet) /\ b \in Seq(Packet) /\ Stream(e) = Joined(a, b, None) /\ Stream(e)' = Joined(a, b, x)
    BY <1>1, LinkBuffers DEF Puts
  <2> HIDE DEF a, b
  <2> QED BY <2>1, JoinedSend
<1>4. Emitted(link[e], link'[e], x)
  BY <1>1 DEF Puts, Emitted
<1> QED BY <1>1, <1>2, <1>3, <1>4 DEF Emits, Alive, Local

\* A callback is taken off the queue.
LEMMA TakenType ==
    ASSUME TypeOK, NEW e \in Ends, NEW f
    PROVE  Taken(e, f) \in LinkState /\ Same(link[e], Taken(e, f))
<1>1. link[e] \in LinkState
  BY LinkBuffers
<1>2. link[e].sched \ {f} \in SUBSET Callbacks
  BY <1>1, LinkFields
<1> DEFINE l == link[e]
           s == link[e].sched \ {f}
<1>3. Taken(e, f) = [l EXCEPT !.sched = s]
  BY DEF Taken
<1> HIDE DEF l, s
<1>4. l \in LinkState /\ s \in SUBSET Callbacks
  BY <1>1, <1>2 DEF l, s
<1>5. [l EXCEPT !.sched = s] \in LinkState /\ Same(l, [l EXCEPT !.sched = s])
  BY <1>4, SetSched
<1> QED BY <1>3, <1>5 DEF l

\* What is true of a step from l is true of one from link[e].
LEMMA SameFirst ==
    ASSUME NEW k, NEW l, NEW m, Same(k, l)
    PROVE  /\ Same(l, m) => Same(k, m)
           /\ \A x : Puts(l, m, x) => Puts(k, m, x)
BY DEF Same, SameCounts, Puts

LEMMA NewLinkType == NewLink \in LinkState
<1>1. <<>> \in Seq(Packet) /\ <<>> \in Seq(Nat) /\ {} \in SUBSET Callbacks /\ 0 \in Nat
  OBVIOUS
<1> QED BY <1>1 DEF NewLink, LinkState

LEMMA DestroyedType ==
    ASSUME NEW l \in LinkState
    PROVE  /\ Destroyed(l) \in LinkState /\ Gone(l, Destroyed(l))
           /\ Destroyed(l).sendbuf = None /\ Destroyed(l).recvbuf = <<>>
<1> DEFINE k == NewLink
           seq == l.last_seq_sent
           ack == l.ack
           q == l.in_flight
           m == [k EXCEPT !.timed_out = TRUE, !.removed = TRUE, !.last_seq_sent = seq, !.ack = ack,
                          !.in_flight = q]
<1>1. /\ k \in LinkState /\ k.sendbuf = None /\ k.recvbuf = <<>> /\ k.waiting = None
      /\ k.pong_request = None
  BY NewLinkType DEF NewLink
<1>2. seq \in Nat /\ ack \in Nat /\ q \in Seq(Nat)
  BY LinkFields
<1>3. Destroyed(l) = m
  BY DEF Destroyed
<1> HIDE DEF k, seq, ack, q
<1>4. /\ m \in LinkState /\ m.sendbuf = None /\ m.recvbuf = <<>> /\ m.waiting = None
      /\ m.pong_request = None /\ m.removed = TRUE /\ m.last_seq_sent = seq /\ m.ack = ack
      /\ m.in_flight = q
  BY <1>1, <1>2 DEF LinkState
<1> QED BY <1>3, <1>4 DEF Gone, seq, ack, q

LEMMA DestroyStep ==
    ASSUME TypeOK, NEW e \in Ends, NEW l \in LinkState, Same(link[e], l), Local(e, Destroyed(l))
    PROVE  TypeOK' /\ Dies(e)
<1> DEFINE m == Destroyed(l)
<1>1. m \in LinkState /\ Gone(l, m) /\ m.sendbuf = None /\ m.recvbuf = <<>>
  BY DestroyedType
<1>2. Local(e, m)
  OBVIOUS
<1> HIDE DEF m
<1>3. /\ TypeOK' /\ link'[e] = m /\ Steady(Peer(e))
      /\ Stream(e)' = Joined(link[Peer(e)].recvbuf, wire[e], m.sendbuf)
      /\ Stream(Peer(e))' = Joined(m.recvbuf, wire[Peer(e)], link[Peer(e)].sendbuf)
  BY <1>1, <1>2, LocalStep
<1>4. Gone(link[e], link'[e])
  BY <1>1, <1>3 DEF Gone, Same, SameCounts
<1>5. \E k \in Nat : Window(Stream(Peer(e))', Stream(Peer(e)), k)
  <2> DEFINE a == link[e].recvbuf
             b == wire[Peer(e)]
             p == link[Peer(e)].sendbuf
  <2>1. /\ a \in Seq(Packet) /\ b \in Seq(Packet) /\ p \in Packet \cup {None}
        /\ Stream(Peer(e)) = Joined(a, b, p) /\ Stream(Peer(e))' = Joined(<<>>, b, p)
    BY <1>1, <1>3, LinkBuffers
  <2> HIDE DEF a, b, p
  <2>2. Window(Stream(Peer(e))', Stream(Peer(e)), Len(a)) /\ Len(a) \in Nat
    BY <2>1, JoinedWindow
  <2> QED BY <2>2
<1>6. /\ Window(Stream(e)', Stream(e), 0)
      /\ Stream(e) = Stream(e)' \/ \E x \in Packet : Stream(e) = Append(Stream(e)', x)
  <2> DEFINE a == link[Peer(e)].recvbuf
             b == wire[e]
             p == link[e].sendbuf
  <2>1. /\ a \in Seq(Packet) /\ b \in Seq(Packet) /\ p \in Packet \cup {None}
        /\ Stream(e) = Joined(a, b, p) /\ Stream(e)' = Joined(a, b, None)
    BY <1>1, <1>3, LinkBuffers
  <2> HIDE DEF a, b, p
  <2>2. Window(Stream(e)', Stream(e), 0)
    BY <2>1, JoinedWindow
  <2>3. CASE p = None
    BY <2>1, <2>2, <2>3
  <2>4. CASE p # None
    BY <2>1, <2>2, <2>4, JoinedSend
  <2> QED BY <2>3, <2>4
<1> QED BY <1>3, <1>4, <1>5, <1>6 DEF Dies, Local

LEMMA LinkSendReadyStep ==
    ASSUME TypeOK, NEW e \in Ends, Alive(e), NEW l \in LinkState, Same(link[e], l),
           LinkSendReady(e, l), wire' = wire, delivered' = delivered
    PROVE  TypeOK' /\ (Silent \/ Emits(e) \/ Dies(e))
<1>1. todo \in [Ends -> Nat] /\ todo[e] \in Nat
  BY LinkBuffers DEF TypeOK
<1>2. CASE l.timed_out
  <2>1. Local(e, Destroyed(l))
    BY <1>1, <1>2 DEF LinkSendReady, Local
  <2> QED BY <2>1, DestroyStep
<1>3. CASE ~l.timed_out /\ todo[e] = 0
  <2>1. Local(e, l)
    BY <1>1, <1>3 DEF LinkSendReady, Local
  <2> QED BY <2>1, LocalSilent
<1>4. CASE ~l.timed_out /\ todo[e] # 0
  <2> DEFINE m == Send(l)
  <2>1. /\ link' = [link EXCEPT ![e] = m]
        /\ todo' = [todo EXCEPT ![e] = IF Sends(l) THEN @ - 1 ELSE @]
    BY <1>4 DEF LinkSendReady
  <2>2. todo[e] - 1 \in Nat
    BY <1>1, <1>4
  <2>3. todo' \in [Ends -> Nat]
    BY <1>1, <2>1, <2>2
  <2>4. Local(e, m)
    BY <2>1, <2>3 DEF Local
  <2>5. m \in LinkState /\ (Same(l, m) \/ \E x \in Packet : Puts(l, m, x))
    BY SendType
  <2> HIDE DEF m
  <2>6. Same(link[e], m) \/ \E x \in Packet : Puts(link[e], m, x)
    BY <2>5, SameFirst
  <2> QED BY <2>4, <2>5, <2>6, LocalSilent, LocalEmits
<1> QED BY <1>2, <1>3, <1>4

LEMMA OnSendReadyStep ==
    ASSUME TypeOK, NEW e \in Ends, OnSendReady(e)
    PROVE  TypeOK' /\ (Silent \/ Emits(e) \/ Dies(e))
<1> DEFINE l == Taken(e, "ready")
<1>1. l \in LinkState /\ Same(link[e], l)
  BY TakenType
<1>2. Alive(e) /\ LinkSendReady(e, l) /\ wire' = wire /\ delivered' = delivered
  BY DEF OnSendReady, Runs
<1> HIDE DEF l
<1> QED BY <1>1, <1>2, LinkSendReadyStep

LEMMA OnSendReadyEdgeStep ==
    ASSUME TypeOK, NEW e \in Ends, OnSendReadyEdge(e)
    PROVE  TypeOK' /\ (Silent \/ Emits(e) \/ Dies(e))
<1> DEFINE k == [Taken(e, "edge") EXCEPT !.edge = TRUE]
           l == SendAux(k)
<1>1. Taken(e, "edge") \in LinkState /\ Same(link[e], Taken(e, "edge"))
  BY TakenType
<1>2. k \in LinkState /\ Same(link[e], k)
  BY <1>1 DEF LinkState, Same, SameCounts
<1>3. /\ Alive(e) /\ wire' = wire /\ delivered' = delivered
      /\ \/ InUse(l) /\ link' = [link EXCEPT ![e] = l] /\ UNCHANGED todo
         \/ ~InUse(l) /\ LinkSendReady(e, l)
  BY DEF OnSendReadyEdge, Runs
<1> HIDE DEF k
<1>4. l \in LinkState /\ (Same(k, l) \/ \E x \in Packet : Puts(k, l, x))
  BY <1>2, SendAuxType
<1> HIDE DEF l
<1>5. Same(link[e], l) \/ \E x \in Packet : Puts(link[e], l, x)
  BY <1>2, <1>4, SameFirst
<1>6. CASE InUse(l) /\ link' = [link EXCEPT ![e] = l] /\ UNCHANGED todo
  <2>1. Local(e, l)
    BY <1>3, <1>6 DEF Local, TypeOK
  <2> QED BY <1>3, <1>4, <1>5, <2>1, LocalSilent, LocalEmits
<1>7. CASE ~InUse(l) /\ LinkSendReady(e, l)
  <2>1. Same(link[e], l)
    BY <1>5, <1>7, NoneAssumption DEF InUse, Puts
  <2> QED BY <1>3, <1>4, <1>7, <2>1, LinkSendReadyStep
<1> QED BY <1>3, <1>6, <1>7

LEMMA TimerCallbackStep ==
    ASSUME TypeOK, NEW e \in Ends, TimerCallback(e)
    PROVE  TypeOK' /\ (Silent \/ Emits(e))
<1> DEFINE l == SendAux(link[e])
<1>1. link[e] \in LinkState
  BY LinkBuffers
<1>2. l \in LinkState /\ (Same(link[e], l) \/ \E x \in Packet : Puts(link[e], l, x))
  BY <1>1, SendAuxType
<1>3. PICK m \in MaybeRetransmit(e, l) : link' = [link EXCEPT ![e] = m]
  BY DEF TimerCallback
<1> HIDE DEF l
<1>4. m \in LinkState /\ Same(l, m)
  BY <1>2, MaybeRetransmitType
<1>5. Local(e, m) /\ Alive(e)
  BY <1>3 DEF TimerCallback, Local, TypeOK
<1>6. Same(link[e], m) \/ \E x \in Packet : Puts(link[e], m, x)
  BY <1>2, <1>4 DEF Same, SameCounts, Puts
<1> QED BY <1>4, <1>5, <1>6, LocalSilent, LocalEmits

LEMMA ScheduledAuxStep ==
    ASSUME TypeOK, NEW e \in Ends, ScheduledAux(e)
    PROVE  TypeOK' /\ (Silent \/ Emits(e))
<1> DEFINE k == Taken(e, "aux")
           m == SendAux(k)
<1>1. k \in LinkState /\ Same(link[e], k)
  BY TakenType
<1>2. Local(e, m) /\ Alive(e)
  BY DEF ScheduledAux, Local, TypeOK, Runs
<1> HIDE DEF k
<1>3. m \in LinkState /\ (Same(k, m) \/ \E x \in Packet : Puts(k, m, x))
  BY <1>1, SendAuxType
<1> HIDE DEF m
<1>4. Same(link[e], m) \/ \E x \in Packet : Puts(link[e], m, x)
  BY <1>1, <1>3, SameFirst
<1> QED BY <1>2, <1>3, <1>4, LocalSilent, LocalEmits

LEMMA TransportWriteReadyStep ==
    ASSUME TypeOK, NEW e \in Ends, Alive(e), NEW l \in LinkState, Same(link[e], l),
           TransportWriteReady(e, l)
    PROVE  TypeOK' /\ Silent
<1> DEFINE p == Peer(e)
           m == WriteReady(l, Room(e))
           wrote == InUse(l) /\ ~InUse(m)
           a == link[p].recvbuf
           b == wire[e]
           c == link[p].in_event \/ (wrote /\ Alive(p))
           o == [link[p] EXCEPT !.in_event = c]
<1>1. p \in Ends /\ p # e /\ Peer(p) = e /\ \A x \in Ends : x = e \/ x = p
  BY PeerEnd
<1>2. /\ link[e] \in LinkState /\ link[p] \in LinkState
      /\ a \in Seq(Packet) /\ b \in Seq(Packet) /\ wire[p] \in Seq(Packet)
      /\ l.sendbuf \in Packet \cup {None} /\ l.sendbuf = link[e].sendbuf
      /\ link \in [Ends -> LinkState] /\ wire \in [Ends -> Seq(Packet)]
  BY LinkBuffers DEF TypeOK, Same
<1>3. /\ m \in LinkState /\ SameCounts(l, m) /\ m.recvbuf = l.recvbuf
      /\ m.sendbuf = l.sendbuf \/ m.sendbuf = None
      /\ m.sendbuf # l.sendbuf => l.sendbuf # None
  <2> DEFINE room == Room(e)
  <2>1. room \in BOOLEAN /\ m = WriteReady(l, room)
    BY DEF Room
  <2> HIDE DEF room, m
  <2> QED BY <2>1, WriteReadyType
<1>4. /\ link' = [link EXCEPT ![e] = m, ![p].in_event = @ \/ (wrote /\ Alive(p))]
      /\ wire' = [wire EXCEPT ![e] = IF wrote THEN Append(@, l.sendbuf) ELSE @]
      /\ todo' = todo /\ delivered' = delivered
  BY DEF TransportWriteReady
<1>5. wrote => l.sendbuf \in Packet /\ m.sendbuf = None
  BY <1>2 DEF InUse
<1>6. ~wrote => m.sendbuf = l.sendbuf
  BY <1>3 DEF InUse
<1>7. c \in BOOLEAN
  BY <1>2, LinkFields
<1> HIDE DEF m, wrote
<1>8. link'[e] = m /\ link'[p] = o /\ link' \in [Ends -> LinkState] /\ Same(link[p], o)
  <2> HIDE DEF c
  <2>1. o \in LinkState /\ Same(link[p], o)
    BY <1>2, <1>7, ZenonT(30) DEF LinkState, Same, SameCounts
  <2>2. link'[e] = m /\ link'[p] = o
    BY <1>1, <1>2, <1>4 DEF c
  <2>3. link' \in [Ends -> LinkState]
    <3> HIDE DEF o
    <3>1. \A x \in Ends : link'[x] \in LinkState
      BY <1>1, <1>3, <2>1, <2>2
    <3>2. link' = [x \in Ends |-> link'[x]]
      BY <1>2, <1>4
    <3> QED BY <3>1, <3>2
  <2> QED BY <2>1, <2>2, <2>3
<1> HIDE DEF o
<1>9. wire'[e] = (IF wrote THEN Append(b, l.sendbuf) ELSE b) /\ wire'[p] = wire[p]
      /\ wire' \in [Ends -> Seq(Packet)]
  <2>1. wrote => Append(b, l.sendbuf) \in Seq(Packet)
    BY <1>2, <1>5
  <2> QED BY <1>1, <1>2, <1>4, <2>1
<1>10. TypeOK'
  BY <1>4, <1>8, <1>9 DEF TypeOK
<1>11. Stream(e)' = Stream(e)
  <2>1. Stream(e)' = Joined(a, wire'[e], m.sendbuf) /\ Stream(e) = Joined(a, b, l.sendbuf)
    BY <1>2, <1>8, StreamJoined, StreamJoinedNext DEF Same
  <2>2. CASE wrote
    <3> DEFINE x == l.sendbuf
    <3>1. x \in Packet /\ Stream(e)' = Joined(a, Append(b, x), None) /\ Stream(e) = Joined(a, b, x)
      BY <1>5, <1>9, <2>1, <2>2
    <3> HIDE DEF a, b, x
    <3> QED BY <1>2, <3>1, JoinedWrite
  <2>3. CASE ~wrote
    BY <1>6, <1>9, <2>1, <2>3
  <2> QED BY <2>2, <2>3
<1>12. Stream(p)' = Stream(p)
  <2>1. m.recvbuf = link[e].recvbuf
    BY <1>3 DEF Same
  <2> QED BY <1>1, <1>8, <1>9, <2>1, StreamJoined, StreamJoinedNext DEF Same
<1>13. Steady(e) /\ Steady(p)
  BY <1>3, <1>8 DEF Steady, Same, SameCounts
<1> QED BY <1>1, <1>4, <1>10, <1>11, <1>12, <1>13 DEF Silent

LEMMA ScheduledWriteStep ==
    ASSUME TypeOK, NEW e \in Ends, ScheduledWrite(e)
    PROVE  TypeOK' /\ Silent
<1> DEFINE l == Taken(e, "write")
<1>1. l \in LinkState /\ Same(link[e], l) /\ Alive(e) /\ TransportWriteReady(e, l)
  BY TakenType DEF ScheduledWrite, Runs
<1> HIDE DEF l
<1> QED BY <1>1, TransportWriteReadyStep

LEMMA EpollWriteStep ==
    ASSUME TypeOK, NEW e \in Ends, EpollWrite(e)
    PROVE  TypeOK' /\ Silent
<1> DEFINE l == [link[e] EXCEPT !.blocked = FALSE]
<1>1. l \in LinkState /\ Same(link[e], l)
  BY LinkBuffers, ZenonT(30) DEF LinkState, Same, SameCounts
<1>2. Alive(e) /\ TransportWriteReady(e, l)
  BY DEF EpollWrite
<1> HIDE DEF l
<1> QED BY <1>1, <1>2, TransportWriteReadyStep

\* Link::parse_recv_packet.
LEMMA ParseType ==
    ASSUME NEW l \in LinkState, NEW x \in Packet, NEW m \in Parse(l, x),
           IsPong(x) => Flushed(l.in_flight, x.seq) \in Seq(Nat)
    PROVE  /\ m \in LinkState /\ m.recvbuf = l.recvbuf /\ m.sendbuf = l.sendbuf
           /\ Absorbed(l, m, x)
<1>1. x.seq \in Nat /\ x.kind \in {"data", "ping", "pong"}
  BY PacketFields
<1> DEFINE seq == x.seq
<1>2. CASE x.kind = "data"
  <2> DEFINE k == [l EXCEPT !.waiting = seq]
  <2>1. k \in LinkState /\ k.recvbuf = l.recvbuf /\ k.sendbuf = l.sendbuf /\ k.waiting = seq
        /\ k.last_seq_sent = l.last_seq_sent /\ k.removed = l.removed
        /\ k.pong_request = l.pong_request /\ k.ack = l.ack /\ k.in_flight = l.in_flight
    <3> HIDE DEF seq
    <3>1. seq \in Nat
      BY <1>1 DEF seq
    <3> QED BY <3>1 DEF LinkState
  <2>2. m = Schedule(k, "recv") /\ "recv" \in Callbacks
    BY <1>2 DEF Parse, Callbacks
  <2> HIDE DEF k
  <2>3. m \in LinkState /\ Same(k, m)
    BY <2>1, <2>2, ScheduleType
  <2> QED BY <1>2, <2>1, <2>3 DEF Same, SameCounts, Absorbed, IsData
<1>3. CASE x.kind = "ping"
  <2> DEFINE k == [l EXCEPT !.pong_request = seq]
  <2>1. k \in LinkState /\ k.recvbuf = l.recvbuf /\ k.sendbuf = l.sendbuf /\ k.waiting = l.waiting
        /\ k.last_seq_sent = l.last_seq_sent /\ k.removed = l.removed
        /\ k.pong_request = seq /\ k.ack = l.ack /\ k.in_flight = l.in_flight
    <3> HIDE DEF seq
    <3>1. seq \in Nat
      BY <1>1 DEF seq
    <3> QED BY <3>1 DEF LinkState
  <2>2. m = Schedule(k, "aux") /\ "aux" \in Callbacks
    BY <1>3 DEF Parse, Callbacks
  <2> HIDE DEF k
  <2>3. m \in LinkState /\ Same(k, m)
    BY <2>1, <2>2, ScheduleType
  <2> QED BY <1>3, <2>1, <2>3 DEF Same, SameCounts, Absorbed
<1>4. CASE x.kind = "pong"
  <2>1. m \in Pong(l, seq)
    BY <1>4 DEF Parse
  <2>2. PICK rtt \in RoundTrips :
            m = [BufferbloatCheck(l, rtt) EXCEPT !.ack = seq, !.in_flight = Flushed(@, seq)]
    BY <2>1 DEF Pong
  <2> DEFINE k == BufferbloatCheck(l, rtt)
             q == Flushed(l.in_flight, seq)
  <2>3. k \in LinkState /\ Same(l, k)
    BY BufferbloatCheckType
  <2>4. m = [k EXCEPT !.ack = seq, !.in_flight = q]
    <3>1. k.in_flight = l.in_flight
      BY <2>3 DEF Same, SameCounts
    <3> HIDE DEF k
    <3>2. m = [k EXCEPT !.ack = seq, !.in_flight = Flushed(k.in_flight, seq)]
      BY <2>2, <2>3 DEF LinkState, k
    <3> QED BY <3>1, <3>2
  <2>5. q \in Seq(Nat) /\ seq \in Nat
    BY <1>1, <1>4 DEF IsPong
  <2> HIDE DEF k, q, seq
  <2>6. m \in LinkState /\ m.recvbuf = k.recvbuf /\ m.sendbuf = k.sendbuf /\ m.waiting = k.waiting
        /\ m.last_seq_sent = k.last_seq_sent /\ m.removed = k.removed
        /\ m.pong_request = k.pong_request /\ m.ack = seq /\ m.in_flight = q
    BY <2>3, <2>4, <2>5 DEF LinkState
  <2> QED BY <1>4, <2>3, <2>6 DEF Same, SameCounts, Absorbed, IsPong, q, seq
<1> QED BY <1>1, <1>2, <1>3, <1>4

\* A pong on its way to a link can be flushed.
LEMMA PongInFlight ==
    ASSUME TypeOK, \A x \in Ends : Sound(x), NEW e \in Ends, Stream(Peer(e)) # <<>>,
           IsPong(Head(Stream(Peer(e))))
    PROVE  Flushed(link[e].in_flight, Head(Stream(Peer(e))).seq) \in Seq(Nat)
<1> DEFINE l == link[e]
           p == link[Peer(e)]
           s == Stream(Peer(e))
           t == Stream(e)
           got == Len(delivered[Peer(e)])
           req == p.pong_request
           lo == l.ack
           hi == l.last_seq_sent
           seq == Head(s).seq
<1>1. l \in LinkState /\ p \in LinkState /\ got \in Nat /\ s \in Seq(Packet)
  BY StreamType
<1>2. SentRight(l, p, got, t) /\ ToldRight(l, p, got, s)
  BY DEF Sound
<1>3. lo \in Nat /\ hi \in Nat /\ req \in Nat \cup {None} /\ Back(s, lo, got, req)
      /\ l.in_flight = Numbers(lo, hi)
  BY <1>1, <1>2, LinkFields DEF ToldRight
<1>4. got <= hi
  <2> HIDE DEF l, p, got, s, t
  <2> QED BY <1>1, <1>2, AckBelowSent DEF hi
<1>5. s # <<>> /\ IsPong(Head(s))
  OBVIOUS
<1>6. seq \in lo .. got
  <2> HIDE DEF lo, req, got, s
  <2> QED BY <1>1, <1>3, <1>5, BackHead DEF seq
<1>7. seq \in lo .. hi
  BY <1>1, <1>3, <1>4, <1>6
<1>8. seq \in Nat /\ seq <= hi
  BY <1>3, <1>7
<1> HIDE DEF lo, hi, seq
<1>9. Flushed(l.in_flight, seq) = Numbers(seq, hi)
  BY <1>3, <1>7, FlushedNumbers
<1> QED BY <1>3, <1>8, <1>9, NumbersType DEF seq

\* The reader takes x from recv_buffer or from the socket, which hold a and b
\* before the step.
LEMMA ReadParse ==
    ASSUME TypeOK, \A x \in Ends : Sound(x), NEW e \in Ends, Alive(e),
           NEW l \in LinkState, SameCounts(link[e], l), l.sendbuf = link[e].sendbuf, l.waiting = None,
           Stream(Peer(e)) # <<>>, NEW m \in Parse(l, Head(Stream(Peer(e)))),
           NEW w \in Seq(Packet), NEW c \in BOOLEAN,
           link' = [link EXCEPT ![e] = [m EXCEPT !.in_event = c]],
           wire' = [wire EXCEPT ![Peer(e)] = w],
           Joined(l.recvbuf, w, link[Peer(e)].sendbuf) = Tail(Stream(Peer(e))),
           todo' = todo, delivered' = delivered
    PROVE  TypeOK' /\ Absorbs(e)
<1> DEFINE p == Peer(e)
           x == Head(Stream(p))
           o == [m EXCEPT !.in_event = c]
<1>1. p \in Ends /\ p # e /\ Peer(p) = e
  BY PeerEnd
<1>2. /\ Stream(p) \in Seq(Packet) /\ link \in [Ends -> LinkState] /\ wire \in [Ends -> Seq(Packet)]
  BY StreamType DEF TypeOK
<1>3. x \in Packet
  BY <1>2, TailEntries
<1>4. IsPong(x) => Flushed(l.in_flight, x.seq) \in Seq(Nat)
  BY PongInFlight DEF SameCounts
<1> HIDE DEF x
<1>5. m \in LinkState /\ m.recvbuf = l.recvbuf /\ m.sendbuf = l.sendbuf /\ Absorbed(l, m, x)
  <2>1. m \in Parse(l, x)
    BY DEF x
  <2> QED BY <1>3, <1>4, <2>1, ParseType
<1>6. o \in LinkState /\ Same(m, o)
  BY <1>5, ZenonT(30) DEF LinkState, Same, SameCounts
<1> HIDE DEF o
<1>7. link' = [link EXCEPT ![e] = o]
  BY DEF o
<1>8. link'[e] = o /\ link'[p] = link[p] /\ link' \in [Ends -> LinkState]
  BY <1>1, <1>2, <1>6, <1>7
<1>9. wire'[p] = w /\ wire'[e] = wire[e] /\ wire' \in [Ends -> Seq(Packet)]
  BY <1>1, <1>2
<1>10. TypeOK'
  BY <1>8, <1>9 DEF TypeOK
<1>11. Stream(p)' = Tail(Stream(p))
  BY <1>1, <1>5, <1>6, <1>8, <1>9, StreamJoinedNext DEF Same
<1>12. Stream(e)' = Stream(e)
  BY <1>1, <1>5, <1>6, <1>8, <1>9, StreamJoined, StreamJoinedNext DEF Same
<1>13. Absorbed(link[e], link'[e], x)
  BY <1>5, <1>6, <1>8 DEF Absorbed, Same, SameCounts
<1>14. Steady(p) /\ link[e].waiting = None /\ ~link[e].removed
  BY <1>8 DEF Steady, SameCounts, Alive
<1> QED BY <1>10, <1>11, <1>12, <1>13, <1>14 DEF Absorbs, x

LEMMA TransportReadReadyStep ==
    ASSUME TypeOK, \A x \in Ends : Sound(x), NEW e \in Ends, Alive(e),
           NEW l \in LinkState, Same(link[e], l), TransportReadReady(e, l)
    PROVE  TypeOK' /\ (Silent \/ Absorbs(e))
<1> DEFINE p == Peer(e)
           a == l.recvbuf
           b == wire[p]
           f == link[p].sendbuf
<1>1. p \in Ends /\ p # e /\ Peer(p) = e /\ \A x \in Ends : x = e \/ x = p
  BY PeerEnd
<1>2. /\ a \in Seq(Packet) /\ b \in Seq(Packet) /\ f \in Packet \cup {None}
      /\ Stream(p) = Joined(a, b, f) /\ wire \in [Ends -> Seq(Packet)]
      /\ link \in [Ends -> LinkState] /\ a = link[e].recvbuf
  BY LinkBuffers DEF TypeOK, Same
<1>3. todo' = todo /\ delivered' = delivered
  BY DEF TransportReadReady
<1>4. \A m, w : More(m, w) \in BOOLEAN
  BY DEF More
<1>5. CASE /\ ~l.timed_out /\ l.waiting = None /\ a # <<>>
           /\ \E m \in Parse([l EXCEPT !.recvbuf = Tail(@)], Head(a)) :
                 link' = [link EXCEPT ![e] = [m EXCEPT !.in_event = More(m, b)]]
           /\ UNCHANGED wire
  <2> DEFINE r == Tail(a)
             k == [l EXCEPT !.recvbuf = r]
  <2>1. r \in Seq(Packet)
    BY <1>2, <1>5, TailEntries
  <2>2. [l EXCEPT !.recvbuf = Tail(@)] = k
    OBVIOUS
  <2>3. PICK m \in Parse(k, Head(a)) : link' = [link EXCEPT ![e] = [m EXCEPT !.in_event = More(m, b)]]
    BY <1>5, <2>2
  <2>4. /\ k \in LinkState /\ k.recvbuf = r /\ k.sendbuf = l.sendbuf /\ k.waiting = None
        /\ SameCounts(link[e], k)
    <3> HIDE DEF r
    <3>1. k.waiting = l.waiting
      BY DEF LinkState
    <3> QED BY <1>5, <2>1, <3>1 DEF LinkState, Same, SameCounts
  <2> DEFINE c == More(m, b)
  <2>5. c \in BOOLEAN
    BY <1>4
  <2>6. /\ Stream(p) # <<>> /\ Head(Stream(p)) = Head(a) /\ Joined(r, b, f) = Tail(Stream(p))
    <3> HIDE DEF a, b, f
    <3>1. /\ a \in Seq(Packet) /\ b \in Seq(Packet) /\ f \in Packet \cup {None}
          /\ a # <<>> /\ Stream(p) = Joined(a, b, f)
      BY <1>2, <1>5
    <3>2. /\ Joined(a, b, f) # <<>> /\ Head(Joined(a, b, f)) = Head(a)
          /\ Joined(Tail(a), b, f) = Tail(Joined(a, b, f))
      BY <3>1, JoinedRead, Zenon
    <3> QED BY <3>1, <3>2
  <2>7. wire' = [wire EXCEPT ![p] = b]
    BY <1>2, <1>5
  <2>8. link' = [link EXCEPT ![e] = [m EXCEPT !.in_event = c]]
    BY <2>3
  <2>9. k.sendbuf = link[e].sendbuf
    BY <2>4 DEF Same
  <2> HIDE DEF k, r, c
  <2> QED BY <1>2, <1>3, <2>3, <2>4, <2>5, <2>6, <2>7, <2>8, <2>9, ReadParse
<1>6. CASE /\ ~l.timed_out /\ l.waiting = None /\ a = <<>> /\ b # <<>>
           /\ \E m \in Parse(l, Head(b)) :
                 link' = [link EXCEPT ![e] = [m EXCEPT !.in_event = More(m, Tail(b))]]
           /\ wire' = [wire EXCEPT ![p] = Tail(@)]
  <2> DEFINE r == Tail(b)
  <2>1. r \in Seq(Packet)
    BY <1>2, <1>6, TailEntries
  <2>2. PICK m \in Parse(l, Head(b)) : link' = [link EXCEPT ![e] = [m EXCEPT !.in_event = More(m, r)]]
    BY <1>6
  <2> DEFINE c == More(m, r)
  <2>3. c \in BOOLEAN
    BY <1>4
  <2>4. /\ Stream(p) # <<>> /\ Head(Stream(p)) = Head(b) /\ Joined(a, r, f) = Tail(Stream(p))
    <3>1. a = <<>> /\ b # <<>>
      BY <1>6
    <3>2. a \in Seq(Packet) /\ b \in Seq(Packet) /\ f \in Packet \cup {None}
      BY <1>2
    <3> HIDE DEF a, b, f, r
    <3>3. /\ Joined(a, b, f) # <<>> /\ Head(Joined(a, b, f)) = Head(b)
          /\ Joined(a, Tail(b), f) = Tail(Joined(a, b, f))
      BY <3>1, <3>2, JoinedRead, ZenonT(30)
    <3> QED BY <1>2, <3>3 DEF r
  <2>5. wire' = [wire EXCEPT ![p] = r]
    BY <1>2, <1>6
  <2>6. link' = [link EXCEPT ![e] = [m EXCEPT !.in_event = c]]
    BY <2>2
  <2>7. l.sendbuf = link[e].sendbuf /\ SameCounts(link[e], l) /\ l.waiting = None
    BY <1>6 DEF Same
  <2>8. Joined(l.recvbuf, r, link[p].sendbuf) = Tail(Stream(p))
    BY <2>4
  <2>9. m \in Parse(l, Head(Stream(p)))
    BY <2>4
  <2> HIDE DEF r, c
  <2> QED BY <1>3, <2>1, <2>3, <2>4, <2>5, <2>6, <2>7, <2>8, <2>9, ReadParse
<1>7. CASE /\ ~l.timed_out /\ l.waiting # None /\ More(l, b)
           /\ link' = [link EXCEPT ![e] = [[l EXCEPT !.recvbuf = Append(@, Head(b))]
                                              EXCEPT !.in_event = More([l EXCEPT !.recvbuf = Append(@, Head(b))], Tail(b))]]
           /\ wire' = [wire EXCEPT ![p] = Tail(@)]
  <2> DEFINE r == Tail(b)
             d == Append(a, Head(b))
             k == [l EXCEPT !.recvbuf = d]
             c == More(k, r)
             o == [k EXCEPT !.in_event = c]
  <2>1. b # <<>>
    BY <1>7 DEF More
  <2>2. r \in Seq(Packet) /\ d \in Seq(Packet)
    BY <1>2, <2>1, TailEntries, AppendEntries
  <2>3. link' = [link EXCEPT ![e] = o] /\ wire' = [wire EXCEPT ![p] = r]
    BY <1>2, <1>7
  <2>4. Joined(d, r, f) = Stream(p)
    <3> HIDE DEF a, b, f
    <3> QED BY <1>2, <2>1, JoinedMove
  <2>5. c \in BOOLEAN
    BY <1>4
  <2> HIDE DEF c
  <2>6. k \in LinkState /\ SameCounts(l, k) /\ k.sendbuf = l.sendbuf /\ k.recvbuf = d
    <3> HIDE DEF d
    <3> QED BY <2>2 DEF LinkState, SameCounts
  <2> HIDE DEF k
  <2>7. o \in LinkState /\ Same(k, o)
    BY <2>5, <2>6 DEF LinkState, Same, SameCounts
  <2> HIDE DEF o, d, r
  <2>8. link'[e] = o /\ link'[p] = link[p] /\ link' \in [Ends -> LinkState]
    BY <1>1, <1>2, <2>3, <2>7
  <2>9. wire'[p] = r /\ wire'[e] = wire[e] /\ wire' \in [Ends -> Seq(Packet)]
    BY <1>1, <1>2, <2>2, <2>3
  <2>10. TypeOK'
    BY <1>3, <2>8, <2>9 DEF TypeOK
  <2>11. Stream(p)' = Stream(p)
    BY <1>1, <2>4, <2>6, <2>7, <2>8, <2>9, StreamJoinedNext DEF Same
  <2>12. Stream(e)' = Stream(e)
    BY <1>1, <2>6, <2>7, <2>8, <2>9, StreamJoined, StreamJoinedNext DEF Same
  <2>13. Steady(e) /\ Steady(p)
    BY <2>6, <2>7, <2>8 DEF Steady, Same, SameCounts
  <2> QED BY <1>1, <1>3, <2>10, <2>11, <2>12, <2>13 DEF Silent
<1>8. CASE link' = [link EXCEPT ![e] = [l EXCEPT !.in_event = FALSE]] /\ UNCHANGED wire
  <2> DEFINE m == [l EXCEPT !.in_event = FALSE]
  <2>1. m \in LinkState /\ Same(link[e], m)
    BY DEF LinkState, Same, SameCounts
  <2>2. Local(e, m)
    BY <1>3, <1>8 DEF Local, TypeOK
  <2> HIDE DEF m
  <2> QED BY <2>1, <2>2, LocalSilent
<1> QED BY <1>5, <1>6, <1>7, <1>8 DEF TransportReadReady

LEMMA ScheduledReadStep ==
    ASSUME TypeOK, \A x \in Ends : Sound(x), NEW e \in Ends, ScheduledRead(e)
    PROVE  TypeOK' /\ (Silent \/ Absorbs(e))
<1> DEFINE l == Taken(e, "read")
<1>1. l \in LinkState /\ Same(link[e], l) /\ Alive(e) /\ TransportReadReady(e, l)
  BY TakenType DEF ScheduledRead, Runs
<1> HIDE DEF l
<1> QED BY <1>1, TransportReadReadyStep

LEMMA EpollReadStep ==
    ASSUME TypeOK, \A x \in Ends : Sound(x), NEW e \in Ends, EpollRead(e)
    PROVE  TypeOK' /\ (Silent \/ Absorbs(e))
<1> DEFINE l == link[e]
<1>1. l \in LinkState /\ Same(link[e], l) /\ Alive(e) /\ TransportReadReady(e, l)
  BY LinkBuffers DEF EpollRead, Same, SameCounts
<1> HIDE DEF l
<1> QED BY <1>1, TransportReadReadyStep DEF l

LEMMA LinkRecvStep ==
    ASSUME TypeOK, NEW e \in Ends, NEW l \in LinkState, Same(link[e], l), LinkRecv(e, l),
           wire' = wire, todo' = todo
    PROVE  TypeOK' /\ (Silent \/ Hands(e))
<1> DEFINE p == Peer(e)
<1>1. p \in Ends /\ p # e /\ Peer(p) = e /\ \A x \in Ends : x = e \/ x = p
  BY PeerEnd
<1>2. /\ link \in [Ends -> LinkState] /\ delivered \in [Ends -> Seq(Nat)]
      /\ delivered[e] \in Seq(Nat)
  BY DEF TypeOK
<1>3. CASE l.waiting # None /\ ~l.timed_out
  <2> DEFINE k == [l EXCEPT !.waiting = None]
             m == Schedule(k, "read")
             n == l.waiting
  <2>1. /\ k \in LinkState /\ Handed(l, k) /\ k.sendbuf = l.sendbuf /\ k.recvbuf = l.recvbuf
    BY <1>3 DEF LinkState, Handed
  <2>2. "read" \in Callbacks
    BY DEF Callbacks
  <2>3. link' = [link EXCEPT ![e] = m] /\ delivered' = [delivered EXCEPT ![e] = Append(@, n)]
    BY <1>3 DEF LinkRecv
  <2>4. n = link[e].waiting /\ n \in Nat
    BY <1>3, LinkFields DEF Same, SameCounts
  <2> HIDE DEF k, n
  <2>5. m \in LinkState /\ Same(k, m)
    BY <2>1, <2>2, ScheduleType
  <2> HIDE DEF m
  <2>6. link'[e] = m /\ link'[p] = link[p] /\ link' \in [Ends -> LinkState]
    BY <1>1, <1>2, <2>3, <2>5
  <2>7. delivered' \in [Ends -> Seq(Nat)]
    <3>1. Append(delivered[e], n) \in Seq(Nat)
      BY <1>2, <2>4
    <3> QED BY <1>2, <2>3, <3>1
  <2>8. TypeOK'
    BY <2>6, <2>7 DEF TypeOK
  <2>9. Stream(e)' = Stream(e) /\ Stream(p)' = Stream(p)
    BY <1>1, <2>1, <2>5, <2>6, StreamJoined, StreamJoinedNext DEF Same
  <2>10. Handed(link[e], link'[e])
    BY <2>1, <2>5, <2>6 DEF Same, SameCounts, Handed
  <2>11. Steady(p)
    BY <2>6 DEF Steady, SameCounts
  <2>12. \A x \in Ends : Stream(x)' = Stream(x)
    BY <1>1, <2>9
  <2> QED BY <2>3, <2>4, <2>8, <2>10, <2>11, <2>12 DEF Hands
<1>4. CASE ~(l.waiting # None /\ ~l.timed_out)
  <2>1. Local(e, l)
    BY <1>4 DEF LinkRecv, Local, TypeOK
  <2> QED BY <2>1, LocalSilent
<1> QED BY <1>3, <1>4

LEMMA OnRecvReadyStep ==
    ASSUME TypeOK, NEW e \in Ends, OnRecvReady(e)
    PROVE  TypeOK' /\ (Silent \/ Hands(e))
<1> DEFINE l == Taken(e, "recv")
<1>1. l \in LinkState /\ Same(link[e], l) /\ LinkRecv(e, l) /\ wire' = wire /\ todo' = todo
  BY TakenType DEF OnRecvReady
<1> HIDE DEF l
<1> QED BY <1>1, LinkRecvStep

LEMMA RecvForOtherLinkStep ==
    ASSUME TypeOK, NEW e \in Ends, RecvForOtherLink(e)
    PROVE  TypeOK' /\ (Silent \/ Hands(e))
<1> DEFINE l == link[e]
<1>1. l \in LinkState /\ Same(link[e], l) /\ LinkRecv(e, l) /\ wire' = wire /\ todo' = todo
  BY LinkBuffers DEF RecvForOtherLink, Same, SameCounts
<1> HIDE DEF l
<1> QED BY <1>1, LinkRecvStep

LEMMA AssignStep ==
    ASSUME TypeOK, NEW e \in Ends, NEW wake \in BOOLEAN, Assign(e, wake)
    PROVE  TypeOK' /\ Silent
<1> DEFINE l == link[e]
           m == IF wake THEN Schedule(l, "ready") ELSE l
<1>1. l \in LinkState /\ todo \in [Ends -> Nat] /\ todo[e] \in Nat /\ link \in [Ends -> LinkState]
  BY LinkBuffers DEF TypeOK
<1>2. "ready" \in Callbacks
  BY DEF Callbacks
<1>3. m \in LinkState /\ Same(l, m)
  <2>1. Same(l, l)
    BY DEF Same, SameCounts
  <2> HIDE DEF l
  <2>2. Schedule(l, "ready") \in LinkState /\ Same(l, Schedule(l, "ready"))
    BY <1>1, <1>2, ScheduleType
  <2> QED BY <1>1, <2>1, <2>2
<1>4. todo' \in [Ends -> Nat]
  BY <1>1 DEF Assign
<1>5. link' = [link EXCEPT ![e] = m]
  BY <1>1 DEF Assign
<1>6. Local(e, m)
  BY <1>4, <1>5 DEF Assign, Local
<1> HIDE DEF m
<1> QED BY <1>3, <1>6, LocalSilent

LEMMA PingIntervalStep ==
    ASSUME TypeOK, NEW e \in Ends, PingInterval(e)
    PROVE  TypeOK' /\ Silent
<1> DEFINE m == [link[e] EXCEPT !.ping_due = TRUE]
<1>1. link[e] \in LinkState
  BY LinkBuffers
<1>2. m \in LinkState /\ Same(link[e], m)
  BY <1>1 DEF LinkState, Same, SameCounts
<1>3. link' = [link EXCEPT ![e] = m]
  BY DEF PingInterval, TypeOK
<1>4. Local(e, m)
  BY <1>3 DEF PingInterval, Local, TypeOK
<1> HIDE DEF m
<1> QED BY <1>2, <1>4, LocalSilent

-----------------------------------------------------------------------------
(* The theorems.                                                           *)

Step == Silent \/ \E e \in Ends : Emits(e) \/ Absorbs(e) \/ Hands(e) \/ Dies(e)

LEMMA KindOfStep ==
    ASSUME LinkInv, [Next]_vars
    PROVE  TypeOK' /\ Step
<1>1. TypeOK /\ \A x \in Ends : Sound(x)
  BY InvIsSound DEF LinkInv
<1>2. CASE Next
  <2>1. PICK e \in Ends :
           \/ OnSendReady(e) \/ OnSendReadyEdge(e) \/ TimerCallback(e) \/ ScheduledAux(e)
           \/ ScheduledWrite(e) \/ EpollWrite(e) \/ ScheduledRead(e) \/ EpollRead(e)
           \/ OnRecvReady(e) \/ RecvForOtherLink(e)
           \/ \E wake \in BOOLEAN : Assign(e, wake)
           \/ PingInterval(e)
    BY <1>2 DEF Next
  <2>2. CASE OnSendReady(e)
    BY <1>1, <2>2, OnSendReadyStep DEF Step
  <2>3. CASE OnSendReadyEdge(e)
    BY <1>1, <2>3, OnSendReadyEdgeStep DEF Step
  <2>4. CASE TimerCallback(e)
    BY <1>1, <2>4, TimerCallbackStep DEF Step
  <2>5. CASE ScheduledAux(e)
    BY <1>1, <2>5, ScheduledAuxStep DEF Step
  <2>6. CASE ScheduledWrite(e)
    BY <1>1, <2>6, ScheduledWriteStep DEF Step
  <2>7. CASE EpollWrite(e)
    BY <1>1, <2>7, EpollWriteStep DEF Step
  <2>8. CASE ScheduledRead(e)
    BY <1>1, <2>8, ScheduledReadStep DEF Step
  <2>9. CASE EpollRead(e)
    BY <1>1, <2>9, EpollReadStep DEF Step
  <2>10. CASE OnRecvReady(e)
    BY <1>1, <2>10, OnRecvReadyStep DEF Step
  <2>11. CASE RecvForOtherLink(e)
    BY <1>1, <2>11, RecvForOtherLinkStep DEF Step
  <2>12. CASE \E wake \in BOOLEAN : Assign(e, wake)
    BY <1>1, <2>12, AssignStep DEF Step
  <2>13. CASE PingInterval(e)
    BY <1>1, <2>13, PingIntervalStep DEF Step
  <2> QED BY <2>1, <2>2, <2>3, <2>4, <2>5, <2>6, <2>7, <2>8, <2>9, <2>10, <2>11, <2>12, <2>13
<1>3. CASE UNCHANGED vars
  <2>1. link' = link /\ wire' = wire /\ todo' = todo /\ delivered' = delivered
    BY <1>3 DEF vars
  <2>2. TypeOK'
    BY <1>1, <2>1 DEF TypeOK
  <2>3. \A x : Steady(x) /\ Stream(x)' = Stream(x)
    BY <2>1, StreamJoined, StreamJoinedNext DEF Steady, SameCounts
  <2> QED BY <2>1, <2>2, <2>3 DEF Step, Silent
<1> QED BY <1>2, <1>3

LEMMA InvStep ==
    ASSUME LinkInv, [Next]_vars
    PROVE  LinkInv'
<1>1. TypeOK /\ LinkInOrder /\ \A x \in Ends : Sound(x)
  BY InvIsSound DEF LinkInv
<1>2. TypeOK' /\ Step
  BY KindOfStep
<1>3. LinkInOrder' /\ \A x \in Ends : Sound(x)'
  <2>1. ASSUME delivered' = delivered PROVE LinkInOrder'
    BY <1>1, <2>1 DEF LinkInOrder
  <2>2. CASE Silent
    BY <1>1, <2>1, <2>2, SilentStep DEF Silent
  <2>3. ASSUME NEW e \in Ends, Emits(e) \/ Absorbs(e) \/ Hands(e) \/ Dies(e)
        PROVE  LinkInOrder' /\ \A x \in Ends : Sound(x)'
    <3>1. CASE Emits(e)
      BY <1>1, <1>2, <2>1, <3>1, EmitsStep DEF Emits
    <3>2. CASE Absorbs(e)
      BY <1>1, <1>2, <2>1, <3>2, AbsorbsStep DEF Absorbs
    <3>3. CASE Hands(e)
      BY <1>1, <1>2, <3>3, HandsStep
    <3>4. CASE Dies(e)
      BY <1>1, <1>2, <2>1, <3>4, DiesStep DEF Dies
    <3> QED BY <2>3, <3>1, <3>2, <3>3, <3>4
  <2> QED BY <1>2, <2>2, <2>3 DEF Step
<1>4. (StreamInv /\ AckInv)' <=> \A x \in Ends : Sound(x)'
  BY InvIsSoundNext
<1> QED BY <1>2, <1>3, <1>4 DEF LinkInv

LEMMA InvInit == Init => LinkInv
<1> SUFFICES ASSUME Init PROVE LinkInv
  OBVIOUS
<1>1. link = [e \in Ends |-> NewLink] /\ wire = [e \in Ends |-> <<>>]
      /\ todo = [e \in Ends |-> 0] /\ delivered = [e \in Ends |-> <<>>]
  BY DEF Init
<1>2. TypeOK
  BY <1>1, NewLinkType DEF TypeOK
<1>3. LinkInOrder
  BY <1>1 DEF LinkInOrder
<1>4. ASSUME NEW e \in Ends PROVE Sound(e)
  <2> DEFINE l == NewLink
             s == Joined(<<>>, <<>>, None)
  <2>1. Peer(e) \in Ends
    BY PeerEnd
  <2>2. link[e] = l /\ link[Peer(e)] = l /\ wire[e] = <<>> /\ wire[Peer(e)] = <<>>
        /\ delivered[Peer(e)] = <<>>
    BY <1>1, <2>1
  <2>3. /\ l.sendbuf = None /\ l.recvbuf = <<>> /\ l.waiting = None /\ l.pong_request = None
        /\ l.last_seq_sent = 0 /\ l.ack = 0 /\ l.in_flight = <<>> /\ l.removed = FALSE
    BY DEF NewLink
  <2>4. Stream(e) = s /\ Stream(Peer(e)) = s
    <3>1. Peer(Peer(e)) = e
      BY PeerEnd
    <3> HIDE DEF l
    <3> QED BY <2>2, <2>3, <3>1, StreamJoined
  <2>5. s = <<>>
    BY NoneAssumption, ConcatEmptySeq DEF Joined, Buffered
  <2> HIDE DEF s, l
  <2>6. Len(<<>>) = 0 /\ Count(l, 0) = 0
    BY <2>3 DEF Count
  <2>7. Forth(<<>>, 0, 0, TRUE) /\ Back(<<>>, 0, 0, None)
    BY DEF Forth, Back, Continues
  <2>8. SentRight(l, l, 0, <<>>)
    <3>1. Forth(<<>>, 0, 0, ~l.removed)
      BY <2>7 DEF Forth
    <3>2. Count(l, 0) <= l.last_seq_sent /\ l.waiting = None
      BY <2>3, <2>6
    <3> QED BY <2>3, <2>6, <3>1, <3>2 DEF SentRight
  <2>9. ToldRight(l, l, 0, <<>>)
    <3>1. Numbers(0, 0) = <<>>
      BY DEF Numbers
    <3> QED BY <2>3, <2>7, <3>1 DEF ToldRight
  <2> QED BY <2>2, <2>4, <2>5, <2>6, <2>8, <2>9 DEF Sound
<1> QED BY <1>2, <1>3, <1>4, InvIsSound DEF LinkInv

\* A link delivers the packets of its peer in order and without repetition;
\* what is on its way in the sockets and buffers continues them without a
\* gap; and every pong that is due or on its way tells the truth
\* (Link::parse_recv_packet, send_aux, flush_in_flight_queue).
THEOREM LinkSafe == Spec => []LinkInv
<1>1. Init => LinkInv
  BY InvInit
<1>2. LinkInv /\ [Next]_vars => LinkInv'
  BY InvStep
<1> QED BY <1>1, <1>2, PTL DEF Spec

\* A packet leaves in_flight_queue only after the peer's Multilink took it, so
\* get_packets_to_retransmit returns all that may be lost with the link.
THEOREM LinkNoLoss == Spec => []NoLoss
<1>1. LinkInv => NoLoss
  <2> SUFFICES ASSUME LinkInv, NEW e \in Ends, NEW seq \in 1 .. link[e].last_seq_sent
               PROVE  \/ seq \in Elements(delivered[Peer(e)])
                      \/ seq \in Elements(link[e].in_flight)
    BY DEF NoLoss
  <2> DEFINE got == Len(delivered[Peer(e)])
             ack == link[e].ack
             last == link[e].last_seq_sent
             q == link[e].in_flight
             d == delivered[Peer(e)]
  <2>1. Peer(e) \in Ends /\ link[e] \in LinkState /\ got \in Nat /\ link[Peer(e)] \in LinkState
    BY PeerEnd, StreamType DEF LinkInv
  <2>2. ack \in Nat /\ last \in Nat
    BY <2>1, LinkFields
  <2>3. ack <= got /\ q = Numbers(ack, last) /\ d = [i \in 1 .. got |-> i]
    BY <2>1 DEF LinkInv, AckInv, LinkInOrder, Numbers
  <2>4. Sound(e)
    BY InvIsSound DEF LinkInv
  <2>5. ack <= last
    BY <2>1, <2>4, AckBelowSent DEF Sound
  <2>6. /\ Len(q) = last - ack /\ \A i \in 1 .. last - ack : q[i] = ack + i
    <3> HIDE DEF ack, last, q
    <3> QED BY <2>2, <2>3, <2>5, NumbersType
  <2>7. seq \in 1 .. last
    OBVIOUS
  <2>8. CASE seq <= got
    <3>1. seq \in 1 .. got
      BY <2>1, <2>2, <2>7, <2>8
    <3>2. d[seq] = seq /\ seq \in 1 .. Len(d)
      BY <2>3, <3>1
    <3> QED BY <3>2 DEF Elements
  <2>9. CASE seq > got
    <3> HIDE DEF ack, last, q, got
    <3> DEFINE i == seq - ack
    <3>1. i \in 1 .. last - ack /\ ack + i = seq
      BY <2>1, <2>2, <2>3, <2>7, <2>9
    <3> HIDE DEF i
    <3>2. q[i] = seq /\ i \in 1 .. Len(q)
      BY <2>6, <3>1
    <3> QED BY <3>2 DEF Elements, q
  <2> QED BY <2>1, <2>2, <2>7, <2>8, <2>9
<1> QED BY <1>1, LinkSafe, PTL

\* An acknowledgement never goes back, although a later ping may overwrite
\* last_pong_request_seq before it was answered.
THEOREM LinkAckMonotonic == Spec => AckMonotonic
<1>1. LinkInv /\ [Next]_vars => [\A e \in Ends : link'[e].ack >= link[e].ack]_vars
  <2> SUFFICES ASSUME LinkInv, [Next]_vars, NEW e \in Ends
               PROVE  link'[e].ack >= link[e].ack
    OBVIOUS
  <2>1. TypeOK /\ TypeOK' /\ Step /\ \A x \in Ends : Sound(x)
    BY KindOfStep, InvIsSound DEF LinkInv
  <2> DEFINE l == link[e]
             m == link'[e]
  <2>2. l \in LinkState /\ l.ack \in Nat
    BY <2>1, StreamType, LinkFields
  <2>3. ASSUME NEW x \in Ends, Emits(x) \/ Absorbs(x) \/ Hands(x) \/ Dies(x) PROVE m.ack >= l.ack
    <3>1. x = e \/ e = Peer(x)
      BY PeerEnd
    <3>2. CASE e = Peer(x)
      <4>1. Steady(e)
        BY <2>3, <3>2 DEF Emits, Absorbs, Hands, Dies
      <4> QED BY <2>2, <4>1 DEF Steady, SameCounts
    <3>3. CASE x = e /\ Absorbs(x)
      <4> DEFINE s == Stream(Peer(e))
                 p == link[Peer(e)]
                 got == Len(delivered[Peer(e)])
                 lo == l.ack
                 req == p.pong_request
      <4>1. s # <<>> /\ s \in Seq(Packet) /\ Absorbed(l, m, Head(s)) /\ got \in Nat /\ p \in LinkState
        BY <2>1, <3>3, StreamType DEF Absorbs
      <4>2. lo \in Nat /\ req \in Nat \cup {None} /\ Back(s, lo, got, req)
        BY <2>1, <2>2, <4>1, LinkFields DEF Sound, ToldRight
      <4>3. IsPong(Head(s)) => Head(s).seq \in lo .. got
        <5> HIDE DEF s, lo, req, got
        <5> QED BY <4>1, <4>2, BackHead
      <4> HIDE DEF s, l, m
      <4>4. m.ack = lo \/ (IsPong(Head(s)) /\ m.ack = Head(s).seq)
        BY <4>1 DEF Absorbed
      <4>5. CASE m.ack = lo
        BY <2>2, <4>5
      <4>6. CASE IsPong(Head(s)) /\ m.ack = Head(s).seq
        BY <2>2, <4>1, <4>3, <4>6
      <4> QED BY <4>4, <4>5, <4>6
    <3>4. CASE x = e /\ ~Absorbs(x)
      <4>1. m.ack = l.ack
        BY <2>3, <3>4 DEF Emits, Hands, Dies, Emitted, Handed, Gone
      <4> QED BY <2>2, <4>1
    <3> QED BY <3>1, <3>2, <3>3, <3>4
  <2>4. CASE Silent
    BY <2>2, <2>4 DEF Silent, Steady, SameCounts
  <2> QED BY <2>1, <2>3, <2>4 DEF Step
<1> QED BY <1>1, LinkSafe, PTL DEF Spec, AckMonotonic

-----------------------------------------------------------------------------
(* No lost wakeup.                                                         *)

WriteDue(l) == InUse(l) => "write" \in l.sched \/ l.blocked
EdgeDue(l) == l.edge <=> "edge" \notin l.sched
PongDue(l) == l.pong_request # None => "aux" \in l.sched \/ "edge" \in l.sched \/ InUse(l)
RecvDue(l) == l.waiting # None => "recv" \in l.sched
ReadDue(l, w) == l.waiting = None /\ l.recvbuf \o w # <<>> => "read" \in l.sched \/ l.in_event

\* l has a callback due for everything it has to do, w being in the socket.
Woken(l, w) ==
    ~l.timed_out => WriteDue(l) /\ EdgeDue(l) /\ PongDue(l) /\ RecvDue(l) /\ ReadDue(l, w)

LEMMA WokenAll ==
    NoLostWakeup <=> \A e \in Ends : Woken(link[e], wire[Peer(e)])
BY DEF NoLostWakeup, Woken, WriteDue, EdgeDue, PongDue, RecvDue, ReadDue

LEMMA WokenAllNext ==
    NoLostWakeup' <=> \A e \in Ends : Woken(link'[e], wire'[Peer(e)])
BY DEF NoLostWakeup, Woken, WriteDue, EdgeDue, PongDue, RecvDue, ReadDue, InUse

\* The fields that the callbacks depend on are the same but for sched, which
\* may have got more.
Keeps(l, m) ==
    /\ m.sendbuf = l.sendbuf /\ m.edge = l.edge /\ m.pong_request = l.pong_request
    /\ m.recvbuf = l.recvbuf /\ m.waiting = l.waiting /\ m.blocked = l.blocked
    /\ m.in_event = l.in_event /\ (l.timed_out => m.timed_out)
    /\ l.sched \subseteq m.sched /\ ("edge" \in m.sched => "edge" \in l.sched)

LEMMA WokenKeeps ==
    ASSUME NEW l, NEW m, Keeps(l, m), NEW w, Woken(l, w)
    PROVE  Woken(m, w)
BY DEF Woken, Keeps, WriteDue, EdgeDue, PongDue, RecvDue, ReadDue, InUse

LEMMA ScheduleKeeps ==
    ASSUME NEW l \in LinkState, NEW f \in Callbacks \ {"edge"}
    PROVE  Keeps(l, Schedule(l, f)) /\ f \in Schedule(l, f).sched
BY DEF Keeps, Schedule, LinkState

\* m is l after raw_send_packet, but for the contents of the buffer.
Pending(l, m) ==
    /\ InUse(m) /\ "write" \in m.sched
    /\ m.edge = l.edge /\ m.pong_request = l.pong_request
    /\ m.recvbuf = l.recvbuf /\ m.waiting = l.waiting /\ m.blocked = l.blocked
    /\ m.in_event = l.in_event /\ m.timed_out = l.timed_out
    /\ m.sched = l.sched \cup {"write"}

LEMMA RawSendWakes ==
    ASSUME NEW l \in LinkState, NEW kind \in {"data", "ping", "pong"}, NEW seq \in Nat
    PROVE  RawSend(l, kind, seq) \in LinkState /\ Pending(l, RawSend(l, kind, seq))
<1> DEFINE x == [kind |-> kind, seq |-> seq]
           k == [l EXCEPT !.sendbuf = x]
           m == RawSend(l, kind, seq)
<1>1. x \in Packet /\ x # None
  BY NoneAssumption DEF Packet
<1>2. m = [k EXCEPT !.sched = @ \cup {"write"}]
  BY DEF RawSend, Schedule
<1>3. m \in LinkState
  BY RawSendType
<1> HIDE DEF x, m
<1>4. Pending(l, m)
  BY <1>1, <1>2, <1>3 DEF LinkState, InUse, Pending
<1> QED BY <1>3, <1>4 DEF m

\* send_aux makes up for an "aux" or "edge" that was taken.
LEMMA SendAuxWakes ==
    ASSUME NEW l \in LinkState, NEW w,
           ~l.timed_out => WriteDue(l) /\ EdgeDue(l) /\ RecvDue(l) /\ ReadDue(l, w)
    PROVE  Woken(SendAux(l), w)
<1>1. CASE l.sendbuf # None
  <2>1. SendAux(l) = l /\ InUse(l)
    BY <1>1 DEF SendAux, InUse
  <2> QED BY <2>1 DEF Woken, PongDue
<1>2. CASE l.sendbuf = None /\ l.pong_request # None
  <2> DEFINE seq == l.pong_request
             kind == "pong"
             m == RawSend(l, kind, seq)
             o == [m EXCEPT !.pong_request = None]
  <2>1. SendAux(l) = o
    BY <1>2 DEF SendAux
  <2>4. seq \in Nat /\ kind \in {"data", "ping", "pong"} /\ m = RawSend(l, kind, seq)
    BY <1>2, LinkFields
  <2> HIDE DEF kind, seq, m
  <2>2. m \in LinkState /\ Pending(l, m)
    BY <2>4, RawSendWakes
  <2>3. /\ "write" \in o.sched /\ o.pong_request = None
        /\ o.edge = l.edge /\ o.recvbuf = l.recvbuf /\ o.waiting = l.waiting
        /\ o.in_event = l.in_event /\ o.timed_out = l.timed_out /\ o.sched = l.sched \cup {"write"}
    BY <2>2 DEF LinkState, Pending
  <2> HIDE DEF o
  <2> QED BY <2>1, <2>3 DEF Woken, WriteDue, EdgeDue, PongDue, RecvDue, ReadDue
<1>3. CASE l.sendbuf = None /\ l.pong_request = None /\ l.ping_due
  <2> DEFINE seq == l.last_seq_sent
             kind == "ping"
             m == RawSend(l, kind, seq)
             o == [m EXCEPT !.ping_due = FALSE]
  <2>1. SendAux(l) = o
    BY <1>3 DEF SendAux
  <2>4. seq \in Nat /\ kind \in {"data", "ping", "pong"} /\ m = RawSend(l, kind, seq)
    BY <1>3, LinkFields
  <2> HIDE DEF kind, seq, m
  <2>2. m \in LinkState /\ Pending(l, m)
    BY <2>4, RawSendWakes
  <2>3. /\ "write" \in o.sched /\ o.pong_request = None
        /\ o.edge = l.edge /\ o.recvbuf = l.recvbuf /\ o.waiting = l.waiting
        /\ o.in_event = l.in_event /\ o.timed_out = l.timed_out /\ o.sched = l.sched \cup {"write"}
    BY <1>3, <2>2 DEF LinkState, Pending
  <2> HIDE DEF o
  <2> QED BY <2>1, <2>3 DEF Woken, WriteDue, EdgeDue, PongDue, RecvDue, ReadDue
<1>4. CASE l.sendbuf = None /\ l.pong_request = None /\ ~l.ping_due
  <2>1. SendAux(l) = l
    BY <1>4 DEF SendAux
  <2> QED BY <1>4, <2>1 DEF Woken, PongDue
<1> QED BY <1>1, <1>2, <1>3, <1>4

LEMMA SendWakes ==
    ASSUME NEW l \in LinkState, NEW w, Woken(l, w)
    PROVE  Woken(Send(l), w)
<1>1. CASE l.timed_out \/ l.bloat
  BY <1>1 DEF Send
<1>2. CASE ~(l.timed_out \/ l.bloat) /\ InUse(SendAux(l))
  BY <1>2, SendAuxWakes DEF Send, Woken
<1>3. CASE ~(l.timed_out \/ l.bloat) /\ ~InUse(SendAux(l))
  <2> DEFINE seq == l.last_seq_sent + 1
             kind == "data"
             m == RawSend(l, kind, seq)
             o == [m EXCEPT !.last_seq_sent = seq, !.in_flight = Append(@, seq)]
  <2>1. Send(l) = o
    BY <1>3 DEF Send
  <2>4. seq \in Nat /\ kind \in {"data", "ping", "pong"} /\ m = RawSend(l, kind, seq)
    BY <1>3, LinkFields
  <2> HIDE DEF kind, seq, m
  <2>2. m \in LinkState /\ Pending(l, m)
    BY <2>4, RawSendWakes
  <2>3. /\ "write" \in o.sched /\ InUse(o)
        /\ o.edge = l.edge /\ o.recvbuf = l.recvbuf /\ o.waiting = l.waiting
        /\ o.in_event = l.in_event /\ o.timed_out = l.timed_out /\ o.sched = l.sched \cup {"write"}
    BY <2>2 DEF LinkState, InUse, Pending
  <2> HIDE DEF o
  <2> QED BY <2>1, <2>3 DEF Woken, WriteDue, EdgeDue, PongDue, RecvDue, ReadDue
<1> QED BY <1>1, <1>2, <1>3

\* transport_write_ready makes up for a "write" or an edge of epoll.
LEMMA WriteReadyWakes ==
    ASSUME NEW l \in LinkState, NEW w, NEW room \in BOOLEAN,
           ~l.timed_out => EdgeDue(l) /\ PongDue(l) /\ RecvDue(l) /\ ReadDue(l, w)
    PROVE  Woken(WriteReady(l, room), w)
<1>1. CASE l.timed_out
  BY <1>1 DEF WriteReady, Woken
<1>2. CASE ~l.timed_out /\ InUse(l) /\ ~room
  <2> DEFINE m == [l EXCEPT !.blocked = TRUE]
  <2>1. WriteReady(l, room) = m
    BY <1>2 DEF WriteReady
  <2>2. /\ m.blocked /\ m.sendbuf = l.sendbuf
        /\ m.edge = l.edge /\ m.recvbuf = l.recvbuf /\ m.waiting = l.waiting
        /\ m.pong_request = l.pong_request
        /\ m.in_event = l.in_event /\ m.timed_out = l.timed_out /\ m.sched = l.sched
    BY DEF LinkState
  <2> HIDE DEF m
  <2> QED BY <2>1, <2>2 DEF Woken, WriteDue, EdgeDue, PongDue, RecvDue, ReadDue, InUse
<1>3. CASE ~l.timed_out /\ (InUse(l) => room)
  <2> DEFINE k == [l EXCEPT !.sendbuf = None, !.edge = FALSE]
             m == IF l.edge THEN Schedule(k, "edge") ELSE k
  <2>1. WriteReady(l, room) = m
    BY <1>3 DEF WriteReady
  <2>2. /\ k \in LinkState /\ k.sendbuf = None /\ k.edge = FALSE /\ k.recvbuf = l.recvbuf
        /\ k.waiting = l.waiting /\ k.in_event = l.in_event /\ k.timed_out = l.timed_out
        /\ k.sched = l.sched
    BY DEF LinkState
  <2> HIDE DEF k
  <2>3. /\ m.sendbuf = None /\ m.edge = FALSE /\ m.recvbuf = l.recvbuf
        /\ m.waiting = l.waiting /\ m.in_event = l.in_event /\ m.timed_out = l.timed_out
        /\ m.sched = IF l.edge THEN l.sched \cup {"edge"} ELSE l.sched
    BY <2>2 DEF LinkState, Schedule
  <2> HIDE DEF m
  <2>4. "edge" \in m.sched /\ l.sched \subseteq m.sched
    BY <1>3, <2>3 DEF EdgeDue
  <2> QED BY <1>3, <2>1, <2>3, <2>4 DEF Woken, WriteDue, EdgeDue, PongDue, RecvDue, ReadDue, InUse
<1> QED BY <1>1, <1>2, <1>3

\* What the removal of a callback leaves.
LEMMA TakenWakes ==
    ASSUME TypeOK, NEW e \in Ends, NEW w, Woken(link[e], w), NEW f
    PROVE  LET l == Taken(e, f) IN
           ~l.timed_out =>
              /\ f # "write" => WriteDue(l)
              /\ f # "edge" => EdgeDue(l)
              /\ f # "aux" /\ f # "edge" => PongDue(l)
              /\ f # "recv" \/ l.waiting = None => RecvDue(l)
              /\ f # "read" => ReadDue(l, w)
<1> DEFINE k == link[e]
           l == Taken(e, f)
<1>1. k \in LinkState
  BY LinkBuffers
<1>2. l = [k EXCEPT !.sched = @ \ {f}]
  BY DEF Taken
<1>3. Woken(k, w)
  OBVIOUS
<1> HIDE DEF k, l
<1>4. /\ l.sendbuf = k.sendbuf /\ l.edge = k.edge /\ l.pong_request = k.pong_request
      /\ l.recvbuf = k.recvbuf /\ l.waiting = k.waiting /\ l.blocked = k.blocked
      /\ l.in_event = k.in_event /\ l.timed_out = k.timed_out /\ l.sched = k.sched \ {f}
  BY <1>1, <1>2 DEF LinkState
<1>5. ~l.timed_out =>
              /\ f # "write" => WriteDue(l)
              /\ f # "edge" => EdgeDue(l)
              /\ f # "aux" /\ f # "edge" => PongDue(l)
              /\ f # "recv" \/ l.waiting = None => RecvDue(l)
              /\ f # "read" => ReadDue(l, w)
  BY <1>3, <1>4 DEF Woken, WriteDue, EdgeDue, PongDue, RecvDue, ReadDue, InUse
<1> QED BY <1>5 DEF l

LEMMA LocalWakes ==
    ASSUME TypeOK, NoLostWakeup, NEW e \in Ends, NEW m, link' = [link EXCEPT ![e] = m], wire' = wire,
           Woken(m, wire[Peer(e)])
    PROVE  NoLostWakeup'
<1>1. link \in [Ends -> LinkState]
  BY DEF TypeOK
<1>2. link'[e] = m /\ \A x \in Ends : x # e => link'[x] = link[x]
  BY <1>1
<1>3. \A x \in Ends : Woken(link[x], wire[Peer(x)])
  BY WokenAll
<1>4. \A x \in Ends : Woken(link'[x], wire'[Peer(x)])
  BY <1>2, <1>3
<1> QED BY <1>4, WokenAllNext

LEMMA LinkSendReadyWakes ==
    ASSUME TypeOK, NoLostWakeup, NEW e \in Ends, NEW l \in LinkState, Woken(l, wire[Peer(e)]),
           LinkSendReady(e, l), wire' = wire
    PROVE  NoLostWakeup'
<1>1. CASE l.timed_out
  <2>1. Destroyed(l).timed_out
    BY DEF Destroyed, NewLink
  <2>2. Woken(Destroyed(l), wire[Peer(e)]) /\ link' = [link EXCEPT ![e] = Destroyed(l)]
    BY <1>1, <2>1 DEF Woken, LinkSendReady
  <2> QED BY <2>2, LocalWakes
<1>2. CASE ~l.timed_out /\ todo[e] = 0
  <2>1. link' = [link EXCEPT ![e] = l]
    BY <1>2 DEF LinkSendReady
  <2> QED BY <2>1, LocalWakes
<1>3. CASE ~l.timed_out /\ todo[e] # 0
  <2>1. link' = [link EXCEPT ![e] = Send(l)]
    BY <1>3 DEF LinkSendReady
  <2>2. Woken(Send(l), wire[Peer(e)])
    BY SendWakes
  <2> QED BY <2>1, <2>2, LocalWakes
<1> QED BY <1>1, <1>2, <1>3

LEMMA OnSendReadyWakes ==
    ASSUME TypeOK, NoLostWakeup, NEW e \in Ends, OnSendReady(e)
    PROVE  NoLostWakeup'
<1> DEFINE f == "ready"
           l == Taken(e, f)
           w == wire[Peer(e)]
<1>1. l \in LinkState /\ LinkSendReady(e, l) /\ wire' = wire
  BY TakenType DEF OnSendReady
<1>2. Woken(link[e], w)
  BY WokenAll
<1>3. f \notin {"write", "edge", "aux", "recv", "read"}
  OBVIOUS
<1> HIDE DEF f
<1>4. Woken(l, w)
  BY <1>2, <1>3, TakenWakes DEF Woken
<1> HIDE DEF l
<1> QED BY <1>1, <1>4, LinkSendReadyWakes

LEMMA OnSendReadyEdgeWakes ==
    ASSUME TypeOK, NoLostWakeup, NEW e \in Ends, OnSendReadyEdge(e)
    PROVE  NoLostWakeup'
<1> DEFINE f == "edge"
           j == Taken(e, f)
           k == [j EXCEPT !.edge = TRUE]
           l == SendAux(k)
           w == wire[Peer(e)]
<1>1. j \in LinkState /\ j.sched = link[e].sched \ {"edge"}
  BY TakenType, LinkBuffers, ZenonT(30) DEF Taken, LinkState
<1>2. Woken(link[e], w)
  BY WokenAll
<1>3. ~j.timed_out => WriteDue(j) /\ RecvDue(j) /\ ReadDue(j, w)
  <2>1. f = "edge"
    OBVIOUS
  <2> HIDE DEF f
  <2> QED BY <1>2, <2>1, TakenWakes
<1>4. /\ wire' = wire
      /\ \/ link' = [link EXCEPT ![e] = l]
         \/ LinkSendReady(e, l)
  BY DEF OnSendReadyEdge
<1> HIDE DEF j
<1>5. /\ k \in LinkState /\ k.edge = TRUE /\ k.sched = j.sched /\ k.timed_out = j.timed_out
      /\ k.sendbuf = j.sendbuf /\ k.blocked = j.blocked /\ k.waiting = j.waiting
      /\ k.recvbuf = j.recvbuf /\ k.in_event = j.in_event
  BY <1>1 DEF LinkState
<1> HIDE DEF k
<1>6. ~k.timed_out => WriteDue(k) /\ EdgeDue(k) /\ RecvDue(k) /\ ReadDue(k, w)
  BY <1>1, <1>3, <1>5 DEF WriteDue, EdgeDue, RecvDue, ReadDue, InUse
<1>7. l \in LinkState /\ Woken(l, w)
  <2> HIDE DEF w
  <2> QED BY <1>5, <1>6, SendAuxWakes, SendAuxType
<1> HIDE DEF l
<1> QED BY <1>4, <1>7, LocalWakes, LinkSendReadyWakes

LEMMA TimerCallbackWakes ==
    ASSUME TypeOK, NoLostWakeup, NEW e \in Ends, TimerCallback(e)
    PROVE  NoLostWakeup'
<1> DEFINE k == link[e]
           l == SendAux(k)
           w == wire[Peer(e)]
           o == [l EXCEPT !.timed_out = TRUE]
<1>1. k \in LinkState /\ Woken(k, w) /\ wire' = wire
  BY LinkBuffers, WokenAll DEF TimerCallback
<1>2. PICK m \in MaybeRetransmit(e, l) : link' = [link EXCEPT ![e] = m]
  BY DEF TimerCallback
<1>3. m = l \/ m = Schedule(o, "ready")
  BY <1>2 DEF MaybeRetransmit
<1> HIDE DEF k, w
<1>4. l \in LinkState /\ Woken(l, w)
  BY <1>1, SendAuxType, SendAuxWakes DEF Woken
<1> HIDE DEF l
<1>5. m = l \/ m.timed_out
  BY <1>3, <1>4 DEF Schedule, LinkState
<1>6. Woken(m, w)
  BY <1>4, <1>5 DEF Woken
<1> QED BY <1>1, <1>2, <1>6, LocalWakes DEF w

LEMMA ScheduledAuxWakes ==
    ASSUME TypeOK, NoLostWakeup, NEW e \in Ends, ScheduledAux(e)
    PROVE  NoLostWakeup'
<1> DEFINE f == "aux"
           l == Taken(e, f)
           w == wire[Peer(e)]
<1>1. l \in LinkState /\ link' = [link EXCEPT ![e] = SendAux(l)] /\ wire' = wire
  BY TakenType DEF ScheduledAux
<1>2. Woken(link[e], w)
  BY WokenAll
<1>3. f = "aux"
  OBVIOUS
<1> HIDE DEF f
<1>4. ~l.timed_out => WriteDue(l) /\ EdgeDue(l) /\ RecvDue(l) /\ ReadDue(l, w)
  BY <1>2, <1>3, TakenWakes
<1> HIDE DEF l
<1>5. Woken(SendAux(l), w)
  <2> HIDE DEF w
  <2> QED BY <1>1, <1>4, SendAuxWakes
<1> QED BY <1>1, <1>5, LocalWakes

LEMMA AssignWakes ==
    ASSUME TypeOK, NoLostWakeup, NEW e \in Ends, NEW wake \in BOOLEAN, Assign(e, wake)
    PROVE  NoLostWakeup'
<1> DEFINE l == link[e]
           m == IF wake THEN Schedule(l, "ready") ELSE l
           w == wire[Peer(e)]
<1>1. l \in LinkState /\ Woken(l, w)
  BY LinkBuffers, WokenAll
<1>2. link' = [link EXCEPT ![e] = m] /\ wire' = wire
  BY DEF Assign, TypeOK
<1>3. "ready" \in Callbacks \ {"edge"}
  BY DEF Callbacks
<1> HIDE DEF l, w
<1>4. Keeps(l, Schedule(l, "ready"))
  BY <1>1, <1>3, ScheduleKeeps
<1>5. Woken(m, w)
  BY <1>1, <1>4, WokenKeeps
<1> HIDE DEF m
<1> QED BY <1>2, <1>5, LocalWakes DEF w

LEMMA PingIntervalWakes ==
    ASSUME TypeOK, NoLostWakeup, NEW e \in Ends, PingInterval(e)
    PROVE  NoLostWakeup'
<1> DEFINE l == link[e]
           m == [l EXCEPT !.ping_due = TRUE]
           w == wire[Peer(e)]
<1>1. l \in LinkState /\ Woken(l, w)
  BY LinkBuffers, WokenAll
<1>2. link' = [link EXCEPT ![e] = m] /\ wire' = wire
  BY DEF PingInterval, TypeOK
<1> HIDE DEF l, w
<1>3. Keeps(l, m)
  BY <1>1 DEF Keeps, LinkState
<1>4. Woken(m, w)
  BY <1>1, <1>3, WokenKeeps
<1> HIDE DEF m
<1> QED BY <1>2, <1>4, LocalWakes DEF w

\* Reading resumes when the packet that waited is gone.
LEMMA LinkRecvWakes ==
    ASSUME TypeOK, NoLostWakeup, NEW e \in Ends, NEW l \in LinkState, LinkRecv(e, l), wire' = wire,
           ~l.timed_out => /\ WriteDue(l) /\ EdgeDue(l) /\ PongDue(l) /\ ReadDue(l, wire[Peer(e)])
                           /\ l.waiting = None => RecvDue(l)
    PROVE  NoLostWakeup'
<1> DEFINE w == wire[Peer(e)]
<1>1. CASE l.waiting # None /\ ~l.timed_out
  <2> DEFINE k == [l EXCEPT !.waiting = None]
             m == Schedule(k, "read")
  <2>1. link' = [link EXCEPT ![e] = m]
    BY <1>1 DEF LinkRecv
  <2>2. /\ m.waiting = None /\ m.sched = l.sched \cup {"read"} /\ m.sendbuf = l.sendbuf
        /\ m.blocked = l.blocked /\ m.edge = l.edge /\ m.pong_request = l.pong_request
    BY DEF Schedule, LinkState
  <2> HIDE DEF m
  <2>3. Woken(m, w)
    BY <1>1, <2>2 DEF Woken, WriteDue, EdgeDue, PongDue, RecvDue, ReadDue, InUse
  <2> QED BY <2>1, <2>3, LocalWakes
<1>2. CASE ~(l.waiting # None /\ ~l.timed_out)
  <2>1. link' = [link EXCEPT ![e] = l]
    BY <1>2 DEF LinkRecv
  <2>2. Woken(l, w)
    BY <1>2 DEF Woken
  <2> QED BY <2>1, <2>2, LocalWakes
<1> QED BY <1>1, <1>2

LEMMA OnRecvReadyWakes ==
    ASSUME TypeOK, NoLostWakeup, NEW e \in Ends, OnRecvReady(e)
    PROVE  NoLostWakeup'
<1> DEFINE f == "recv"
           l == Taken(e, f)
           w == wire[Peer(e)]
<1>1. l \in LinkState /\ LinkRecv(e, l) /\ wire' = wire
  BY TakenType DEF OnRecvReady
<1>2. Woken(link[e], w)
  BY WokenAll
<1>3. f = "recv"
  OBVIOUS
<1> HIDE DEF f
<1>4. ~l.timed_out => /\ WriteDue(l) /\ EdgeDue(l) /\ PongDue(l) /\ ReadDue(l, w)
                      /\ l.waiting = None => RecvDue(l)
  BY <1>2, <1>3, TakenWakes
<1> HIDE DEF l
<1> QED BY <1>1, <1>4, LinkRecvWakes

LEMMA RecvForOtherLinkWakes ==
    ASSUME TypeOK, NoLostWakeup, NEW e \in Ends, RecvForOtherLink(e)
    PROVE  NoLostWakeup'
<1> DEFINE l == link[e]
           w == wire[Peer(e)]
<1>1. l \in LinkState /\ LinkRecv(e, l) /\ wire' = wire /\ Woken(l, w)
  BY LinkBuffers, WokenAll DEF RecvForOtherLink
<1> HIDE DEF l
<1> QED BY <1>1, LinkRecvWakes DEF Woken

\* Data that is written is an event for the peer.
LEMMA TransportWriteReadyWakes ==
    ASSUME TypeOK, NoLostWakeup, NEW e \in Ends, NEW l \in LinkState, TransportWriteReady(e, l),
           ~l.timed_out => /\ EdgeDue(l) /\ PongDue(l) /\ RecvDue(l) /\ ReadDue(l, wire[Peer(e)])
    PROVE  NoLostWakeup'
<1> DEFINE p == Peer(e)
           room == Room(e)
           m == WriteReady(l, room)
           wrote == InUse(l) /\ ~InUse(m)
           c == link[p].in_event \/ (wrote /\ Alive(p))
           k == link[p]
           o == [k EXCEPT !.in_event = c]
<1>1. p \in Ends /\ p # e /\ Peer(p) = e /\ \A x \in Ends : x = e \/ x = p
  BY PeerEnd
<1>2. link \in [Ends -> LinkState] /\ wire \in [Ends -> Seq(Packet)] /\ k \in LinkState
  BY LinkBuffers DEF TypeOK
<1>3. Woken(k, wire[e])
  BY <1>1, WokenAll
<1>4. room \in BOOLEAN /\ (room => Alive(p))
  BY DEF Room, Alive
<1>5. /\ link' = [link EXCEPT ![e] = m, ![p].in_event = @ \/ (wrote /\ Alive(p))]
      /\ wire' = [wire EXCEPT ![e] = IF wrote THEN Append(@, l.sendbuf) ELSE @]
  BY DEF TransportWriteReady
<1> HIDE DEF room
<1>6. Woken(m, wire[p])
  <2> DEFINE w == wire[p]
  <2>1. ~l.timed_out => EdgeDue(l) /\ PongDue(l) /\ RecvDue(l) /\ ReadDue(l, w)
    OBVIOUS
  <2> HIDE DEF w
  <2>2. Woken(WriteReady(l, room), w)
    BY <1>4, <2>1, WriteReadyWakes
  <2> QED BY <2>2 DEF w
<1>7. wrote => room
  <2>1. m.sendbuf # l.sendbuf => room
    BY <1>4, WriteReadyType
  <2> QED BY <2>1 DEF InUse
<1> HIDE DEF m, wrote
<1>8. link'[e] = m /\ link'[p] = o
  <2> HIDE DEF o
  <2> QED BY <1>1, <1>2, <1>5 DEF o
<1>9. wire'[p] = wire[p] /\ (~wrote => wire'[e] = wire[e])
  BY <1>1, <1>2, <1>5
<1>10. Woken(o, wire'[e])
  <2>1. /\ o.timed_out = k.timed_out /\ o.sendbuf = k.sendbuf /\ o.blocked = k.blocked
        /\ o.edge = k.edge /\ o.pong_request = k.pong_request /\ o.waiting = k.waiting
        /\ o.recvbuf = k.recvbuf /\ o.sched = k.sched /\ o.in_event = c
    <3> HIDE DEF c, k
    <3> QED BY <1>2 DEF LinkState
  <2> DEFINE v == wire[e]
             w == wire'[e]
  <2>2. c \/ (c = k.in_event /\ w = v)
    <3>1. CASE wrote
      BY <1>4, <1>7, <3>1
    <3>2. CASE ~wrote
      BY <1>2, <1>9, <3>2, LinkFields
    <3> QED BY <3>1, <3>2
  <2> HIDE DEF o, c, v, w, k
  <2>3. Woken(k, v)
    BY <1>3 DEF v
  <2>4. ReadDue(o, w) \/ k.timed_out \/ ~ReadDue(k, v)
    BY <2>1, <2>2 DEF ReadDue
  <2>5. Woken(o, w)
    BY <2>1, <2>3, <2>4 DEF Woken, WriteDue, EdgeDue, PongDue, RecvDue, InUse
  <2> QED BY <2>5 DEF w
<1>11. \A x \in Ends : Woken(link'[x], wire'[Peer(x)])
  <2> HIDE DEF o, p
  <2> QED BY <1>1, <1>6, <1>8, <1>9, <1>10 DEF p
<1> QED BY <1>11, WokenAllNext

LEMMA ScheduledWriteWakes ==
    ASSUME TypeOK, NoLostWakeup, NEW e \in Ends, ScheduledWrite(e)
    PROVE  NoLostWakeup'
<1> DEFINE f == "write"
           l == Taken(e, f)
           w == wire[Peer(e)]
<1>1. l \in LinkState /\ TransportWriteReady(e, l)
  BY TakenType DEF ScheduledWrite
<1>2. Woken(link[e], w)
  BY WokenAll
<1>3. f = "write"
  OBVIOUS
<1> HIDE DEF f
<1>4. ~l.timed_out => EdgeDue(l) /\ PongDue(l) /\ (l.waiting = None => RecvDue(l))
                      /\ RecvDue(l) /\ ReadDue(l, w)
  BY <1>2, <1>3, TakenWakes
<1> HIDE DEF l
<1> QED BY <1>1, <1>4, TransportWriteReadyWakes

LEMMA EpollWriteWakes ==
    ASSUME TypeOK, NoLostWakeup, NEW e \in Ends, EpollWrite(e)
    PROVE  NoLostWakeup'
<1> DEFINE k == link[e]
           l == [k EXCEPT !.blocked = FALSE]
           w == wire[Peer(e)]
<1>1. TransportWriteReady(e, l) /\ k \in LinkState /\ Woken(k, w)
  BY LinkBuffers, WokenAll DEF EpollWrite
<1> HIDE DEF k, w
<1>2. /\ l \in LinkState /\ l.timed_out = k.timed_out /\ l.sendbuf = k.sendbuf
      /\ l.edge = k.edge /\ l.pong_request = k.pong_request /\ l.waiting = k.waiting
      /\ l.recvbuf = k.recvbuf /\ l.sched = k.sched /\ l.in_event = k.in_event
  BY <1>1 DEF LinkState
<1> HIDE DEF l
<1>3. ~l.timed_out => EdgeDue(l) /\ PongDue(l) /\ RecvDue(l) /\ ReadDue(l, w)
  BY <1>1, <1>2 DEF Woken, EdgeDue, PongDue, RecvDue, ReadDue, InUse
<1> QED BY <1>1, <1>2, <1>3, TransportWriteReadyWakes DEF w

\* What the link parses wakes up whoever has to deal with it.
LEMMA ParseWakes ==
    ASSUME NEW l \in LinkState, ~l.timed_out => WriteDue(l) /\ EdgeDue(l) /\ PongDue(l),
           l.waiting = None, NEW x \in Packet, NEW m \in Parse(l, x)
    PROVE  ~m.timed_out => WriteDue(m) /\ EdgeDue(m) /\ PongDue(m) /\ RecvDue(m)
<1> DEFINE seq == x.seq
<1>1. seq \in Nat /\ x.kind \in {"data", "ping", "pong"}
  BY PacketFields
<1>2. CASE x.kind = "data"
  <2>1. m = Schedule([l EXCEPT !.waiting = seq], "recv")
    BY <1>2 DEF Parse
  <2> HIDE DEF seq
  <2>2. /\ m.timed_out = l.timed_out /\ m.sendbuf = l.sendbuf /\ m.blocked = l.blocked
        /\ m.edge = l.edge /\ m.pong_request = l.pong_request /\ m.sched = l.sched \cup {"recv"}
    BY <2>1 DEF Schedule, LinkState
  <2> QED BY <2>2 DEF WriteDue, EdgeDue, PongDue, RecvDue, InUse
<1>3. CASE x.kind = "ping"
  <2>1. m = Schedule([l EXCEPT !.pong_request = seq], "aux")
    BY <1>3 DEF Parse
  <2> HIDE DEF seq
  <2>2. /\ m.timed_out = l.timed_out /\ m.sendbuf = l.sendbuf /\ m.blocked = l.blocked
        /\ m.edge = l.edge /\ m.waiting = None /\ m.sched = l.sched \cup {"aux"}
    BY <2>1 DEF Schedule, LinkState
  <2> QED BY <2>2 DEF WriteDue, EdgeDue, PongDue, RecvDue, InUse
<1>4. CASE x.kind = "pong"
  <2>1. m \in Pong(l, seq)
    BY <1>4 DEF Parse
  <2>2. PICK rtt \in RoundTrips :
            m = [BufferbloatCheck(l, rtt) EXCEPT !.ack = seq, !.in_flight = Flushed(@, seq)]
    BY <2>1 DEF Pong
  <2> DEFINE k == BufferbloatCheck(l, rtt)
             on == [l EXCEPT !.bloat = TRUE]
             off == [l EXCEPT !.bloat = FALSE]
  <2>3. k \in {Schedule(off, "ready"), on, l}
    <3>1. CASE l.bloat /\ rtt = "low"
      BY <3>1 DEF BufferbloatCheck
    <3>2. CASE ~l.bloat /\ rtt = "high"
      BY <3>2 DEF BufferbloatCheck
    <3>3. CASE ~(l.bloat /\ rtt = "low") /\ ~(~l.bloat /\ rtt = "high")
      BY <3>3 DEF BufferbloatCheck
    <3> QED BY <3>1, <3>2, <3>3
  <2>4. k \in LinkState
    BY BufferbloatCheckType
  <2> HIDE DEF k
  <2>5. /\ k.timed_out = l.timed_out /\ k.sendbuf = l.sendbuf /\ k.blocked = l.blocked
        /\ k.edge = l.edge /\ k.waiting = None /\ k.pong_request = l.pong_request
        /\ k.sched = l.sched \/ k.sched = l.sched \cup {"ready"}
    BY <2>3 DEF Schedule, LinkState
  <2>6. /\ m.timed_out = k.timed_out /\ m.sendbuf = k.sendbuf /\ m.blocked = k.blocked
        /\ m.edge = k.edge /\ m.waiting = k.waiting /\ m.pong_request = k.pong_request
        /\ m.sched = k.sched
    BY <2>2, <2>4 DEF LinkState, k
  <2> HIDE DEF seq
  <2> QED BY <2>5, <2>6 DEF WriteDue, EdgeDue, PongDue, RecvDue, InUse
<1> QED BY <1>1, <1>2, <1>3, <1>4

\* The handler leaves an event behind whenever it could go on.
LEMMA MoreWakes ==
    ASSUME NEW m \in LinkState, NEW w, NEW o, o = [m EXCEPT !.in_event = More(m, w)],
           ~m.timed_out => WriteDue(m) /\ EdgeDue(m) /\ PongDue(m) /\ RecvDue(m)
    PROVE  Woken(o, w)
<1> DEFINE c == More(m, w)
<1>1. o = [m EXCEPT !.in_event = c] /\ c \in BOOLEAN
  BY DEF More
<1>2. m.waiting = None => (c <=> m.recvbuf \o w # <<>>)
  BY DEF More
<1> HIDE DEF c
<1>3. /\ o.timed_out = m.timed_out /\ o.sendbuf = m.sendbuf /\ o.blocked = m.blocked
      /\ o.edge = m.edge /\ o.waiting = m.waiting /\ o.pong_request = m.pong_request
      /\ o.sched = m.sched /\ o.recvbuf = m.recvbuf /\ o.in_event = c
  BY <1>1 DEF LinkState
<1>4. ReadDue(o, w)
  BY <1>2, <1>3 DEF ReadDue
<1> QED BY <1>3, <1>4 DEF Woken, WriteDue, EdgeDue, PongDue, RecvDue, InUse

LEMMA ReadParseWakes ==
    ASSUME TypeOK, \A x \in Ends : Sound(x), NEW e \in Ends, NEW l \in LinkState, SameCounts(link[e], l),
           l.waiting = None, ~l.timed_out => WriteDue(l) /\ EdgeDue(l) /\ PongDue(l),
           Stream(Peer(e)) # <<>>, NEW m \in Parse(l, Head(Stream(Peer(e)))), NEW w
    PROVE  Woken([m EXCEPT !.in_event = More(m, w)], w)
<1> DEFINE x == Head(Stream(Peer(e)))
<1>1. x \in Packet
  BY StreamType, TailEntries
<1>2. IsPong(x) => Flushed(l.in_flight, x.seq) \in Seq(Nat)
  BY PongInFlight DEF SameCounts
<1>3. m \in Parse(l, x)
  OBVIOUS
<1> HIDE DEF x
<1>4. m \in LinkState
  BY <1>1, <1>2, <1>3, ParseType
<1>5. ~m.timed_out => WriteDue(m) /\ EdgeDue(m) /\ PongDue(m) /\ RecvDue(m)
  BY <1>1, <1>3, ParseWakes
<1> QED BY <1>4, <1>5, MoreWakes

LEMMA TransportReadReadyWakes ==
    ASSUME TypeOK, NoLostWakeup, \A x \in Ends : Sound(x), NEW e \in Ends,
           NEW l \in LinkState, Same(link[e], l), TransportReadReady(e, l),
           ~l.timed_out => WriteDue(l) /\ EdgeDue(l) /\ PongDue(l) /\ RecvDue(l)
    PROVE  NoLostWakeup'
<1> DEFINE p == Peer(e)
           a == l.recvbuf
           b == wire[p]
           f == link[p].sendbuf
<1>1. p \in Ends /\ p # e /\ Peer(p) = e /\ \A x \in Ends : x = e \/ x = p
  BY PeerEnd
<1>2. /\ a \in Seq(Packet) /\ b \in Seq(Packet) /\ f \in Packet \cup {None}
      /\ Stream(p) = Joined(a, b, f) /\ wire \in [Ends -> Seq(Packet)]
      /\ link \in [Ends -> LinkState]
  BY LinkBuffers DEF TypeOK, Same
<1>3. Woken(link[p], wire[e])
  BY <1>1, WokenAll
\* The peer is not concerned: what it reads stays as it is.
<1>4. ASSUME NEW m, NEW w, link' = [link EXCEPT ![e] = m], wire' = [wire EXCEPT ![p] = w], Woken(m, w)
      PROVE  NoLostWakeup'
  <2>1. link'[e] = m /\ link'[p] = link[p] /\ wire'[p] = w /\ wire'[e] = wire[e]
    BY <1>1, <1>2, <1>4
  <2>2. Woken(link'[e], wire'[p]) /\ Woken(link'[p], wire'[e])
    BY <1>3, <1>4, <2>1
  <2>3. \A x \in Ends : Woken(link'[x], wire'[Peer(x)])
    BY <1>1, <2>2
  <2> QED BY <2>3, WokenAllNext
<1>5. CASE /\ ~l.timed_out /\ l.waiting = None /\ a # <<>>
           /\ \E m \in Parse([l EXCEPT !.recvbuf = Tail(@)], Head(a)) :
                 link' = [link EXCEPT ![e] = [m EXCEPT !.in_event = More(m, b)]]
           /\ UNCHANGED wire
  <2> DEFINE r == Tail(a)
             k == [l EXCEPT !.recvbuf = r]
  <2>1. r \in Seq(Packet)
    BY <1>2, <1>5, TailEntries
  <2>2. [l EXCEPT !.recvbuf = Tail(@)] = k
    OBVIOUS
  <2>3. PICK m \in Parse(k, Head(a)) : link' = [link EXCEPT ![e] = [m EXCEPT !.in_event = More(m, b)]]
    BY <1>5, <2>2
  <2>4. /\ k \in LinkState /\ k.waiting = None /\ SameCounts(link[e], k)
        /\ ~k.timed_out => WriteDue(k) /\ EdgeDue(k) /\ PongDue(k)
    <3> HIDE DEF r
    <3>1. k.waiting = l.waiting /\ k.sendbuf = l.sendbuf /\ k.timed_out = l.timed_out
          /\ k.sched = l.sched /\ k.blocked = l.blocked /\ k.edge = l.edge /\ k.pong_request = l.pong_request
      BY DEF LinkState
    <3>2. k \in LinkState
      BY <2>1 DEF LinkState
    <3>3. SameCounts(link[e], k)
      BY DEF LinkState, Same, SameCounts
    <3> HIDE DEF k
    <3> QED BY <1>5, <3>1, <3>2, <3>3 DEF WriteDue, EdgeDue, PongDue, InUse
  <2>5. Stream(p) # <<>> /\ Head(Stream(p)) = Head(a)
    <3> HIDE DEF a, b, f
    <3>1. /\ a \in Seq(Packet) /\ b \in Seq(Packet) /\ f \in Packet \cup {None}
          /\ a # <<>> /\ Stream(p) = Joined(a, b, f)
      BY <1>2, <1>5
    <3>2. /\ Joined(a, b, f) # <<>> /\ Head(Joined(a, b, f)) = Head(a)
          /\ Joined(Tail(a), b, f) = Tail(Joined(a, b, f))
      BY <3>1, JoinedRead, Zenon
    <3> QED BY <3>1, <3>2
  <2>6. wire' = [wire EXCEPT ![p] = b]
    BY <1>2, <1>5
  <2>7. m \in Parse(k, Head(Stream(p)))
    BY <2>5
  <2> HIDE DEF k, a, b
  <2>8. Woken([m EXCEPT !.in_event = More(m, b)], b)
    BY <2>4, <2>5, <2>7, ReadParseWakes
  <2> QED BY <1>4, <2>3, <2>6, <2>8
<1>6. CASE /\ ~l.timed_out /\ l.waiting = None /\ a = <<>> /\ b # <<>>
           /\ \E m \in Parse(l, Head(b)) :
                 link' = [link EXCEPT ![e] = [m EXCEPT !.in_event = More(m, Tail(b))]]
           /\ wire' = [wire EXCEPT ![p] = Tail(@)]
  <2> DEFINE r == Tail(b)
  <2>1. PICK m \in Parse(l, Head(b)) : link' = [link EXCEPT ![e] = [m EXCEPT !.in_event = More(m, r)]]
    BY <1>6
  <2>2. Stream(p) # <<>> /\ Head(Stream(p)) = Head(b)
    <3>1. a = <<>> /\ b # <<>>
      BY <1>6
    <3>2. a \in Seq(Packet) /\ b \in Seq(Packet) /\ f \in Packet \cup {None}
      BY <1>2
    <3> HIDE DEF a, b, f
    <3>3. Joined(a, b, f) # <<>> /\ Head(Joined(a, b, f)) = Head(b)
      BY <3>1, <3>2, JoinedRead, ZenonT(30)
    <3> QED BY <1>2, <3>3
  <2>3. wire' = [wire EXCEPT ![p] = r]
    BY <1>2, <1>6
  <2>4. m \in Parse(l, Head(Stream(p)))
    BY <2>2
  <2>5. SameCounts(link[e], l) /\ l.waiting = None
    BY <1>6 DEF Same
  <2> HIDE DEF r, b
  <2>6. Woken([m EXCEPT !.in_event = More(m, r)], r)
    BY <2>2, <2>4, <2>5, ReadParseWakes
  <2> QED BY <1>4, <2>1, <2>3, <2>6
<1>7. CASE /\ ~l.timed_out /\ l.waiting # None /\ More(l, b)
           /\ link' = [link EXCEPT ![e] = [[l EXCEPT !.recvbuf = Append(@, Head(b))]
                                              EXCEPT !.in_event = More([l EXCEPT !.recvbuf = Append(@, Head(b))], Tail(b))]]
           /\ wire' = [wire EXCEPT ![p] = Tail(@)]
  <2> DEFINE r == Tail(b)
             d == Append(a, Head(b))
             k == [l EXCEPT !.recvbuf = d]
             o == [k EXCEPT !.in_event = More(k, r)]
  <2>1. b # <<>>
    BY <1>7 DEF More
  <2>2. d \in Seq(Packet)
    BY <1>2, <2>1, TailEntries, AppendEntries
  <2>3. link' = [link EXCEPT ![e] = o] /\ wire' = [wire EXCEPT ![p] = r]
    BY <1>2, <1>7
  <2>4. /\ k \in LinkState /\ k.waiting = l.waiting /\ k.sendbuf = l.sendbuf /\ k.timed_out = l.timed_out
        /\ k.sched = l.sched /\ k.blocked = l.blocked /\ k.edge = l.edge /\ k.pong_request = l.pong_request
    <3> HIDE DEF d
    <3> QED BY <2>2 DEF LinkState
  <2> HIDE DEF k, r
  <2>5. ~k.timed_out => WriteDue(k) /\ EdgeDue(k) /\ PongDue(k) /\ RecvDue(k)
    BY <2>4 DEF WriteDue, EdgeDue, PongDue, RecvDue, InUse
  <2>6. Woken(o, r)
    BY <2>4, <2>5, MoreWakes
  <2> HIDE DEF o
  <2> QED BY <1>4, <2>3, <2>6
<1>8. CASE /\ l.timed_out \/ ~More(l, b)
           /\ link' = [link EXCEPT ![e] = [l EXCEPT !.in_event = FALSE]]
           /\ UNCHANGED wire
  <2> DEFINE m == [l EXCEPT !.in_event = FALSE]
  <2>1. wire' = [wire EXCEPT ![p] = b]
    BY <1>2, <1>8
  <2>2. /\ m.waiting = l.waiting /\ m.sendbuf = l.sendbuf /\ m.timed_out = l.timed_out
        /\ m.sched = l.sched /\ m.blocked = l.blocked /\ m.edge = l.edge
        /\ m.pong_request = l.pong_request /\ m.recvbuf = l.recvbuf
    BY DEF LinkState
  <2>3. link' = [link EXCEPT ![e] = m]
    BY <1>8
  <2> HIDE DEF m, b
  <2>4. ~m.timed_out => m.recvbuf \o b = <<>> \/ m.waiting # None
    BY <1>8, <2>2 DEF More
  <2>5. Woken(m, b)
    BY <2>2, <2>4 DEF Woken, WriteDue, EdgeDue, PongDue, RecvDue, ReadDue, InUse
  <2> QED BY <1>4, <2>1, <2>3, <2>5
<1> QED BY <1>5, <1>6, <1>7, <1>8 DEF TransportReadReady

LEMMA ScheduledReadWakes ==
    ASSUME TypeOK, NoLostWakeup, \A x \in Ends : Sound(x), NEW e \in Ends, ScheduledRead(e)
    PROVE  NoLostWakeup'
<1> DEFINE f == "read"
           l == Taken(e, f)
           w == wire[Peer(e)]
<1>1. l \in LinkState /\ Same(link[e], l) /\ TransportReadReady(e, l)
  BY TakenType DEF ScheduledRead
<1>2. Woken(link[e], w)
  BY WokenAll
<1>3. f = "read"
  OBVIOUS
<1> HIDE DEF f
<1>4. ~l.timed_out => WriteDue(l) /\ EdgeDue(l) /\ PongDue(l) /\ RecvDue(l)
  BY <1>2, <1>3, TakenWakes
<1> HIDE DEF l
<1> QED BY <1>1, <1>4, TransportReadReadyWakes

LEMMA EpollReadWakes ==
    ASSUME TypeOK, NoLostWakeup, \A x \in Ends : Sound(x), NEW e \in Ends, EpollRead(e)
    PROVE  NoLostWakeup'
<1> DEFINE l == link[e]
<1>1. l \in LinkState /\ Same(link[e], l) /\ TransportReadReady(e, l) /\ Woken(l, wire[Peer(e)])
  BY LinkBuffers, WokenAll DEF EpollRead, Same, SameCounts
<1>2. ~l.timed_out => WriteDue(l) /\ EdgeDue(l) /\ PongDue(l) /\ RecvDue(l)
  BY <1>1 DEF Woken
<1> HIDE DEF l
<1> QED BY <1>1, <1>2, TransportReadReadyWakes DEF l

\* A packet in a buffer of the link or in its socket always has a callback
\* that is scheduled, or that epoll is going to make, as long as the link is
\* in use: no handler returns early without someone to call it again.
THEOREM LinkNoLostWakeup == Spec => []NoLostWakeup
<1>1. Init => NoLostWakeup
  <2> SUFFICES ASSUME Init, NEW e \in Ends PROVE Woken(link[e], wire[Peer(e)])
    BY WokenAll
  <2>1. Peer(e) \in Ends
    BY PeerEnd
  <2>2. link[e] = NewLink /\ wire[Peer(e)] = <<>>
    BY <2>1 DEF Init
  <2>3. <<>> \o <<>> = <<>>
    OBVIOUS
  <2> QED BY <2>2, <2>3 DEF NewLink, Woken, WriteDue, EdgeDue, PongDue, RecvDue, ReadDue, InUse
<1>2. LinkInv /\ NoLostWakeup /\ [Next]_vars => NoLostWakeup'
  <2> SUFFICES ASSUME LinkInv, NoLostWakeup, [Next]_vars PROVE NoLostWakeup'
    OBVIOUS
  <2>1. TypeOK /\ \A x \in Ends : Sound(x)
    BY InvIsSound DEF LinkInv
  <2>2. CASE Next
    <3>1. PICK e \in Ends :
             \/ OnSendReady(e) \/ OnSendReadyEdge(e) \/ TimerCallback(e) \/ ScheduledAux(e)
             \/ ScheduledWrite(e) \/ EpollWrite(e) \/ ScheduledRead(e) \/ EpollRead(e)
             \/ OnRecvReady(e) \/ RecvForOtherLink(e)
             \/ \E wake \in BOOLEAN : Assign(e, wake)
             \/ PingInterval(e)
      BY <2>2 DEF Next
    <3>2. CASE OnSendReady(e)
      BY <2>1, <3>2, OnSendReadyWakes
    <3>3. CASE OnSendReadyEdge(e)
      BY <2>1, <3>3, OnSendReadyEdgeWakes
    <3>4. CASE TimerCallback(e)
      BY <2>1, <3>4, TimerCallbackWakes
    <3>5. CASE ScheduledAux(e)
      BY <2>1, <3>5, ScheduledAuxWakes
    <3>6. CASE ScheduledWrite(e)
      BY <2>1, <3>6, ScheduledWriteWakes
    <3>7. CASE EpollWrite(e)
      BY <2>1, <3>7, EpollWriteWakes
    <3>8. CASE ScheduledRead(e)
      BY <2>1, <3>8, ScheduledReadWakes
    <3>9. CASE EpollRead(e)
      BY <2>1, <3>9, EpollReadWakes
    <3>10. CASE OnRecvReady(e)
      BY <2>1, <3>10, OnRecvReadyWakes
    <3>11. CASE RecvForOtherLink(e)
      BY <2>1, <3>11, RecvForOtherLinkWakes
    <3>12. CASE \E wake \in BOOLEAN : Assign(e, wake)
      BY <2>1, <3>12, AssignWakes
    <3>13. CASE PingInterval(e)
      BY <2>1, <3>13, PingIntervalWakes
    <3> QED BY <3>1, <3>2, <3>3, <3>4, <3>5, <3>6, <3>7, <3>8, <3>9, <3>10, <3>11, <3>12, <3>13
  <2>3. CASE UNCHANGED vars
    <3>1. link' = link /\ wire' = wire
      BY <2>3 DEF vars
    <3> QED BY <3>1, WokenAll, WokenAllNext
  <2> QED BY <2>2, <2>3
<1> QED BY <1>1, <1>2, LinkSafe, PTL DEF Spec

=============================================================================
