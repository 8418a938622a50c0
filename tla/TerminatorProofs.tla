-------------------------- MODULE TerminatorProofs --------------------------
(***************************************************************************)
(* Proofs about Terminator: streams keep their order whatever is connected *)
(* or closed meanwhile, no connection is left behind, nothing waits        *)
(* without somebody who takes it up again, and the packets of the tun      *)
(* devices keep their order.                                               *)
(***************************************************************************)
EXTENDS Terminator, FiniteSetTheorems, SequenceTheorems, TLAPS

-----------------------------------------------------------------------------
(* The inductive invariant.                                                *)

\* What end e of a stream that p opened has of it: its record c, what it has
\* written outside, w, and how many items have arrived, a.  These are numbered
\* from 1, or from 0 if the header is the first of them: then it waits in the
\* buffer or has been taken.
HeaderWaits(p, e, c) == e # p /\ c.header \in {"none", "fresh"}
HeaderTaken(p, e, c) == e # p /\ c.header \in {"connecting", "done"}

ItemsOK(p, e, c, w, a) ==
    /\ w = [i \in 1 .. Len(w) |-> i]
    /\ Len(c.sending) <= 1 /\ (c.sending # << >> => c.sending[1] = Len(w) + 1)
    /\ HeaderWaits(p, e, c) => w = << >> /\ c.sending = << >>
    /\ \A i \in 1 .. Len(c.buffer) :
         c.buffer[i] = IF HeaderWaits(p, e, c) THEN i - 1 ELSE Len(w) + Len(c.sending) + i
    /\ a = Len(w) + Len(c.sending) + Len(c.buffer) + (IF HeaderTaken(p, e, c) THEN 1 ELSE 0)

StagesOK(p, e, c, a) ==
    /\ c.sock = "open" => c.target = "attached"
    /\ c.error <=> c.target = "closed"
    /\ e # p /\ c.target = "attached" => c.header # "none"
    /\ e # p /\ c.sock # "none" => c.header = "done"
    /\ c.target = "none" => a = 0 /\ c.sock = "none" /\ (e # p => c.header = "none")

WakesOK(p, e, c) ==
    c.target = "attached" /\ c.buffer # << >> =>
        c.sending # << >> \/ (e # p /\ c.header = "connecting")

\* End e will send no CLOSE any more, except one that it has queued.
Shut(p, e, c) == c.target = "closed" /\ ~(e # p /\ c.header = "connecting")

EndsOK ==
    \A e \in Ends, st \in Streams :
        /\ ItemsOK(opener[st], e, Now(e, st), out[e][st], arrived[e][st])
        /\ StagesOK(opener[st], e, Now(e, st), arrived[e][st])
        /\ WakesOK(opener[st], e, Now(e, st))

SourcesOK ==
    \A e \in Ends, st \in Streams :
        /\ sent[e][st] <= written[e][st] + (IF e = opener[st] THEN 1 ELSE 0)
        /\ target[e][st] = "none" => written[e][st] = 0 /\ sent[e][st] = 0
        /\ opener[st] = "none" => target[e][st] = "none" /\ header[st] = "none"
        /\ e = opener[st] /\ target[e][st] = "none" => crashed[e] # "no"
        /\ eof[e][st] => sock[e][st] # "none"

PacketsOK ==
    \A e \in Ends : \A m \in net[e] :
        m.kind = "data" => m.seq \in 1 .. sent[e][m.st] /\ m.item = Recv(e, m.st, m.seq)

Distinct(q) == \A i, j \in DOMAIN q : q[i] = q[j] => i = j
Holds(q, x) == \E i \in DOMAIN q : q[i] = x
ClosePacket(st) == [kind |-> "close", st |-> st]

\* A stream has one CLOSE at most in the queue and in the network together.
ClosesOK ==
    \A e \in Ends :
        /\ Distinct(special[e])
        /\ \A y \in Streams : ~(Holds(special[e], y) /\ ClosePacket(y) \in net[e])
        /\ \A y \in Streams :
             Holds(special[e], y) \/ ClosePacket(y) \in net[e] => Shut(opener[y], e, Now(e, y))

Increasing(s) == \A i, j \in DOMAIN s : i < j => s[i] < s[j]

\* Of the k packets that came from the tun device of end e, w have been
\* written at the other end, those in N are in the network and q waits.
RawFlow(e, w, N, q, k) ==
    /\ Increasing(w) /\ Increasing(q)
    /\ \A i \in DOMAIN w : w[i] <= k /\ Checked(e, w[i])
    /\ \A m \in N : m.kind = "raw" => m.n <= k /\ Checked(e, m.n)
    /\ \A i \in DOMAIN q : q[i] <= k /\ Checked(e, q[i])
    /\ \A i \in DOMAIN w : \A m \in N : m.kind = "raw" => w[i] < m.n
    /\ \A i \in DOMAIN w, j \in DOMAIN q : w[i] < q[j]
    /\ \A m \in N : m.kind = "raw" => \A j \in DOMAIN q : m.n < q[j]

RawOK ==
    \A e \in Ends : RawFlow(e, raw_out[Other(e)], net[e], from_tun_queue[e], raw_in[e])

SetupOK == has_tun["server"] => has_transport["server"]

Waiting(e) ==
    has_transport[e] /\ Room(e) > 0 /\ ~notify[e] =>
        /\ from_tun_queue[e] = << >> /\ special[e] = << >>
        /\ \A st \in Streams : Readable(e, st) = 0
NetworkOK == \A e \in Ends : crashed[e] = "no" => Waiting(e)

Inv == TypeOK /\ EndsOK /\ SourcesOK /\ PacketsOK /\ ClosesOK /\ RawOK /\ SetupOK /\ ServerSetupSafe /\ NetworkOK

-----------------------------------------------------------------------------
(* One end of a stream.                                                    *)

EndState == [
    target : {"none", "attached", "closed"}, buffer : Seq(Item),
    header : {"none", "fresh", "connecting", "done"}, error : BOOLEAN,
    sock : {"none", "open", "closed"}, sending : Seq(Item), due : BOOLEAN,
    closes : BOOLEAN]

LEMMA EndFacts ==
    \A e \in Ends : /\ Other(e) \in Ends /\ Other(e) # e /\ Other(Other(e)) = e
                    /\ \A x \in Ends : x = e \/ x = Other(e)
BY DEF Ends, Other

LEMMA ClosedFields ==
    ASSUME NEW c \in EndState
    PROVE  /\ Closed(c) \in EndState
           /\ Closed(c).target = "closed" /\ Closed(c).error = TRUE
           /\ Closed(c).sock = (IF c.sock = "open" THEN "closed" ELSE c.sock)
           /\ Closed(c).buffer = c.buffer /\ Closed(c).header = c.header
           /\ Closed(c).sending = c.sending /\ Closed(c).due = c.due /\ Closed(c).closes = c.closes
BY DEF Closed, EndState

LEMMA ErroredFields ==
    ASSUME NEW c \in EndState
    PROVE  /\ Errored(c) \in EndState
           /\ Errored(c).target = "closed" /\ Errored(c).error = TRUE
           /\ Errored(c).sock = (IF c.sock = "open" THEN "closed" ELSE c.sock)
           /\ Errored(c).buffer = c.buffer /\ Errored(c).header = c.header
           /\ Errored(c).sending = c.sending /\ Errored(c).due = c.due /\ Errored(c).closes = TRUE
<1> DEFINE d == Closed(c)
<1>1. d \in EndState
  BY ClosedFields
<1>2. Errored(c) = [d EXCEPT !.closes = TRUE]
  BY DEF Errored
<1> HIDE DEF d
<1>3. /\ [d EXCEPT !.closes = TRUE] \in EndState
      /\ [d EXCEPT !.closes = TRUE].target = d.target /\ [d EXCEPT !.closes = TRUE].error = d.error
      /\ [d EXCEPT !.closes = TRUE].sock = d.sock /\ [d EXCEPT !.closes = TRUE].buffer = d.buffer
      /\ [d EXCEPT !.closes = TRUE].header = d.header /\ [d EXCEPT !.closes = TRUE].sending = d.sending
      /\ [d EXCEPT !.closes = TRUE].due = d.due /\ [d EXCEPT !.closes = TRUE].closes = TRUE
  BY <1>1 DEF EndState
<1> QED BY <1>2, <1>3, ClosedFields DEF d

\* ItemsOK depends on three fields only.
LEMMA ItemsSame ==
    ASSUME NEW p, NEW e, NEW c, NEW d, NEW w, NEW a,
           d.buffer = c.buffer, d.sending = c.sending,
           e # p => (d.header \in {"none", "fresh"} <=> c.header \in {"none", "fresh"}),
           e # p => (d.header \in {"connecting", "done"} <=> c.header \in {"connecting", "done"}),
           ItemsOK(p, e, c, w, a)
    PROVE  ItemsOK(p, e, d, w, a)
<1>1. HeaderWaits(p, e, d) <=> HeaderWaits(p, e, c)
  BY DEF HeaderWaits
<1>2. HeaderTaken(p, e, d) <=> HeaderTaken(p, e, c)
  BY DEF HeaderTaken
<1> QED BY <1>1, <1>2 DEF ItemsOK

\* What a step makes of one end of a stream: c before, d after it.
Step(p, e, c, d, w, a) ==
    /\ d \in EndState
    /\ ItemsOK(p, e, d, w, a) /\ StagesOK(p, e, d, a) /\ WakesOK(p, e, d)
    /\ d.closes => Shut(p, e, d)
    /\ Shut(p, e, c) => Shut(p, e, d) /\ ~d.closes
    /\ e = p => d.header = c.header
    /\ d.target = "none" => c.target = "none"
    /\ c.target = "closed" => d.target = "closed"
    /\ c.target = "none" => d.target = "none" \/ e # p
    /\ d.sock = "none" => c.sock = "none"

\* Closing an end, with or without a CLOSE for the peer.
LEMMA ClosedStages ==
    ASSUME NEW p, NEW e, NEW c \in EndState, NEW w, NEW a, NEW d \in {Closed(c), Errored(c)},
           ItemsOK(p, e, c, w, a), e # p /\ c.sock # "none" => c.header = "done"
    PROVE  /\ d \in EndState /\ ItemsOK(p, e, d, w, a) /\ StagesOK(p, e, d, a) /\ WakesOK(p, e, d)
           /\ d.target = "closed" /\ d.header = c.header
           /\ d.sock = "none" => c.sock = "none"
<1>1. /\ d \in EndState /\ d.target = "closed" /\ d.error = TRUE
      /\ d.sock = (IF c.sock = "open" THEN "closed" ELSE c.sock)
      /\ d.buffer = c.buffer /\ d.header = c.header /\ d.sending = c.sending
  <2>1. CASE d = Closed(c)
    BY <2>1, ClosedFields
  <2>2. CASE d = Errored(c)
    BY <2>2, ErroredFields
  <2> QED BY <2>1, <2>2
<1>2. ItemsOK(p, e, d, w, a)
  BY <1>1, ItemsSame
<1>3. StagesOK(p, e, d, a) /\ WakesOK(p, e, d)
  BY <1>1 DEF StagesOK, WakesOK
<1> QED BY <1>1, <1>2, <1>3

LEMMA TailItems ==
    ASSUME NEW s \in Seq(Item), s # << >>
    PROVE  /\ Tail(s) \in Seq(Item) /\ Len(s) \in Nat /\ Len(s) > 0 /\ Len(Tail(s)) = Len(s) - 1
           /\ Head(s) = s[1] /\ Head(s) \in Item
           /\ \A i \in 1 .. Len(Tail(s)) : Tail(s)[i] = s[i + 1] /\ i + 1 \in 1 .. Len(s)
OBVIOUS

LEMMA AppendItems ==
    ASSUME NEW s \in Seq(Item), NEW x \in Item
    PROVE  /\ Append(s, x) \in Seq(Item) /\ Len(s) \in Nat /\ Len(Append(s, x)) = Len(s) + 1
           /\ \A i \in 1 .. Len(s) : Append(s, x)[i] = s[i]
           /\ Append(s, x)[Len(s) + 1] = x
OBVIOUS

\* The header is taken from the buffer.
LEMMA TakeHeader ==
    ASSUME NEW p, NEW e, NEW c \in EndState, NEW d \in EndState, NEW w \in Seq(Item), NEW a \in Nat,
           ItemsOK(p, e, c, w, a), e # p, c.header = "fresh", c.buffer # << >>,
           d.buffer = Tail(c.buffer), d.header \in {"connecting", "done"}, d.sending = c.sending
    PROVE  ItemsOK(p, e, d, w, a)
<1> DEFINE s == c.buffer
           t == Tail(s)
<1>1. s \in Seq(Item) /\ s # << >> /\ d.buffer = t
  BY DEF EndState
<1>2. /\ t \in Seq(Item) /\ Len(s) \in Nat /\ Len(s) > 0 /\ Len(t) = Len(s) - 1
      /\ \A i \in 1 .. Len(t) : t[i] = s[i + 1] /\ i + 1 \in 1 .. Len(s)
  BY <1>1, TailItems
<1> HIDE DEF t
<1>3. HeaderWaits(p, e, c) /\ ~HeaderTaken(p, e, c) /\ ~HeaderWaits(p, e, d) /\ HeaderTaken(p, e, d)
  BY DEF HeaderWaits, HeaderTaken
<1>4. w = << >> /\ c.sending = << >> /\ Len(w) = 0 /\ Len(c.sending) = 0
  BY <1>3 DEF ItemsOK
<1>5. \A i \in 1 .. Len(s) : s[i] = i - 1
  BY <1>3 DEF ItemsOK
<1>6. a = Len(s)
  BY <1>2, <1>3, <1>4 DEF ItemsOK
<1>7. \A i \in 1 .. Len(t) : t[i] = i
  <2> SUFFICES ASSUME NEW i \in 1 .. Len(t)
               PROVE  t[i] = i
    OBVIOUS
  <2>1. t[i] = s[i + 1] /\ i + 1 \in 1 .. Len(s) /\ i \in Int
    BY <1>2
  <2>2. s[i + 1] = (i + 1) - 1
    BY <1>5, <2>1
  <2> HIDE DEF s
  <2> QED BY <2>1, <2>2
<1>8. w = [i \in 1 .. Len(w) |-> i]
  BY DEF ItemsOK
<1> QED BY <1>1, <1>2, <1>3, <1>4, <1>6, <1>7, <1>8 DEF ItemsOK

\* Any other item goes to the send buffer.
LEMMA TakeItem ==
    ASSUME NEW p, NEW e, NEW c \in EndState, NEW d \in EndState, NEW w \in Seq(Item), NEW a \in Nat,
           ItemsOK(p, e, c, w, a), e # p => c.header = "done", c.buffer # << >>, c.sending = << >>,
           d.buffer = Tail(c.buffer), d.header = c.header, d.sending = <<Head(c.buffer)>>
    PROVE  ItemsOK(p, e, d, w, a)
<1> DEFINE s == c.buffer
           t == Tail(s)
<1>1. s \in Seq(Item) /\ s # << >> /\ d.buffer = t
  BY DEF EndState
<1>2. /\ t \in Seq(Item) /\ Len(s) \in Nat /\ Len(s) > 0 /\ Len(t) = Len(s) - 1
      /\ Head(s) = s[1]
      /\ \A i \in 1 .. Len(t) : t[i] = s[i + 1] /\ i + 1 \in 1 .. Len(s)
  BY <1>1, TailItems
<1>3. /\ ~HeaderWaits(p, e, c) /\ ~HeaderWaits(p, e, d)
      /\ HeaderTaken(p, e, d) <=> HeaderTaken(p, e, c)
  BY DEF HeaderWaits, HeaderTaken
<1>4. Len(c.sending) = 0 /\ Len(d.sending) = 1 /\ d.sending[1] = s[1] /\ Len(w) \in Nat
  BY <1>2
<1> HIDE DEF t
<1>5. \A i \in 1 .. Len(s) : s[i] = Len(w) + i
  BY <1>3, <1>4 DEF ItemsOK
<1>6. d.sending[1] = Len(w) + 1
  <2>1. 1 \in 1 .. Len(s)
    BY <1>2
  <2> HIDE DEF s
  <2> QED BY <1>4, <1>5, <2>1
<1>7. \A i \in 1 .. Len(t) : t[i] = Len(w) + 1 + i
  BY <1>2, <1>4, <1>5
<1>8. w = [i \in 1 .. Len(w) |-> i]
  BY DEF ItemsOK
<1>9. a = Len(w) + 1 + Len(t) + (IF HeaderTaken(p, e, d) THEN 1 ELSE 0)
  <2>1. a = Len(w) + 0 + Len(s) + (IF HeaderTaken(p, e, c) THEN 1 ELSE 0)
    BY <1>4 DEF ItemsOK
  <2> HIDE DEF s
  <2> QED BY <1>2, <1>3, <1>4, <2>1
<1>10. /\ Len(d.sending) <= 1
       /\ \A i \in 1 .. Len(d.buffer) : d.buffer[i] = Len(w) + Len(d.sending) + i
       /\ a = Len(w) + Len(d.sending) + Len(d.buffer) + (IF HeaderTaken(p, e, d) THEN 1 ELSE 0)
  <2> HIDE DEF s
  <2>1. d.buffer = t /\ Len(d.sending) = 1
    BY <1>1, <1>4
  <2>2. \A i \in 1 .. Len(d.buffer) : d.buffer[i] = Len(w) + Len(d.sending) + i
    BY <1>7, <2>1
  <2>3. a = Len(w) + Len(d.sending) + Len(d.buffer) + (IF HeaderTaken(p, e, d) THEN 1 ELSE 0)
    BY <1>9, <2>1
  <2>4. Len(d.sending) <= 1
    BY <2>1
  <2> QED BY <2>2, <2>3, <2>4, Zenon
<1> HIDE DEF s
<1> QED BY <1>3, <1>6, <1>8, <1>10 DEF ItemsOK

\* target_send_ready leaves nothing in the buffer that nobody will take up.
LEMMA SendReadyStep ==
    ASSUME NEW e \in Ends, NEW st \in Streams, NEW c \in EndState, NEW w \in Seq(Item), NEW a \in Nat,
           NEW d \in TargetSendReady(e, st, c),
           ItemsOK(opener[st], e, c, w, a), StagesOK(opener[st], e, c, a)
    PROVE  /\ d \in EndState
           /\ ItemsOK(opener[st], e, d, w, a) /\ StagesOK(opener[st], e, d, a)
           /\ WakesOK(opener[st], e, d)
           /\ d.closes => c.closes \/ Shut(opener[st], e, d)
           /\ c.target = "closed" => d = c
           /\ e = opener[st] => d.header = c.header
           /\ d.target = "none" <=> c.target = "none"
           /\ d.sock = "none" => c.sock = "none"
<1> DEFINE p == opener[st]
           rest == [c EXCEPT !.buffer = Tail(@)]
           ready == IsSendReady(e, st, c)
           stays == c.buffer = << >> \/ c.target # "attached" \/ ~ready
           first == [rest EXCEPT !.header = "connecting"]
           failed == [rest EXCEPT !.header = "done"]
           later == [rest EXCEPT !.sending = <<Head(c.buffer)>>, !.due = TRUE]
<1>0. PICK q : q = p
  OBVIOUS
<1>1. CASE stays
  <2>1. d = c
    BY <1>1 DEF TargetSendReady
  <2>2. WakesOK(p, e, c)
    BY <1>1 DEF IsSendReady, WakesOK, StagesOK, EndState
  <2> QED BY <2>1, <2>2
<1>2. CASE ~stays
  <2>1. c.buffer \in Seq(Item) /\ c.buffer # << >> /\ c.target = "attached" /\ ready
    BY <1>2 DEF EndState
  <2>2. Tail(c.buffer) \in Seq(Item) /\ <<Head(c.buffer)>> \in Seq(Item)
    BY <2>1, TailItems
  <2>3. rest \in EndState /\ rest.buffer = Tail(c.buffer) /\ rest.target = c.target
        /\ rest.header = c.header /\ rest.error = c.error /\ rest.sock = c.sock
        /\ rest.sending = c.sending /\ rest.closes = c.closes
    BY <2>2 DEF EndState
  <2>4. CASE e # p /\ c.header = "fresh"
    <3>1. d \in {first, Errored(failed)}
      BY <1>2, <2>4 DEF TargetSendReady
    <3>2. first \in EndState /\ first.buffer = Tail(c.buffer) /\ first.target = c.target
          /\ first.header = "connecting" /\ first.error = c.error /\ first.sock = c.sock
          /\ first.sending = c.sending /\ first.closes = c.closes
      BY <2>3 DEF EndState
    <3>3. failed \in EndState /\ failed.buffer = Tail(c.buffer) /\ failed.target = c.target
          /\ failed.header = "done" /\ failed.error = c.error /\ failed.sock = c.sock
          /\ failed.sending = c.sending
      BY <2>3 DEF EndState
    <3> HIDE DEF first, failed, rest
    <3>4. c.sock = "none"
      BY <2>4 DEF StagesOK, EndState
    <3>5. CASE d = first
      <4>1. ItemsOK(p, e, d, w, a)
        BY <2>1, <2>4, <3>2, <3>5, TakeHeader
      <4>2. StagesOK(p, e, d, a) /\ WakesOK(p, e, d)
        BY <2>1, <2>4, <3>2, <3>4, <3>5 DEF StagesOK, WakesOK
      <4> QED BY <2>1, <2>4, <3>2, <3>5, <4>1, <4>2
    <3>6. CASE d = Errored(failed)
      <4>1. ItemsOK(p, e, failed, w, a)
        BY <2>1, <2>4, <3>3, TakeHeader
      <4>2. /\ d \in EndState /\ ItemsOK(p, e, d, w, a) /\ StagesOK(p, e, d, a) /\ WakesOK(p, e, d)
            /\ d.target = "closed" /\ d.header = "done"
        BY <3>3, <3>4, <3>6, <4>1, ClosedStages, ZenonT(30)
      <4>3. Shut(p, e, d)
        BY <4>2 DEF Shut
      <4> QED BY <2>1, <2>4, <3>4, <4>2, <4>3
    <3> QED BY <3>1, <3>5, <3>6
  <2>5. CASE ~(e # p /\ c.header = "fresh")
    <3>1. d = later
      BY <1>2, <2>5 DEF TargetSendReady
    <3>2. later \in EndState /\ later.buffer = Tail(c.buffer) /\ later.target = c.target
          /\ later.header = c.header /\ later.error = c.error /\ later.sock = c.sock
          /\ later.sending = <<Head(c.buffer)>> /\ later.closes = c.closes
      BY <2>2, <2>3 DEF EndState
    <3>3. c.sending = << >> /\ (e # p => c.header = "done")
      BY <2>1, <2>5 DEF IsSendReady
    <3> HIDE DEF later, rest
    <3>4. ItemsOK(p, e, d, w, a)
      BY <2>1, <3>1, <3>2, <3>3, TakeItem
    <3>5. d.sending # << >>
      BY <2>2, <3>1, <3>2
    <3>6. StagesOK(p, e, d, a) /\ WakesOK(p, e, d)
      BY <2>1, <3>1, <3>2, <3>5 DEF StagesOK, WakesOK
    <3> QED BY <2>1, <3>1, <3>2, <3>4, <3>6
  <2> QED BY <2>4, <2>5
<1> QED BY <1>1, <1>2

\* An item is placed in the buffer: number a + 1 of those that arrive.
LEMMA PlaceItem ==
    ASSUME NEW p, NEW e, NEW c \in EndState, NEW w \in Seq(Item), NEW a \in Nat, NEW x \in Item,
           ItemsOK(p, e, c, w, a), x = (IF e # p THEN a ELSE a + 1)
    PROVE  /\ [c EXCEPT !.buffer = Append(@, x)] \in EndState
           /\ ItemsOK(p, e, [c EXCEPT !.buffer = Append(@, x)], w, a + 1)
<1>0. PICK s : s = c.buffer
  OBVIOUS
<1> DEFINE t == Append(s, x)
           d == [c EXCEPT !.buffer = Append(@, x)]
<1>1. s \in Seq(Item) /\ c.sending \in Seq(Item) /\ Len(c.sending) \in Nat /\ Len(w) \in Nat
  BY <1>0 DEF EndState
<1>2. /\ t \in Seq(Item) /\ Len(s) \in Nat /\ Len(t) = Len(s) + 1
      /\ \A i \in 1 .. Len(s) : t[i] = s[i]
      /\ t[Len(s) + 1] = x
  BY <1>1, AppendItems
<1>3. d \in EndState /\ d.buffer = t /\ d.header = c.header /\ d.sending = c.sending
  BY <1>0, <1>2 DEF EndState
<1>4. /\ HeaderWaits(p, e, d) <=> HeaderWaits(p, e, c)
      /\ HeaderTaken(p, e, d) <=> HeaderTaken(p, e, c)
      /\ HeaderWaits(p, e, c) => ~HeaderTaken(p, e, c) /\ e # p
      /\ ~HeaderWaits(p, e, c) => (HeaderTaken(p, e, c) <=> e # p)
  BY <1>3 DEF HeaderWaits, HeaderTaken, EndState
<1> HIDE DEF t, d
<1>5. /\ w = [i \in 1 .. Len(w) |-> i]
      /\ Len(c.sending) <= 1 /\ (c.sending # << >> => c.sending[1] = Len(w) + 1)
      /\ HeaderWaits(p, e, c) => w = << >> /\ c.sending = << >>
  BY DEF ItemsOK
<1>6. \A i \in 1 .. Len(s) :
         s[i] = IF HeaderWaits(p, e, c) THEN i - 1 ELSE Len(w) + Len(c.sending) + i
  BY <1>0 DEF ItemsOK
<1>7. a = Len(w) + Len(c.sending) + Len(s) + (IF HeaderTaken(p, e, c) THEN 1 ELSE 0)
  BY <1>0 DEF ItemsOK
<1>sum. \A h \in {0, 1} :
          /\ Len(w) + Len(c.sending) + Len(s) + h + 1 = Len(w) + Len(c.sending) + (Len(s) + 1) + h
          /\ Len(w) + Len(c.sending) + Len(s) + 1 = Len(w) + Len(c.sending) + (Len(s) + 1)
          /\ Len(w) + Len(c.sending) + Len(s) + 0 + 1 = Len(w) + Len(c.sending) + (Len(s) + 1)
  <2>1. PICK k \in Nat, l \in Nat, m \in Nat : k = Len(w) /\ l = Len(c.sending) /\ m = Len(s)
    BY <1>1, <1>2
  <2>2. \A h \in {0, 1} :
            /\ k + l + m + h + 1 = k + l + (m + 1) + h
            /\ k + l + m + 1 = k + l + (m + 1) /\ k + l + m + 0 + 1 = k + l + (m + 1)
    OBVIOUS
  <2> QED BY <2>1, <2>2, Zenon
<1>8. x = IF HeaderWaits(p, e, c) THEN (Len(s) + 1) - 1 ELSE Len(w) + Len(c.sending) + (Len(s) + 1)
  <2>1. CASE HeaderWaits(p, e, c)
    <3>1. Len(w) = 0 /\ Len(c.sending) = 0
      BY <1>5, <2>1
    <3>2. x = a
      BY <1>4, <2>1
    <3> QED BY <1>1, <1>2, <1>4, <1>7, <2>1, <3>1, <3>2
  <2>2. CASE ~HeaderWaits(p, e, c) /\ e # p
    <3>1. x = a
      BY <2>2
    <3>2. a = Len(w) + Len(c.sending) + Len(s) + 1
      BY <1>4, <1>7, <2>2
    <3> QED BY <1>sum, <2>2, <3>1, <3>2
  <2>3. CASE ~HeaderWaits(p, e, c) /\ ~(e # p)
    <3>1. x = a + 1
      BY <2>3
    <3>2. a = Len(w) + Len(c.sending) + Len(s) + 0
      BY <1>4, <1>7, <2>3
    <3>3. x = Len(w) + Len(c.sending) + Len(s) + 0 + 1
      BY <3>1, <3>2
    <3> QED BY <1>sum, <2>3, <3>3
  <2> QED BY <2>1, <2>2, <2>3
<1>9. \A i \in 1 .. Len(d.buffer) :
         d.buffer[i] = IF HeaderWaits(p, e, d) THEN i - 1 ELSE Len(w) + Len(d.sending) + i
  <2> SUFFICES ASSUME NEW i \in 1 .. Len(t)
               PROVE  t[i] = IF HeaderWaits(p, e, c) THEN i - 1 ELSE Len(w) + Len(c.sending) + i
    BY <1>3, <1>4
  <2>1. CASE i \in 1 .. Len(s)
    BY <1>2, <1>6, <2>1
  <2>2. CASE i = Len(s) + 1
    BY <1>2, <1>8, <2>2
  <2> QED BY <1>2, <2>1, <2>2
<1>10. a + 1 = Len(w) + Len(d.sending) + Len(d.buffer) + (IF HeaderTaken(p, e, d) THEN 1 ELSE 0)
  <2>1. a + 1 = Len(w) + Len(c.sending) + (Len(s) + 1) + (IF HeaderTaken(p, e, c) THEN 1 ELSE 0)
    <3>1. PICK h \in {0, 1} : h = IF HeaderTaken(p, e, c) THEN 1 ELSE 0
      OBVIOUS
    <3>2. a = Len(w) + Len(c.sending) + Len(s) + h
      BY <1>7, <3>1
    <3> QED BY <1>sum, <3>1, <3>2
  <2> QED BY <1>2, <1>3, <1>4, <2>1
<1>11. /\ Len(d.sending) <= 1 /\ (d.sending # << >> => d.sending[1] = Len(w) + 1)
       /\ HeaderWaits(p, e, d) => w = << >> /\ d.sending = << >>
  BY <1>3, <1>4, <1>5
<1>12. ItemsOK(p, e, d, w, a + 1)
  BY <1>5, <1>9, <1>10, <1>11, Zenon DEF ItemsOK
<1> QED BY <1>3, <1>12 DEF d

\* The send buffer is written.
LEMMA WriteItems ==
    ASSUME NEW p, NEW e, NEW c \in EndState, NEW d \in EndState, NEW w \in Seq(Item), NEW a \in Nat,
           ItemsOK(p, e, c, w, a),
           d.buffer = c.buffer, d.header = c.header, d.sending = << >>
    PROVE  /\ w \o c.sending \in Seq(Item) /\ Len(w \o c.sending) = Len(w) + Len(c.sending)
           /\ ItemsOK(p, e, d, w \o c.sending, a)
<1>0. PICK s : s = c.sending
  OBVIOUS
<1> DEFINE v == w \o s
<1>1. /\ s \in Seq(Item) /\ c.buffer \in Seq(Item)
      /\ Len(s) \in Nat /\ Len(w) \in Nat /\ Len(c.buffer) \in Nat /\ Len(d.sending) = 0
  BY <1>0 DEF EndState
<1>2. /\ v \in Seq(Item) /\ Len(v) = Len(w) + Len(s)
      /\ \A i \in 1 .. Len(w) + Len(s) : v[i] = IF i <= Len(w) THEN w[i] ELSE s[i - Len(w)]
  BY <1>1
<1>3. /\ HeaderWaits(p, e, d) <=> HeaderWaits(p, e, c)
      /\ HeaderTaken(p, e, d) <=> HeaderTaken(p, e, c)
  BY DEF HeaderWaits, HeaderTaken
<1>4. HeaderWaits(p, e, c) => v = << >>
  BY <1>0, <1>2 DEF ItemsOK
<1> HIDE DEF v
<1>5. w = [i \in 1 .. Len(w) |-> i]
  BY DEF ItemsOK
<1>6. Len(s) <= 1 /\ (s # << >> => s[1] = Len(w) + 1)
  BY <1>0 DEF ItemsOK
<1>7. \A i \in 1 .. Len(v) : v[i] = i
  <2> SUFFICES ASSUME NEW i \in 1 .. Len(v)
               PROVE  v[i] = i
    OBVIOUS
  <2>1. CASE i <= Len(w)
    <3>1. i \in 1 .. Len(w) /\ v[i] = w[i]
      BY <1>1, <1>2, <2>1
    <3>2. [j \in 1 .. Len(w) |-> j][i] = i
      BY <3>1
    <3> QED BY <1>5, <3>1, <3>2
  <2>2. CASE ~(i <= Len(w))
    <3>1. i = Len(w) + 1 /\ Len(s) = 1 /\ i - Len(w) = 1
      <4>1. PICK k \in Nat, l \in Nat : k = Len(w) /\ l = Len(s)
        BY <1>1
      <4>2. i \in 1 .. k + l /\ ~(i <= k) /\ l <= 1
        BY <1>2, <1>6, <2>2, <4>1
      <4>3. i = k + 1 /\ l = 1 /\ i - k = 1
        BY <4>2
      <4> QED BY <4>1, <4>3
    <3>2. s # << >>
      <4>1. Len(<< >>) = 0 /\ Len(s) = 1
        BY <3>1
      <4>2. Len(s) # Len(<< >>)
        BY <4>1
      <4> QED BY <4>2, Zenon
    <3>3. v[i] = s[i - Len(w)]
      BY <1>1, <1>2, <2>2
    <3> QED BY <1>6, <3>1, <3>2, <3>3
  <2> QED BY <2>1, <2>2
<1>8. v = [i \in 1 .. Len(v) |-> i]
  <2>1. DOMAIN v = 1 .. Len(v) /\ v = [i \in DOMAIN v |-> v[i]]
    BY <1>2
  <2> QED BY <1>7, <2>1
<1>9. \A i \in 1 .. Len(d.buffer) :
         d.buffer[i] = IF HeaderWaits(p, e, d) THEN i - 1 ELSE Len(v) + Len(d.sending) + i
  <2> SUFFICES ASSUME NEW i \in 1 .. Len(c.buffer)
               PROVE  c.buffer[i] = IF HeaderWaits(p, e, c) THEN i - 1 ELSE Len(v) + Len(d.sending) + i
    BY <1>3
  <2>1. c.buffer[i] = IF HeaderWaits(p, e, c) THEN i - 1 ELSE Len(w) + Len(s) + i
    BY <1>0 DEF ItemsOK
  <2>2. Len(v) + Len(d.sending) + i = Len(w) + Len(s) + i
    BY <1>1, <1>2
  <2> QED BY <2>1, <2>2
<1>10. a = Len(v) + Len(d.sending) + Len(d.buffer) + (IF HeaderTaken(p, e, d) THEN 1 ELSE 0)
  <2>1. a = Len(w) + Len(s) + Len(c.buffer) + (IF HeaderTaken(p, e, c) THEN 1 ELSE 0)
    BY <1>0 DEF ItemsOK
  <2>2. Len(v) + Len(d.sending) + Len(d.buffer) = Len(w) + Len(s) + Len(c.buffer)
    BY <1>1, <1>2
  <2> QED BY <1>3, <2>1, <2>2
<1>11. Len(d.sending) <= 1
  BY <1>1
<1>12. ItemsOK(p, e, d, v, a)
  BY <1>3, <1>4, <1>8, <1>9, <1>10, <1>11, Zenon DEF ItemsOK
<1> QED BY <1>0, <1>2, <1>12 DEF v

-----------------------------------------------------------------------------
(* The steps of one end of a stream.                                       *)

LEMMA NowFields ==
    ASSUME TypeOK, NEW e \in Ends, NEW st \in Streams
    PROVE  /\ Now(e, st) \in EndState
           /\ Now(e, st).target = target[e][st] /\ Now(e, st).buffer = buffer[e][st]
           /\ Now(e, st).header = header[st] /\ Now(e, st).error = error[e][st]
           /\ Now(e, st).sock = sock[e][st] /\ Now(e, st).sending = sending[e][st]
           /\ Now(e, st).closes = FALSE
           /\ out[e][st] \in Seq(Item) /\ arrived[e][st] \in Nat
BY DEF TypeOK, Now, EndState, EndsOf

LEMMA ChildStep ==
    ASSUME TypeOK, EndsOK, NEW e \in Ends, NEW st \in Streams,
           target[e][st] = "none" => e # opener[st]
    PROVE  /\ Child(e, st) \in EndState
           /\ ItemsOK(opener[st], e, Child(e, st), out[e][st], arrived[e][st])
           /\ StagesOK(opener[st], e, Child(e, st), arrived[e][st])
           /\ WakesOK(opener[st], e, Child(e, st))
           /\ Child(e, st).target # "none"
           /\ Child(e, st).sock = sock[e][st]
           /\ e = opener[st] => Child(e, st).header = header[st]
           /\ target[e][st] # "none" => Child(e, st) = Now(e, st)
           /\ Child(e, st).closes =>
                Child(e, st).target = "closed" /\ Shut(opener[st], e, Child(e, st))
<1> DEFINE c == Now(e, st)
           d == [c EXCEPT !.target = "attached", !.header = "fresh"]
<1>1. /\ c \in EndState /\ c.closes = FALSE /\ c.target = target[e][st] /\ c.sock = sock[e][st]
      /\ c.header = header[st]
  BY NowFields
<1>2. /\ ItemsOK(opener[st], e, c, out[e][st], arrived[e][st])
      /\ StagesOK(opener[st], e, c, arrived[e][st]) /\ WakesOK(opener[st], e, c)
  BY DEF EndsOK
<1>3. PICK p, w, a : p = opener[st] /\ w = out[e][st] /\ a = arrived[e][st]
  OBVIOUS
<1>4. CASE c.target # "none"
  <2>1. Child(e, st) = c
    BY <1>4 DEF Child
  <2> QED BY <1>1, <1>2, <1>4, <2>1
<1>5. CASE c.target = "none" /\ e = "server"
  <2>1. Child(e, st) = d
    BY <1>5 DEF Child
  <2>2. /\ d \in EndState /\ d.target = "attached" /\ d.header = "fresh" /\ d.error = c.error
        /\ d.buffer = c.buffer /\ d.sending = c.sending /\ d.sock = c.sock /\ d.closes = FALSE
    BY <1>1 DEF EndState
  <2>3. e # p /\ a = 0 /\ c.sock = "none" /\ c.header = "none" /\ ~c.error
    BY <1>1, <1>2, <1>3, <1>5 DEF StagesOK
  <2>4. c.buffer = << >>
    <3>1. c.buffer \in Seq(Item) /\ c.sending \in Seq(Item) /\ w \in Seq(Item)
      BY <1>1, <1>3, NowFields DEF EndState
    <3>2. Len(c.buffer) \in Nat /\ Len(c.sending) \in Nat /\ Len(w) \in Nat
      BY <3>1
    <3>3. ~HeaderTaken(p, e, c)
      BY <2>3 DEF HeaderTaken
    <3>4. a = Len(w) + Len(c.sending) + Len(c.buffer) + 0
      BY <1>2, <1>3, <3>3 DEF ItemsOK
    <3>5. PICK b : b = c.buffer
      OBVIOUS
    <3>6. Len(b) = 0
      <4>1. PICK k \in Nat, l \in Nat, m \in Nat : k = Len(w) /\ l = Len(c.sending) /\ m = Len(b)
        BY <3>2, <3>5
      <4>2. 0 = k + l + m + 0
        BY <2>3, <3>4, <3>5, <4>1
      <4> QED BY <4>1, <4>2
    <3> QED BY <3>1, <3>5, <3>6
  <2> HIDE DEF d, c
  <2>5. ItemsOK(p, e, d, w, a)
    BY <1>2, <1>3, <2>2, <2>3, ItemsSame
  <2>6. StagesOK(p, e, d, a) /\ WakesOK(p, e, d)
    BY <2>2, <2>3, <2>4 DEF StagesOK, WakesOK
  <2> QED BY <1>1, <1>3, <1>5, <2>1, <2>2, <2>3, <2>5, <2>6
<1>6. CASE c.target = "none" /\ e # "server"
  <2>1. Child(e, st) = Errored(c)
    BY <1>6 DEF Child
  <2>2. e # p /\ c.sock = "none" /\ c.header = "none"
    BY <1>1, <1>2, <1>3, <1>6 DEF StagesOK
  <2> DEFINE x == Errored(c)
  <2>3. x \in EndState /\ x.sock = "none" /\ x.target = "closed" /\ x.header = "none"
    BY <1>1, <2>2, ErroredFields
  <2>4. ItemsOK(p, e, x, w, a) /\ StagesOK(p, e, x, a) /\ WakesOK(p, e, x)
    BY <1>1, <1>2, <1>3, <2>2, ClosedStages
  <2> HIDE DEF x, c
  <2>5. Shut(p, e, x)
    BY <2>3 DEF Shut
  <2> QED BY <1>1, <1>3, <1>6, <2>1, <2>2, <2>3, <2>4, <2>5 DEF x
<1> QED BY <1>4, <1>5, <1>6

\* What place_packet and close_channel make of a child.
Placed(c, x) == [c EXCEPT !.buffer = Append(@, x)]
AfterData(e, st, c, x) ==
    IF c.buffer = << >> THEN TargetSendReady(e, st, Placed(c, x)) ELSE {Placed(c, x)}
AfterClose(c) == IF c.target = "attached" THEN Closed(c) ELSE c

\* An item arrives.
LEMMA DataStep ==
    ASSUME TypeOK, EndsOK, NEW e \in Ends, NEW st \in Streams, NEW x \in Item,
           target[e][st] = "none" => e # opener[st],
           x = (IF e # opener[st] THEN arrived[e][st] ELSE arrived[e][st] + 1),
           NEW d \in AfterData(e, st, Child(e, st), x)
    PROVE  Step(opener[st], e, Now(e, st), d, out[e][st], arrived[e][st] + 1)
<1>1. PICK c : c = Child(e, st)
  OBVIOUS
<1>2. PICK w \in Seq(Item), a \in Nat : w = out[e][st] /\ a = arrived[e][st]
  BY NowFields
<1>3. /\ c \in EndState /\ ItemsOK(opener[st], e, c, w, a) /\ StagesOK(opener[st], e, c, a)
      /\ WakesOK(opener[st], e, c) /\ c.target # "none" /\ c.sock = sock[e][st]
      /\ e = opener[st] => c.header = header[st]
      /\ target[e][st] # "none" => c = Now(e, st)
      /\ c.closes => c.target = "closed" /\ Shut(opener[st], e, c)
  BY <1>1, <1>2, ChildStep
<1>y. PICK y : y = Placed(c, x)
  OBVIOUS
<1>4. y \in EndState /\ ItemsOK(opener[st], e, y, w, a + 1)
  BY <1>1, <1>2, <1>3, <1>y, PlaceItem DEF Placed
<1>5. /\ y.target = c.target /\ y.header = c.header /\ y.error = c.error /\ y.sock = c.sock
      /\ y.sending = c.sending /\ y.closes = c.closes
  BY <1>1, <1>3, <1>y DEF EndState, Placed
<1>6. StagesOK(opener[st], e, y, a + 1)
  BY <1>3, <1>5 DEF StagesOK
<1>7. c.closes => Shut(opener[st], e, y)
  BY <1>3, <1>5 DEF Shut
<1>8. /\ d \in EndState
      /\ ItemsOK(opener[st], e, d, w, a + 1) /\ StagesOK(opener[st], e, d, a + 1)
      /\ WakesOK(opener[st], e, d)
      /\ d.closes => y.closes \/ Shut(opener[st], e, d)
      /\ y.target = "closed" => d = y
      /\ e = opener[st] => d.header = y.header
      /\ d.target = "none" <=> y.target = "none"
      /\ d.sock = "none" => y.sock = "none"
  <2>1. CASE c.buffer = << >>
    <3>1. d \in TargetSendReady(e, st, y) /\ a + 1 \in Nat
      BY <1>1, <1>y, <2>1 DEF AfterData
    <3>2. PICK b \in Nat : b = a + 1
      BY <3>1
    <3>3. ItemsOK(opener[st], e, y, w, b) /\ StagesOK(opener[st], e, y, b)
      BY <1>4, <1>6, <3>2
    <3>4. /\ d \in EndState
          /\ ItemsOK(opener[st], e, d, w, b) /\ StagesOK(opener[st], e, d, b)
          /\ WakesOK(opener[st], e, d)
          /\ d.closes => y.closes \/ Shut(opener[st], e, d)
          /\ y.target = "closed" => d = y
          /\ e = opener[st] => d.header = y.header
          /\ d.target = "none" <=> y.target = "none"
          /\ d.sock = "none" => y.sock = "none"
      <4>1. y \in EndState /\ d \in TargetSendReady(e, st, y)
        BY <1>4, <3>1
      <4> QED BY <3>3, <4>1, SendReadyStep
    <3> QED BY <3>2, <3>4
  <2>2. CASE c.buffer # << >>
    <3>1. d = y
      BY <1>1, <1>y, <2>2 DEF AfterData
    <3>2. WakesOK(opener[st], e, y)
      BY <1>3, <1>5, <2>2 DEF WakesOK
    <3> QED BY <1>4, <1>6, <3>1, <3>2
  <2> QED BY <2>1, <2>2
<1>9. Now(e, st).target = target[e][st] /\ Now(e, st).header = header[st] /\ Now(e, st).sock = sock[e][st]
      /\ Now(e, st).closes = FALSE
  BY NowFields
<1>10. d.closes => Shut(opener[st], e, d)
  <2>1. CASE c.closes
    <3>1. d = y
      BY <1>3, <1>5, <1>8, <2>1
    <3> QED BY <1>7, <2>1, <3>1
  <2>2. CASE ~c.closes
    BY <1>5, <1>8, <2>2
  <2> QED BY <2>1, <2>2
<1>12. target[e][st] = "closed" => d.target = "closed"
  BY <1>3, <1>5, <1>8, <1>9
<1>11. ASSUME Shut(opener[st], e, Now(e, st))
       PROVE  Shut(opener[st], e, d) /\ ~d.closes
  <2>1. target[e][st] = "closed" /\ c = Now(e, st)
    BY <1>3, <1>9, <1>11 DEF Shut
  <2>2. d = y /\ ~y.closes
    BY <1>5, <1>8, <1>9, <2>1
  <2>3. Shut(opener[st], e, y)
    BY <1>5, <1>11, <2>1 DEF Shut
  <2> QED BY <2>2, <2>3
<1> QED BY <1>2, <1>3, <1>5, <1>8, <1>9, <1>10, <1>11, <1>12 DEF Step

LEMMA ClosedFromStages ==
    ASSUME NEW p, NEW e, NEW c \in EndState, NEW w, NEW a,
           ItemsOK(p, e, c, w, a), StagesOK(p, e, c, a)
    PROVE  /\ Closed(c) \in EndState /\ ItemsOK(p, e, Closed(c), w, a)
           /\ StagesOK(p, e, Closed(c), a) /\ WakesOK(p, e, Closed(c))
           /\ Closed(c).target = "closed" /\ Closed(c).header = c.header
           /\ Closed(c).sock = "none" => c.sock = "none"
<1>1. e # p /\ c.sock # "none" => c.header = "done"
  BY DEF StagesOK
<1> QED BY <1>1, ClosedStages

\* CLOSE arrives.
LEMMA CloseStep ==
    ASSUME TypeOK, EndsOK, NEW e \in Ends, NEW st \in Streams,
           target[e][st] = "none" => e # opener[st],
           NEW d, d = AfterClose(Child(e, st))
    PROVE  Step(opener[st], e, Now(e, st), d, out[e][st], arrived[e][st])
<1>1. PICK c : c = Child(e, st)
  OBVIOUS
<1>2. PICK w \in Seq(Item), a \in Nat : w = out[e][st] /\ a = arrived[e][st]
  BY NowFields
<1>3. /\ c \in EndState /\ ItemsOK(opener[st], e, c, w, a) /\ StagesOK(opener[st], e, c, a)
      /\ WakesOK(opener[st], e, c) /\ c.target # "none" /\ c.sock = sock[e][st]
      /\ e = opener[st] => c.header = header[st]
      /\ target[e][st] # "none" => c = Now(e, st)
      /\ c.closes => c.target = "closed" /\ Shut(opener[st], e, c)
  BY <1>1, <1>2, ChildStep
<1>4. Now(e, st).target = target[e][st] /\ Now(e, st).header = header[st] /\ Now(e, st).sock = sock[e][st]
      /\ Now(e, st).closes = FALSE
  BY NowFields
<1>5. CASE c.target = "attached"
  <2>1. d = Closed(c)
    BY <1>1, <1>5 DEF AfterClose
  <2>2. e # opener[st] /\ c.sock # "none" => c.header = "done"
    BY <1>3 DEF StagesOK
  <2>3. /\ d \in EndState /\ ItemsOK(opener[st], e, d, w, a) /\ StagesOK(opener[st], e, d, a)
        /\ WakesOK(opener[st], e, d) /\ d.target = "closed" /\ d.header = c.header
        /\ d.sock = "none" => c.sock = "none"
    BY <1>3, <2>1, ClosedFromStages
  <2>4. ~d.closes
    BY <1>3, <1>5, <2>1, ClosedFields
  <2>5. ~Shut(opener[st], e, Now(e, st))
    BY <1>3, <1>4, <1>5 DEF Shut
  <2> QED BY <1>2, <1>3, <1>4, <2>3, <2>4, <2>5 DEF Step
<1>6. CASE c.target # "attached"
  <2>1. d = c
    BY <1>1, <1>6 DEF AfterClose
  <2>2. ASSUME Shut(opener[st], e, Now(e, st))
        PROVE  Shut(opener[st], e, d) /\ ~d.closes
    <3>1. target[e][st] = "closed"
      BY <1>4, <2>2 DEF Shut
    <3> QED BY <1>3, <1>4, <2>1, <2>2, <3>1
  <2> QED BY <1>2, <1>3, <1>4, <2>1, <2>2 DEF Step
<1> QED BY <1>5, <1>6

\* The connection is there.
LEMMA ConnectStep ==
    ASSUME TypeOK, EndsOK, NEW e \in Ends, NEW st \in Streams,
           e # opener[st], header[st] = "connecting",
           NEW d \in NewStream(e, st, [Now(e, st) EXCEPT !.header = "done", !.sock = "open"])
    PROVE  Step(opener[st], e, Now(e, st), d, out[e][st], arrived[e][st])
<1>1. PICK c : c = Now(e, st)
  OBVIOUS
<1>2. PICK w \in Seq(Item), a \in Nat : w = out[e][st] /\ a = arrived[e][st]
  BY NowFields
<1>3. /\ c \in EndState /\ c.header = "connecting" /\ c.closes = FALSE
      /\ ItemsOK(opener[st], e, c, w, a) /\ StagesOK(opener[st], e, c, a)
  BY <1>1, <1>2, NowFields DEF EndsOK
<1>4. PICK y : y = [c EXCEPT !.header = "done", !.sock = "open"]
  OBVIOUS
<1>5. /\ y \in EndState /\ y.target = c.target /\ y.header = "done" /\ y.error = c.error
      /\ y.sock = "open" /\ y.buffer = c.buffer /\ y.sending = c.sending /\ y.closes = FALSE
  BY <1>3, <1>4 DEF EndState
<1>6. ItemsOK(opener[st], e, y, w, a)
  BY <1>3, <1>5, ItemsSame
<1>7. c.target # "none" /\ ~Shut(opener[st], e, c)
  BY <1>3 DEF StagesOK, Shut
<1>8. CASE c.error
  <2>1. d = Closed(y)
    BY <1>1, <1>4, <1>5, <1>8 DEF NewStream
  <2>2. /\ d \in EndState /\ ItemsOK(opener[st], e, d, w, a) /\ StagesOK(opener[st], e, d, a)
        /\ WakesOK(opener[st], e, d) /\ d.target = "closed" /\ d.header = y.header
        /\ d.sock = "none" => y.sock = "none"
    BY <1>5, <1>6, <2>1, ClosedStages
  <2>3. ~d.closes
    BY <1>5, <2>1, ClosedFields
  <2> QED BY <1>1, <1>2, <1>5, <1>7, <2>2, <2>3 DEF Step
<1>9. CASE ~c.error
  <2>1. d \in TargetSendReady(e, st, y)
    BY <1>1, <1>4, <1>5, <1>9 DEF NewStream
  <2>2. c.target = "attached"
    BY <1>3, <1>7, <1>9 DEF StagesOK, EndState
  <2>3. StagesOK(opener[st], e, y, a)
    BY <1>3, <1>5, <2>2 DEF StagesOK
  <2>4. /\ d \in EndState
        /\ ItemsOK(opener[st], e, d, w, a) /\ StagesOK(opener[st], e, d, a)
        /\ WakesOK(opener[st], e, d)
        /\ d.closes => y.closes \/ Shut(opener[st], e, d)
        /\ d.target = "none" <=> y.target = "none"
        /\ d.sock = "none" => y.sock = "none"
    BY <1>5, <1>6, <2>1, <2>3, SendReadyStep
  <2> QED BY <1>1, <1>2, <1>5, <1>7, <2>2, <2>4 DEF Step
<1> QED BY <1>8, <1>9

\* It has failed.
LEMMA FailStep ==
    ASSUME TypeOK, EndsOK, NEW e \in Ends, NEW st \in Streams,
           e # opener[st], header[st] = "connecting",
           NEW d, d = Errored([Now(e, st) EXCEPT !.header = "done"])
    PROVE  Step(opener[st], e, Now(e, st), d, out[e][st], arrived[e][st])
<1>1. PICK c : c = Now(e, st)
  OBVIOUS
<1>2. PICK w \in Seq(Item), a \in Nat : w = out[e][st] /\ a = arrived[e][st]
  BY NowFields
<1>3. /\ c \in EndState /\ c.header = "connecting" /\ c.closes = FALSE
      /\ ItemsOK(opener[st], e, c, w, a) /\ StagesOK(opener[st], e, c, a)
  BY <1>1, <1>2, NowFields DEF EndsOK
<1>4. PICK y : y = [c EXCEPT !.header = "done"]
  OBVIOUS
<1>5. /\ y \in EndState /\ y.target = c.target /\ y.header = "done" /\ y.error = c.error
      /\ y.sock = c.sock /\ y.buffer = c.buffer /\ y.sending = c.sending
  BY <1>3, <1>4 DEF EndState
<1>6. ItemsOK(opener[st], e, y, w, a)
  BY <1>3, <1>5, ItemsSame
<1>7. c.target # "none" /\ ~Shut(opener[st], e, c)
  BY <1>3 DEF StagesOK, Shut
<1>8. /\ d \in EndState /\ ItemsOK(opener[st], e, d, w, a) /\ StagesOK(opener[st], e, d, a)
      /\ WakesOK(opener[st], e, d) /\ d.target = "closed" /\ d.header = "done"
      /\ d.sock = "none" => y.sock = "none"
  <2>1. d \in {Closed(y), Errored(y)}
    BY <1>1, <1>4
  <2> QED BY <1>5, <1>6, <2>1, ClosedStages, SMTT(30)
<1>9. Shut(opener[st], e, d)
  BY <1>8 DEF Shut
<1> QED BY <1>1, <1>2, <1>5, <1>7, <1>8, <1>9 DEF Step

\* The send buffer is written, and the next item taken.
LEMMA WriteStep ==
    ASSUME TypeOK, EndsOK, NEW e \in Ends, NEW st \in Streams,
           NEW d \in TargetSendReady(e, st, [Now(e, st) EXCEPT !.sending = << >>, !.due = FALSE])
    PROVE  /\ out[e][st] \o sending[e][st] \in Seq(Item)
           /\ Step(opener[st], e, Now(e, st), d, out[e][st] \o sending[e][st], arrived[e][st])
<1>1. PICK c : c = Now(e, st)
  OBVIOUS
<1>2. PICK w \in Seq(Item), a \in Nat : w = out[e][st] /\ a = arrived[e][st]
  BY NowFields
<1>3. /\ c \in EndState /\ c.closes = FALSE /\ c.sending = sending[e][st]
      /\ ItemsOK(opener[st], e, c, w, a) /\ StagesOK(opener[st], e, c, a)
  BY <1>1, <1>2, NowFields DEF EndsOK
<1>4. PICK y : y = [c EXCEPT !.sending = << >>, !.due = FALSE]
  OBVIOUS
<1>5. /\ y \in EndState /\ y.target = c.target /\ y.header = c.header /\ y.error = c.error
      /\ y.sock = c.sock /\ y.buffer = c.buffer /\ y.sending = << >> /\ y.closes = FALSE
  <2>1. << >> \in Seq(Item)
    OBVIOUS
  <2> QED BY <1>3, <1>4, <2>1 DEF EndState
<1>6. PICK v : v = w \o c.sending
  OBVIOUS
<1>7. v \in Seq(Item) /\ ItemsOK(opener[st], e, y, v, a)
  BY <1>3, <1>5, <1>6, WriteItems
<1>8. StagesOK(opener[st], e, y, a)
  BY <1>3, <1>5 DEF StagesOK
<1>9. /\ d \in EndState
      /\ ItemsOK(opener[st], e, d, v, a) /\ StagesOK(opener[st], e, d, a)
      /\ WakesOK(opener[st], e, d)
      /\ d.closes => y.closes \/ Shut(opener[st], e, d)
      /\ y.target = "closed" => d = y
      /\ e = opener[st] => d.header = y.header
      /\ d.target = "none" <=> y.target = "none"
      /\ d.sock = "none" => y.sock = "none"
  <2>1. d \in TargetSendReady(e, st, y)
    BY <1>1, <1>4
  <2> QED BY <1>5, <1>7, <1>8, <2>1, SendReadyStep
<1>10. ASSUME Shut(opener[st], e, c)
       PROVE  Shut(opener[st], e, d) /\ ~d.closes
  BY <1>5, <1>9, <1>10 DEF Shut
<1> QED BY <1>1, <1>2, <1>3, <1>5, <1>6, <1>7, <1>9, <1>10 DEF Step

\* write_ready finds that the connection takes nothing.
LEMMA DueStep ==
    ASSUME TypeOK, EndsOK, NEW e \in Ends, NEW st \in Streams,
           NEW d, d = [Now(e, st) EXCEPT !.due = FALSE]
    PROVE  Step(opener[st], e, Now(e, st), d, out[e][st], arrived[e][st])
<1>1. PICK c : c = Now(e, st)
  OBVIOUS
<1>2. PICK w, a : w = out[e][st] /\ a = arrived[e][st]
  OBVIOUS
<1>3. /\ c \in EndState /\ c.closes = FALSE
      /\ ItemsOK(opener[st], e, c, w, a) /\ StagesOK(opener[st], e, c, a) /\ WakesOK(opener[st], e, c)
  BY <1>1, <1>2, NowFields DEF EndsOK
<1>4. /\ d \in EndState /\ d.target = c.target /\ d.header = c.header /\ d.error = c.error
      /\ d.sock = c.sock /\ d.buffer = c.buffer /\ d.sending = c.sending /\ d.closes = FALSE
  BY <1>1, <1>3 DEF EndState
<1>5. ItemsOK(opener[st], e, d, w, a)
  BY <1>3, <1>4, ItemsSame
<1>6. StagesOK(opener[st], e, d, a) /\ WakesOK(opener[st], e, d)
  BY <1>3, <1>4 DEF StagesOK, WakesOK
<1>7. Shut(opener[st], e, c) => Shut(opener[st], e, d)
  BY <1>4 DEF Shut
<1> QED BY <1>1, <1>2, <1>4, <1>5, <1>6, <1>7 DEF Step

\* The end of the outside connection is noticed.
LEMMA ErrorStep ==
    ASSUME TypeOK, EndsOK, NEW e \in Ends, NEW st \in Streams, target[e][st] = "attached",
           NEW d, d = Errored(Now(e, st)), sock[e][st] # "none"
    PROVE  Step(opener[st], e, Now(e, st), d, out[e][st], arrived[e][st])
<1>1. PICK c : c = Now(e, st)
  OBVIOUS
<1>2. PICK w \in Seq(Item), a \in Nat : w = out[e][st] /\ a = arrived[e][st]
  BY NowFields
<1>3. /\ c \in EndState /\ c.target = "attached" /\ c.sock # "none"
      /\ ItemsOK(opener[st], e, c, w, a) /\ StagesOK(opener[st], e, c, a)
  BY <1>1, <1>2, NowFields DEF EndsOK
<1>4. e # opener[st] => c.header = "done"
  BY <1>3 DEF StagesOK
<1>5. /\ d \in EndState /\ ItemsOK(opener[st], e, d, w, a) /\ StagesOK(opener[st], e, d, a)
      /\ WakesOK(opener[st], e, d) /\ d.target = "closed" /\ d.header = c.header
      /\ d.sock = "none" => c.sock = "none"
  BY <1>1, <1>3, <1>4, ClosedStages
<1>6. Shut(opener[st], e, d) /\ ~Shut(opener[st], e, c)
  BY <1>3, <1>4, <1>5 DEF Shut
<1> QED BY <1>1, <1>2, <1>3, <1>5, <1>6 DEF Step

-----------------------------------------------------------------------------
(* What Becomes makes of the whole.                                        *)

Only(f, g, e, st) == \A x \in Ends, y \in Streams : x # e \/ y # st => g[x][y] = f[x][y]

\* End e of a stream takes a step, whose result is d.
Moves(e, st, d, taken) ==
    /\ Becomes(e, st, d, taken) /\ taken \subseteq net[Other(e)]
    /\ opener[st] # "none"
    /\ Step(opener[st], e, Now(e, st), d, out'[e][st], arrived'[e][st])
    /\ out' \in EndsOf(Seq(Item)) /\ Only(out, out', e, st)
    /\ arrived' \in EndsOf(Nat) /\ Only(arrived, arrived', e, st)
    /\ arrived'[e][st] <= sent[Other(e)][st]
    /\ UNCHANGED <<setup, crashed, raw, opener, sources, sent>>

LEMMA MovesEnd ==
    ASSUME TypeOK, NEW e \in Ends, NEW st \in Streams, NEW d, NEW taken, Moves(e, st, d, taken)
    PROVE  /\ d \in EndState
           /\ target' \in EndsOf({"none", "attached", "closed"}) /\ Only(target, target', e, st)
           /\ buffer' \in EndsOf(Seq(Item)) /\ Only(buffer, buffer', e, st)
           /\ error' \in EndsOf(BOOLEAN) /\ Only(error, error', e, st)
           /\ sock' \in EndsOf({"none", "open", "closed"}) /\ Only(sock, sock', e, st)
           /\ sending' \in EndsOf(Seq(Item)) /\ Only(sending, sending', e, st)
           /\ write_due' \in EndsOf(BOOLEAN)
           /\ header' \in [Streams -> {"none", "fresh", "connecting", "done"}]
           /\ \A y \in Streams : y # st => header'[y] = header[y]
           /\ target'[e][st] = d.target /\ buffer'[e][st] = d.buffer /\ error'[e][st] = d.error
           /\ sock'[e][st] = d.sock /\ sending'[e][st] = d.sending /\ header'[st] = d.header
<1>1. d \in EndState
  BY DEF Moves, Step
<1>2. /\ d.target \in {"none", "attached", "closed"} /\ d.buffer \in Seq(Item)
      /\ d.header \in {"none", "fresh", "connecting", "done"} /\ d.error \in BOOLEAN
      /\ d.sock \in {"none", "open", "closed"} /\ d.sending \in Seq(Item) /\ d.due \in BOOLEAN
  BY <1>1 DEF EndState
<1>3. /\ target' = [target EXCEPT ![e][st] = d.target] /\ buffer' = [buffer EXCEPT ![e][st] = d.buffer]
      /\ header' = [header EXCEPT ![st] = d.header] /\ error' = [error EXCEPT ![e][st] = d.error]
      /\ sock' = [sock EXCEPT ![e][st] = d.sock] /\ sending' = [sending EXCEPT ![e][st] = d.sending]
      /\ write_due' = [write_due EXCEPT ![e][st] = d.due]
  BY DEF Moves, Becomes
<1>4. /\ target \in EndsOf({"none", "attached", "closed"})
      /\ buffer \in EndsOf(Seq(Item)) /\ sending \in EndsOf(Seq(Item))
      /\ error \in EndsOf(BOOLEAN) /\ write_due \in EndsOf(BOOLEAN)
      /\ sock \in EndsOf({"none", "open", "closed"})
      /\ header \in [Streams -> {"none", "fresh", "connecting", "done"}]
  BY DEF TypeOK
<1>5. /\ target' \in EndsOf({"none", "attached", "closed"}) /\ Only(target, target', e, st)
      /\ target'[e][st] = d.target
  BY <1>2, <1>3, <1>4 DEF EndsOf, Only
<1>6. /\ buffer' \in EndsOf(Seq(Item)) /\ Only(buffer, buffer', e, st)
      /\ buffer'[e][st] = d.buffer
  BY <1>2, <1>3, <1>4 DEF EndsOf, Only
<1>7. /\ error' \in EndsOf(BOOLEAN) /\ Only(error, error', e, st)
      /\ error'[e][st] = d.error
  BY <1>2, <1>3, <1>4 DEF EndsOf, Only
<1>8. /\ sock' \in EndsOf({"none", "open", "closed"}) /\ Only(sock, sock', e, st)
      /\ sock'[e][st] = d.sock
  BY <1>2, <1>3, <1>4 DEF EndsOf, Only
<1>9. /\ sending' \in EndsOf(Seq(Item)) /\ Only(sending, sending', e, st)
      /\ sending'[e][st] = d.sending
  BY <1>2, <1>3, <1>4 DEF EndsOf, Only
<1>10. write_due' \in EndsOf(BOOLEAN)
  BY <1>2, <1>3, <1>4 DEF EndsOf, Only
<1>11. /\ header' \in [Streams -> {"none", "fresh", "connecting", "done"}]
       /\ \A y \in Streams : y # st => header'[y] = header[y]
       /\ header'[st] = d.header
  BY <1>2, <1>3, <1>4
<1> QED BY <1>1, <1>5, <1>6, <1>7, <1>8, <1>9, <1>10, <1>11

\* The state of an end shows in these fields, and its header only at the end
\* that did not open the stream.
LEMMA EndSame ==
    ASSUME NEW p, NEW e, NEW c, NEW d, NEW w, NEW a,
           d.target = c.target, d.buffer = c.buffer, d.error = c.error, d.sock = c.sock,
           d.sending = c.sending, e # p => d.header = c.header
    PROVE  /\ ItemsOK(p, e, c, w, a) => ItemsOK(p, e, d, w, a)
           /\ StagesOK(p, e, c, a) => StagesOK(p, e, d, a)
           /\ WakesOK(p, e, c) => WakesOK(p, e, d)
           /\ Shut(p, e, c) => Shut(p, e, d)
<1>1. ItemsOK(p, e, c, w, a) => ItemsOK(p, e, d, w, a)
  BY ItemsSame
<1>2. StagesOK(p, e, c, a) => StagesOK(p, e, d, a)
  BY DEF StagesOK
<1>3. /\ WakesOK(p, e, c) => WakesOK(p, e, d)
      /\ Shut(p, e, c) => Shut(p, e, d)
  BY DEF WakesOK, Shut
<1> QED BY <1>1, <1>2, <1>3

LEMMA NowFieldsAfter ==
    ASSUME NEW e, NEW st
    PROVE  /\ Now(e, st)'.target = target'[e][st] /\ Now(e, st)'.buffer = buffer'[e][st]
           /\ Now(e, st)'.header = header'[st] /\ Now(e, st)'.error = error'[e][st]
           /\ Now(e, st)'.sock = sock'[e][st] /\ Now(e, st)'.sending = sending'[e][st]
BY DEF Now

LEMMA NowFieldsBefore ==
    ASSUME NEW e, NEW st
    PROVE  /\ Now(e, st).target = target[e][st] /\ Now(e, st).buffer = buffer[e][st]
           /\ Now(e, st).header = header[st] /\ Now(e, st).error = error[e][st]
           /\ Now(e, st).sock = sock[e][st] /\ Now(e, st).sending = sending[e][st]
BY DEF Now

\* An end that no step of its own has changed is as it was.
LEMMA EndKept ==
    ASSUME NEW x, NEW y, NEW p, NEW w, NEW a,
           target'[x][y] = target[x][y], buffer'[x][y] = buffer[x][y], error'[x][y] = error[x][y],
           sock'[x][y] = sock[x][y], sending'[x][y] = sending[x][y],
           x # p => header'[y] = header[y]
    PROVE  /\ ItemsOK(p, x, Now(x, y), w, a) => ItemsOK(p, x, Now(x, y)', w, a)
           /\ StagesOK(p, x, Now(x, y), a) => StagesOK(p, x, Now(x, y)', a)
           /\ WakesOK(p, x, Now(x, y)) => WakesOK(p, x, Now(x, y)')
           /\ Shut(p, x, Now(x, y)) => Shut(p, x, Now(x, y)')
<1>1. PICK c, d : c = Now(x, y) /\ d = Now(x, y)'
  OBVIOUS
<1>2. /\ d.target = c.target /\ d.buffer = c.buffer /\ d.error = c.error /\ d.sock = c.sock
      /\ d.sending = c.sending /\ (x # p => d.header = c.header)
  BY <1>1, NowFieldsAfter, NowFieldsBefore
<1>3. /\ ItemsOK(p, x, c, w, a) => ItemsOK(p, x, d, w, a)
      /\ StagesOK(p, x, c, a) => StagesOK(p, x, d, a)
      /\ WakesOK(p, x, c) => WakesOK(p, x, d)
      /\ Shut(p, x, c) => Shut(p, x, d)
  BY <1>2, EndSame
<1> QED BY <1>1, <1>3

\* After the step, end e is what d says and every other end is as it was.
LEMMA MovesNow ==
    ASSUME TypeOK, NEW e \in Ends, NEW st \in Streams, NEW d, NEW taken, Moves(e, st, d, taken),
           NEW x \in Ends, NEW y \in Streams, NEW w, NEW a
    PROVE  /\ x = e /\ y = st =>
                /\ ItemsOK(opener[y], x, d, w, a) => ItemsOK(opener[y], x, Now(x, y)', w, a)
                /\ StagesOK(opener[y], x, d, a) => StagesOK(opener[y], x, Now(x, y)', a)
                /\ WakesOK(opener[y], x, d) => WakesOK(opener[y], x, Now(x, y)')
                /\ Shut(opener[y], x, d) => Shut(opener[y], x, Now(x, y)')
           /\ x # e \/ y # st =>
                /\ ItemsOK(opener[y], x, Now(x, y), w, a) => ItemsOK(opener[y], x, Now(x, y)', w, a)
                /\ StagesOK(opener[y], x, Now(x, y), a) => StagesOK(opener[y], x, Now(x, y)', a)
                /\ WakesOK(opener[y], x, Now(x, y)) => WakesOK(opener[y], x, Now(x, y)')
                /\ Shut(opener[y], x, Now(x, y)) => Shut(opener[y], x, Now(x, y)')
<1>1. CASE x = e /\ y = st
  <2>1. PICK c, p : c = Now(x, y)' /\ p = opener[y]
    OBVIOUS
  <2>2. /\ c.target = d.target /\ c.buffer = d.buffer /\ c.error = d.error /\ c.sock = d.sock
        /\ c.sending = d.sending /\ c.header = d.header
    BY <1>1, <2>1, MovesEnd, NowFieldsAfter
  <2>3. /\ ItemsOK(p, x, d, w, a) => ItemsOK(p, x, c, w, a)
        /\ StagesOK(p, x, d, a) => StagesOK(p, x, c, a)
        /\ WakesOK(p, x, d) => WakesOK(p, x, c)
        /\ Shut(p, x, d) => Shut(p, x, c)
    BY <2>2, EndSame
  <2> QED BY <1>1, <2>1, <2>3
<1>2. CASE x # e \/ y # st
  <2>1. PICK p : p = opener[y]
    OBVIOUS
  <2>2. x # p => header'[y] = header[y]
    <3>1. CASE y # st
      BY <3>1, MovesEnd
    <3>2. CASE y = st /\ x # p
      <4>1. e = p
        BY <1>2, <2>1, <3>2, EndFacts DEF Moves, TypeOK, Ends
      <4>2. d.header = header[st]
        BY <2>1, <3>2, <4>1, NowFieldsBefore DEF Moves, Step
      <4> QED BY <3>2, <4>2, MovesEnd
    <3> QED BY <3>1, <3>2
  <2>3. /\ target'[x][y] = target[x][y] /\ buffer'[x][y] = buffer[x][y] /\ error'[x][y] = error[x][y]
        /\ sock'[x][y] = sock[x][y] /\ sending'[x][y] = sending[x][y]
    BY <1>2, MovesEnd DEF Only
  <2>4. /\ ItemsOK(p, x, Now(x, y), w, a) => ItemsOK(p, x, Now(x, y)', w, a)
        /\ StagesOK(p, x, Now(x, y), a) => StagesOK(p, x, Now(x, y)', a)
        /\ WakesOK(p, x, Now(x, y)) => WakesOK(p, x, Now(x, y)')
        /\ Shut(p, x, Now(x, y)) => Shut(p, x, Now(x, y)')
    BY <2>2, <2>3, EndKept
  <2> QED BY <1>2, <2>1, <2>4
<1> QED BY <1>1, <1>2

LEMMA MovesEndsOK ==
    ASSUME TypeOK, EndsOK, NEW e \in Ends, NEW st \in Streams, NEW d, NEW taken,
           Moves(e, st, d, taken)
    PROVE  EndsOK'
<1> SUFFICES ASSUME NEW x \in Ends, NEW y \in Streams
             PROVE  /\ ItemsOK(opener[y], x, Now(x, y)', out'[x][y], arrived'[x][y])
                    /\ StagesOK(opener[y], x, Now(x, y)', arrived'[x][y])
                    /\ WakesOK(opener[y], x, Now(x, y)')
  <2>1. opener' = opener
    BY DEF Moves
  <2> QED BY <2>1 DEF EndsOK
<1>1. PICK w, a : w = out'[x][y] /\ a = arrived'[x][y]
  OBVIOUS
<1>2. CASE x = e /\ y = st
  <2>1. ItemsOK(opener[y], x, d, w, a) /\ StagesOK(opener[y], x, d, a) /\ WakesOK(opener[y], x, d)
    BY <1>1, <1>2 DEF Moves, Step
  <2> QED BY <1>1, <1>2, <2>1, MovesNow
<1>3. CASE x # e \/ y # st
  <2>1. w = out[x][y] /\ a = arrived[x][y]
    BY <1>1, <1>3 DEF Moves, Only
  <2>2. /\ ItemsOK(opener[y], x, Now(x, y), w, a) /\ StagesOK(opener[y], x, Now(x, y), a)
        /\ WakesOK(opener[y], x, Now(x, y))
    BY <2>1 DEF EndsOK
  <2> QED BY <1>1, <1>3, <2>2, MovesNow
<1> QED BY <1>2, <1>3

\* The network and the queue of CLOSE packets after the step.
LEMMA MovesNet ==
    ASSUME TypeOK, NEW e \in Ends, NEW st \in Streams, NEW d, NEW taken, Moves(e, st, d, taken)
    PROVE  /\ special' \in [Ends -> Seq(Streams)] /\ net' \in [Ends -> SUBSET Packet]
           /\ special'[Other(e)] = special[Other(e)] /\ net'[Other(e)] = net[Other(e)] \ taken
           /\ ~d.closes => special'[e] = special[e] /\ net'[e] = net[e]
           /\ d.closes /\ Room(e) > 0 =>
                /\ special'[e] = Tail(Append(special[e], st))
                /\ net'[e] = net[e] \cup {ClosePacket(Append(special[e], st)[1])}
           /\ d.closes /\ ~(Room(e) > 0) =>
                special'[e] = Append(special[e], st) /\ net'[e] = net[e]
<1> DEFINE old == special[e]
           queue == IF d.closes THEN Append(old, st) ELSE old
           n == IF d.closes THEN Lesser(1, Room(e)) ELSE 0
           S == {[kind |-> "close", st |-> queue[i]] : i \in 1 .. n}
<1>1. /\ special \in [Ends -> Seq(Streams)] /\ net \in [Ends -> SUBSET Packet]
      /\ old \in Seq(Streams) /\ Room(e) \in Nat
  <2>1. IsFiniteSet(net[e]) /\ Cardinality(net[e]) <= QUEUE_SIZE /\ QUEUE_SIZE \in Nat
    BY TerminatorAssumption DEF TypeOK
  <2>2. Cardinality(net[e]) \in Nat
    BY <2>1, FS_CardinalityType
  <2> QED BY <2>1, <2>2 DEF TypeOK, Room
<1>2. /\ special' = [special EXCEPT ![e] = SubSeq(queue, n + 1, Len(queue))]
      /\ net' = [net EXCEPT ![Other(e)] = @ \ taken, ![e] = @ \cup S]
  BY DEF Moves, Becomes
<1>3. Other(e) \in Ends /\ Other(e) # e
  BY EndFacts
<1>4. CASE ~d.closes
  <2>1. queue = old /\ n = 0 /\ S = {}
    BY <1>4
  <2>2. SubSeq(old, 0 + 1, Len(old)) = old
    BY <1>1
  <2> HIDE DEF queue, n, S
  <2>3. special' = [special EXCEPT ![e] = old] /\ net' = [net EXCEPT ![Other(e)] = @ \ taken, ![e] = @ \cup {}]
    BY <1>2, <2>1, <2>2
  <2> QED BY <1>1, <1>3, <1>4, <2>3
<1>5. ASSUME d.closes
      PROVE  queue = Append(old, st) /\ queue \in Seq(Streams) /\ Len(queue) \in Nat /\ Len(queue) > 0
  BY <1>1, <1>5
<1>6. CASE d.closes /\ Room(e) > 0
  <2>1. n = 1 /\ S = {ClosePacket(queue[1])}
    <3>1. n = 1
      BY <1>1, <1>6 DEF Lesser
    <3> HIDE DEF n, queue
    <3> QED BY <3>1 DEF ClosePacket
  <2>2. queue = Append(old, st) /\ queue \in Seq(Streams) /\ Len(queue) > 0
    BY <1>5, <1>6
  <2>3. SubSeq(queue, 1 + 1, Len(queue)) = Tail(queue) /\ Tail(queue) \in Seq(Streams)
        /\ queue[1] \in Streams
    <3>1. PICK q \in Seq(Streams) : q = queue /\ Len(q) > 0
      BY <2>2
    <3>2. q # << >>
      BY <3>1
    <3>3. SubSeq(q, 1 + 1, Len(q)) = Tail(q) /\ Tail(q) \in Seq(Streams) /\ q[1] \in Streams
      BY <3>1, <3>2, HeadTailProperties
    <3> QED BY <3>1, <3>3
  <2>4. ClosePacket(queue[1]) \in Packet
    BY <2>3 DEF ClosePacket, Packet
  <2> HIDE DEF queue, n, S
  <2>5. /\ special' = [special EXCEPT ![e] = Tail(queue)]
        /\ net' = [net EXCEPT ![Other(e)] = @ \ taken, ![e] = @ \cup {ClosePacket(queue[1])}]
    BY <1>2, <2>1, <2>3
  <2> QED BY <1>1, <1>3, <1>6, <2>2, <2>3, <2>4, <2>5
<1>7. CASE d.closes /\ ~(Room(e) > 0)
  <2>1. n = 0 /\ S = {}
    BY <1>1, <1>7 DEF Lesser
  <2>2. queue = Append(old, st) /\ queue \in Seq(Streams)
    BY <1>5, <1>7
  <2>3. SubSeq(queue, 0 + 1, Len(queue)) = queue
    BY <2>2
  <2> HIDE DEF queue, n, S
  <2>4. special' = [special EXCEPT ![e] = queue] /\ net' = [net EXCEPT ![Other(e)] = @ \ taken, ![e] = @ \cup {}]
    BY <1>2, <2>1, <2>3
  <2> QED BY <1>1, <1>3, <1>7, <2>2, <2>4
<1> QED BY <1>4, <1>6, <1>7

LEMMA RoomNat ==
    ASSUME TypeOK, NEW e \in Ends
    PROVE  /\ Room(e) \in Nat /\ IsFiniteSet(net[e]) /\ Cardinality(net[e]) \in Nat
           /\ Room(e) = QUEUE_SIZE - Cardinality(net[e]) /\ QUEUE_SIZE \in Nat
<1>1. IsFiniteSet(net[e]) /\ Cardinality(net[e]) <= QUEUE_SIZE /\ QUEUE_SIZE \in Nat
  BY TerminatorAssumption DEF TypeOK
<1>2. Cardinality(net[e]) \in Nat
  BY <1>1, FS_CardinalityType
<1> QED BY <1>1, <1>2 DEF Room

\* One packet at most is added where it has room, and none elsewhere.
LEMMA MovesRoom ==
    ASSUME TypeOK, NEW e \in Ends, NEW st \in Streams, NEW d, NEW taken, Moves(e, st, d, taken),
           NEW x \in Ends
    PROVE  /\ IsFiniteSet(net'[x]) /\ Cardinality(net'[x]) \in Nat /\ Cardinality(net'[x]) <= QUEUE_SIZE
           /\ x = e => Cardinality(net'[x]) >= Cardinality(net[x])
<1>1. /\ IsFiniteSet(net[x]) /\ Cardinality(net[x]) \in Nat /\ Cardinality(net[x]) <= QUEUE_SIZE
      /\ QUEUE_SIZE \in Nat
  BY RoomNat DEF TypeOK
<1>2. CASE x = Other(e)
  <2>1. net'[x] \subseteq net[x] /\ x # e
    BY <1>2, MovesNet, EndFacts
  <2>2. IsFiniteSet(net'[x]) /\ Cardinality(net'[x]) <= Cardinality(net[x])
    BY <1>1, <2>1, FS_Subset
  <2>3. Cardinality(net'[x]) \in Nat
    BY <2>2, FS_CardinalityType
  <2> QED BY <1>1, <2>1, <2>2, <2>3
<1>3. CASE x = e /\ net'[x] = net[x]
  BY <1>1, <1>3
<1>4. CASE x = e /\ net'[x] # net[x]
  <2>1. PICK m : net'[x] = net[x] \cup {m} /\ Room(x) > 0
    BY <1>4, MovesNet
  <2>2. /\ IsFiniteSet(net[x] \cup {m})
        /\ Cardinality(net[x] \cup {m}) =
             IF m \in net[x] THEN Cardinality(net[x]) ELSE Cardinality(net[x]) + 1
    BY <1>1, FS_AddElement
  <2> QED BY <1>1, <2>1, <2>2, RoomNat
<1> QED BY <1>2, <1>3, <1>4, EndFacts

LEMMA MovesTypeOK ==
    ASSUME TypeOK, NEW e \in Ends, NEW st \in Streams, NEW d, NEW taken, Moves(e, st, d, taken)
    PROVE  TypeOK'
<1>1. /\ has_tun' = has_tun /\ has_transport' = has_transport /\ crashed' = crashed
      /\ raw_in' = raw_in /\ from_tun_queue' = from_tun_queue /\ raw_out' = raw_out
      /\ opener' = opener /\ written' = written /\ eof' = eof /\ sent' = sent
  BY DEF Moves, setup, raw, sources
<1>2. notify' \in [Ends -> BOOLEAN]
  BY EndFacts DEF Moves, Becomes, TypeOK
<1>3. Len(sending'[e][st]) <= 1
  <2>1. Len(d.sending) <= 1
    BY DEF Moves, Step, ItemsOK
  <2> QED BY <2>1, MovesEnd
<1>4. \A x \in Ends, y \in Streams : Len(sending'[x][y]) <= 1
  <2> SUFFICES ASSUME NEW x \in Ends, NEW y \in Streams
               PROVE  Len(sending'[x][y]) <= 1
    OBVIOUS
  <2>1. CASE x # e \/ y # st
    <3>1. sending'[x][y] = sending[x][y]
      BY <2>1, MovesEnd DEF Only
    <3> QED BY <3>1 DEF TypeOK
  <2> QED BY <1>3, <2>1
<1>5. \A x \in Ends, y \in Streams : arrived'[x][y] <= sent'[Other(x)][y]
  <2> SUFFICES ASSUME NEW x \in Ends, NEW y \in Streams
               PROVE  arrived'[x][y] <= sent[Other(x)][y]
    BY <1>1
  <2>1. CASE x = e /\ y = st
    BY <2>1 DEF Moves
  <2>2. CASE x # e \/ y # st
    <3>1. arrived'[x][y] = arrived[x][y]
      BY <2>2 DEF Moves, Only
    <3> QED BY <3>1 DEF TypeOK
  <2> QED BY <2>1, <2>2
<1>6. \A x \in Ends : IsFiniteSet(net'[x]) /\ Cardinality(net'[x]) <= QUEUE_SIZE
  BY MovesRoom
<1>7. out' \in EndsOf(Seq(Item)) /\ arrived' \in EndsOf(Nat)
  BY DEF Moves
<1>8. /\ has_tun' \in [Ends -> BOOLEAN] /\ has_transport' \in [Ends -> BOOLEAN]
      /\ crashed' \in [Ends -> {"no", "setup", "write"}]
      /\ raw_in' \in [Ends -> Nat] /\ from_tun_queue' \in [Ends -> Seq(Nat)]
      /\ raw_out' \in [Ends -> Seq(Nat)] /\ opener' \in [Streams -> Ends \cup {"none"}]
      /\ written' \in EndsOf(Nat) /\ sent' \in EndsOf(Nat) /\ eof' \in EndsOf(BOOLEAN)
      /\ \A x \in Ends : raw_in'[x] <= MaxRaw[x] /\ Len(from_tun_queue'[x]) <= MAX_TUN_QUEUE_SIZE + 1
      /\ \A x \in Ends, y \in Streams :
            written'[x][y] <= MaxChunks[x] /\ sent'[x][y] <= written'[x][y] + 1
  BY <1>1 DEF TypeOK
<1> QED BY <1>2, <1>4, <1>5, <1>6, <1>7, <1>8, MovesEnd, MovesNet, Zenon DEF TypeOK

LEMMA AppendDistinct ==
    ASSUME NEW q \in Seq(Streams), NEW st \in Streams, Distinct(q), ~Holds(q, st), NEW r, r = Append(q, st)
    PROVE  /\ r \in Seq(Streams) /\ r # << >> /\ Distinct(r)
           /\ \A x : Holds(r, x) <=> x = st \/ Holds(q, x)
<1>1. /\ r \in Seq(Streams) /\ Len(q) \in Nat /\ Len(r) = Len(q) + 1
      /\ DOMAIN q = 1 .. Len(q) /\ DOMAIN r = 1 .. Len(q) + 1
      /\ \A i \in 1 .. Len(q) : r[i] = q[i]
      /\ r[Len(q) + 1] = st
  OBVIOUS
<1>2. \A i \in DOMAIN r : i \in DOMAIN q \/ i = Len(q) + 1
  BY <1>1
<1>3. r # << >>
  BY <1>1
<1>4. Distinct(r)
  <2> SUFFICES ASSUME NEW i \in DOMAIN r, NEW j \in DOMAIN r, r[i] = r[j]
               PROVE  i = j
    BY DEF Distinct
  <2>1. CASE i \in DOMAIN q /\ j \in DOMAIN q
    BY <1>1, <2>1 DEF Distinct
  <2>2. CASE i \in DOMAIN q /\ j = Len(q) + 1
    BY <1>1, <2>2 DEF Holds
  <2>3. CASE j \in DOMAIN q /\ i = Len(q) + 1
    BY <1>1, <2>3 DEF Holds
  <2> QED BY <1>2, <2>1, <2>2, <2>3
<1>5. ASSUME NEW x
      PROVE  Holds(r, x) <=> x = st \/ Holds(q, x)
  <2>1. ASSUME Holds(r, x)
        PROVE  x = st \/ Holds(q, x)
    <3>1. PICK i \in DOMAIN r : r[i] = x
      BY <2>1 DEF Holds
    <3> QED BY <1>1, <1>2, <3>1 DEF Holds
  <2>2. ASSUME x = st
        PROVE  Holds(r, x)
    <3>1. Len(q) + 1 \in DOMAIN r
      BY <1>1
    <3> QED BY <1>1, <2>2, <3>1 DEF Holds
  <2>3. ASSUME Holds(q, x)
        PROVE  Holds(r, x)
    <3>1. PICK i \in DOMAIN q : q[i] = x
      BY <2>3 DEF Holds
    <3>2. i \in DOMAIN r /\ r[i] = x
      BY <1>1, <3>1
    <3> QED BY <3>2 DEF Holds
  <2> QED BY <2>1, <2>2, <2>3
<1> QED BY <1>1, <1>3, <1>4, <1>5

\* What is left of a queue when the first n are taken.
Dropped(q, n) == SubSeq(q, n + 1, Len(q))

LEMMA DropDistinct ==
    ASSUME NEW q \in Seq(Streams), Distinct(q), NEW n \in 0 .. Len(q), NEW r, r = Dropped(q, n)
    PROVE  /\ r \in Seq(Streams) /\ Distinct(r) /\ Len(r) = Len(q) - n
           /\ \A x : Holds(r, x) => Holds(q, x)
           /\ \A i \in 1 .. n : ~Holds(r, q[i]) /\ q[i] \in Streams
<1>1. /\ r \in Seq(Streams) /\ Len(q) \in Nat /\ Len(r) = Len(q) - n
      /\ DOMAIN q = 1 .. Len(q) /\ DOMAIN r = 1 .. Len(q) - n
      /\ \A i \in 1 .. Len(q) - n : r[i] = q[i + n]
  BY SubSeqProperties DEF Dropped
<1>2. \A i \in DOMAIN r : i + n \in DOMAIN q /\ i \in Nat /\ i > 0
  <2>1. PICK k \in Nat : k = Len(q)
    BY <1>1
  <2>2. n \in 0 .. k /\ DOMAIN q = 1 .. k /\ DOMAIN r = 1 .. k - n
    BY <1>1, <2>1
  <2> QED BY <2>2
<1>3. Distinct(r)
  <2> SUFFICES ASSUME NEW i \in DOMAIN r, NEW j \in DOMAIN r, r[i] = r[j]
               PROVE  i = j
    BY DEF Distinct
  <2>1. q[i + n] = q[j + n]
    BY <1>1
  <2>2. i + n = j + n
    BY <1>2, <2>1 DEF Distinct
  <2> QED BY <1>2, <2>2
<1>4. \A x : Holds(r, x) => Holds(q, x)
  BY <1>1, <1>2 DEF Holds
<1>5. ASSUME NEW i \in 1 .. n
      PROVE  ~Holds(r, q[i]) /\ q[i] \in Streams
  <2>1. i \in DOMAIN q
    <3>1. PICK k \in Nat : k = Len(q)
      BY <1>1
    <3>2. n \in 0 .. k /\ DOMAIN q = 1 .. k
      BY <1>1, <3>1
    <3> QED BY <3>2
  <2>2. ASSUME NEW j \in DOMAIN r, r[j] = q[i]
        PROVE  FALSE
    <3>1. q[j + n] = q[i]
      BY <1>1, <2>2
    <3>2. j + n = i
      BY <1>2, <2>1, <3>1 DEF Distinct
    <3> QED BY <1>2, <3>2
  <2> QED BY <2>1, <2>2 DEF Holds
<1> QED BY <1>1, <1>3, <1>4, <1>5

LEMMA CloseFacts ==
    /\ \A x, y : ClosePacket(x) = ClosePacket(y) => x = y
    /\ \A x : ClosePacket(x).kind = "close"
    /\ \A x \in Streams : ClosePacket(x) \in Packet
BY DEF ClosePacket, Packet

\* How the CLOSE packets of an end move, in one statement for both cases.
LEMMA MovesQueue ==
    ASSUME TypeOK, ClosesOK, NEW e \in Ends, NEW st \in Streams, NEW d, NEW taken,
           Moves(e, st, d, taken), NEW x \in Ends
    PROVE  /\ Distinct(special'[x])
           /\ \A y \in Streams : ~(Holds(special'[x], y) /\ ClosePacket(y) \in net'[x])
           /\ \A y \in Streams : Holds(special'[x], y) \/ ClosePacket(y) \in net'[x] =>
                 Holds(special[x], y) \/ ClosePacket(y) \in net[x] \/ (x = e /\ y = st /\ d.closes)
           /\ \A m \in net'[x] : m \in net[x] \/ m.kind = "close"
<1>1. /\ special[x] \in Seq(Streams) /\ Distinct(special[x])
      /\ \A y \in Streams : ~(Holds(special[x], y) /\ ClosePacket(y) \in net[x])
      /\ \A y \in Streams :
            Holds(special[x], y) \/ ClosePacket(y) \in net[x] => Shut(opener[y], x, Now(x, y))
  BY DEF TypeOK, ClosesOK
<1>2. CASE special'[x] = special[x] /\ net'[x] \subseteq net[x]
  BY <1>1, <1>2
<1>3. CASE x = e /\ d.closes
  <2>1. ~Shut(opener[st], e, Now(e, st))
    BY <1>3 DEF Moves, Step
  <2>2. ~Holds(special[e], st) /\ ClosePacket(st) \notin net[e]
    BY <1>1, <1>3, <2>1
  <2>3. PICK r : r = Append(special[e], st)
    OBVIOUS
  <2>4. /\ r \in Seq(Streams) /\ r # << >> /\ Distinct(r)
        /\ \A y : Holds(r, y) <=> y = st \/ Holds(special[e], y)
    BY <1>1, <1>3, <2>2, <2>3, AppendDistinct
  <2>5. CASE ~(Room(e) > 0)
    <3>1. special'[x] = r /\ net'[x] = net[x]
      BY <1>3, <2>3, <2>5, MovesNet
    <3> QED BY <1>1, <1>3, <2>2, <2>4, <3>1
  <2>6. CASE Room(e) > 0
    <3>1. special'[x] = Tail(r) /\ net'[x] = net[x] \cup {ClosePacket(r[1])}
      BY <1>3, <2>3, <2>6, MovesNet
    <3>2. 1 \in 0 .. Len(r) /\ Tail(r) = Dropped(r, 1) /\ 1 \in DOMAIN r
      BY <2>4 DEF Dropped
    <3>3. PICK t : t = Dropped(r, 1)
      OBVIOUS
    <3>4. /\ Distinct(t) /\ \A y : Holds(t, y) => Holds(r, y)
          /\ \A i \in 1 .. 1 : ~Holds(t, r[i]) /\ r[i] \in Streams
      BY <2>4, <3>2, <3>3, DropDistinct
    <3>5. Holds(r, r[1]) /\ ~Holds(t, r[1]) /\ special'[x] = t
      BY <3>1, <3>2, <3>3, <3>4 DEF Holds
    <3>6. \A m \in net'[x] : m \in net[x] \/ m.kind = "close"
      BY <3>1, CloseFacts
    <3>7. ASSUME NEW y \in Streams, ClosePacket(y) \in net'[x], ClosePacket(y) \notin net[x]
          PROVE  y = r[1]
      BY <3>1, <3>7, CloseFacts
    <3>8. ASSUME NEW y \in Streams
          PROVE  /\ ~(Holds(special'[x], y) /\ ClosePacket(y) \in net'[x])
                 /\ Holds(special'[x], y) \/ ClosePacket(y) \in net'[x] =>
                      Holds(special[x], y) \/ ClosePacket(y) \in net[x] \/ y = st
      <4>1. CASE ClosePacket(y) \in net[x]
        <5>1. ~Holds(special[x], y) /\ y # st
          BY <1>1, <1>3, <2>2, <4>1
        <5> QED BY <1>3, <2>4, <3>4, <3>5, <4>1, <5>1
      <4>2. CASE ClosePacket(y) \notin net[x]
        BY <1>3, <2>4, <3>4, <3>5, <3>7, <4>2
      <4> QED BY <4>1, <4>2
    <3> QED BY <1>3, <3>4, <3>5, <3>6, <3>8
  <2> QED BY <2>5, <2>6
<1>4. x # e \/ ~d.closes => special'[x] = special[x] /\ net'[x] \subseteq net[x]
  BY MovesNet, EndFacts
<1> QED BY <1>2, <1>3, <1>4

LEMMA MovesCloses ==
    ASSUME TypeOK, ClosesOK, NEW e \in Ends, NEW st \in Streams, NEW d, NEW taken,
           Moves(e, st, d, taken)
    PROVE  ClosesOK'
<1>0. opener' = opener
  BY DEF Moves
<1>1. ASSUME NEW x \in Ends, NEW y \in Streams, Holds(special'[x], y) \/ ClosePacket(y) \in net'[x]
      PROVE  Shut(opener[y], x, Now(x, y)')
  <2>1. Holds(special[x], y) \/ ClosePacket(y) \in net[x] \/ (x = e /\ y = st /\ d.closes)
    BY <1>1, MovesQueue
  <2>2. Shut(opener[y], x, Now(x, y)) \/ (x = e /\ y = st /\ d.closes)
    BY <2>1 DEF ClosesOK
  <2>3. CASE x = e /\ y = st
    <3>1. Shut(opener[y], x, d)
      BY <2>2, <2>3 DEF Moves, Step
    <3> QED BY <2>3, <3>1, MovesNow
  <2>4. CASE x # e \/ y # st
    BY <2>2, <2>4, MovesNow
  <2> QED BY <2>3, <2>4
<1>2. ASSUME NEW x \in Ends
      PROVE  /\ Distinct(special'[x])
             /\ \A y \in Streams : ~(Holds(special'[x], y) /\ ClosePacket(y) \in net'[x])
  BY MovesQueue
<1> QED BY <1>0, <1>1, <1>2 DEF ClosesOK

LEMMA MovesPackets ==
    ASSUME TypeOK, ClosesOK, PacketsOK, NEW e \in Ends, NEW st \in Streams, NEW d, NEW taken,
           Moves(e, st, d, taken)
    PROVE  PacketsOK'
<1>0. opener' = opener /\ sent' = sent
  BY DEF Moves
<1> SUFFICES ASSUME NEW x \in Ends, NEW m \in net'[x], m.kind = "data"
             PROVE  m.seq \in 1 .. sent[x][m.st] /\ m.item = Recv(x, m.st, m.seq)
  BY <1>0 DEF PacketsOK, Recv
<1>1. m \in net[x]
  BY MovesQueue
<1> QED BY <1>1 DEF PacketsOK

LEMMA RawFewer ==
    ASSUME NEW e, NEW w, NEW N, NEW M, NEW q, NEW k, RawFlow(e, w, N, q, k),
           \A m \in M : m.kind = "raw" => m \in N
    PROVE  RawFlow(e, w, M, q, k)
BY DEF RawFlow

LEMMA MovesRaw ==
    ASSUME TypeOK, ClosesOK, RawOK, NEW e \in Ends, NEW st \in Streams, NEW d, NEW taken,
           Moves(e, st, d, taken)
    PROVE  RawOK'
<1>1. raw_out' = raw_out /\ from_tun_queue' = from_tun_queue /\ raw_in' = raw_in
  BY DEF Moves, raw
<1>2. ASSUME NEW x \in Ends
      PROVE  RawFlow(x, raw_out[Other(x)], net'[x], from_tun_queue[x], raw_in[x])
  <2>1. \A m \in net'[x] : m.kind = "raw" => m \in net[x]
    BY MovesQueue
  <2> QED BY <2>1, RawFewer DEF RawOK
<1> QED BY <1>1, <1>2 DEF RawOK

LEMMA MovesSources ==
    ASSUME TypeOK, SourcesOK, NEW e \in Ends, NEW st \in Streams, NEW d, NEW taken,
           Moves(e, st, d, taken), crashed[e] = "no"
    PROVE  SourcesOK'
<1>1. /\ crashed' = crashed /\ opener' = opener /\ written' = written /\ eof' = eof /\ sent' = sent
  BY DEF Moves, sources
<1> SUFFICES ASSUME NEW x \in Ends, NEW y \in Streams
             PROVE  /\ sent[x][y] <= written[x][y] + (IF x = opener[y] THEN 1 ELSE 0)
                    /\ target'[x][y] = "none" => written[x][y] = 0 /\ sent[x][y] = 0
                    /\ opener[y] = "none" => target'[x][y] = "none" /\ header'[y] = "none"
                    /\ x = opener[y] /\ target'[x][y] = "none" => crashed[x] # "no"
                    /\ eof[x][y] => sock'[x][y] # "none"
  BY <1>1 DEF SourcesOK
<1>2. /\ sent[x][y] <= written[x][y] + (IF x = opener[y] THEN 1 ELSE 0)
      /\ target[x][y] = "none" => written[x][y] = 0 /\ sent[x][y] = 0
      /\ opener[y] = "none" => target[x][y] = "none" /\ header[y] = "none"
      /\ x = opener[y] /\ target[x][y] = "none" => crashed[x] # "no"
      /\ eof[x][y] => sock[x][y] # "none"
  BY DEF SourcesOK
<1>3. opener[st] # "none"
  BY DEF Moves
<1>4. CASE x = e /\ y = st
  <2>1. /\ target'[x][y] = "none" => target[x][y] = "none"
        /\ sock'[x][y] = "none" => sock[x][y] = "none"
    BY <1>4, MovesEnd, NowFieldsBefore DEF Moves, Step
  <2> QED BY <1>2, <1>3, <1>4, <2>1
<1>5. CASE x # e \/ y # st
  <2>1. target'[x][y] = target[x][y] /\ sock'[x][y] = sock[x][y]
    BY <1>5, MovesEnd DEF Only
  <2>2. opener[y] = "none" => header'[y] = header[y]
    BY <1>3, MovesEnd
  <2> QED BY <1>2, <2>1, <2>2
<1> QED BY <1>4, <1>5

\* Becomes takes nothing away that somebody waits for.
LEMMA MovesNetwork ==
    ASSUME TypeOK, SourcesOK, ClosesOK, NetworkOK, NEW e \in Ends, NEW st \in Streams,
           NEW d, NEW taken, Moves(e, st, d, taken), crashed[e] = "no"
    PROVE  NetworkOK'
<1>1. /\ has_transport' = has_transport /\ crashed' = crashed /\ from_tun_queue' = from_tun_queue
      /\ opener' = opener /\ written' = written /\ sent' = sent
  BY DEF Moves, setup, raw, sources
<1>2. notify' = IF taken = {} THEN notify ELSE [notify EXCEPT ![Other(e)] = TRUE]
  BY DEF Moves, Becomes
<1>3. notify \in [Ends -> BOOLEAN] /\ Other(e) \in Ends /\ Other(e) # e
  BY EndFacts DEF TypeOK
<1> SUFFICES ASSUME NEW x \in Ends, crashed[x] = "no", has_transport[x], Room(x)' > 0, ~notify'[x]
             PROVE  /\ from_tun_queue[x] = << >> /\ special'[x] = << >>
                    /\ \A y \in Streams : Readable(x, y)' = 0
  BY <1>1 DEF NetworkOK, Waiting
<1>4. ASSUME NEW y \in Streams, Readable(x, y) = 0
      PROVE  Readable(x, y)' = 0
  <2>1. CASE target'[x][y] = target[x][y]
    BY <1>1, <1>4, <2>1 DEF Readable
  <2>2. CASE target'[x][y] # target[x][y] /\ target'[x][y] = "attached"
    <3>1. x = e /\ y = st
      BY <2>2, MovesEnd DEF Only
    <3>2. /\ d.target = "attached" /\ Now(e, st).target = target[e][st]
          /\ target[e][st] \in {"none", "attached", "closed"}
      <4>1. target'[e][st] = d.target /\ Now(e, st).target = target[e][st]
        BY MovesEnd, NowFieldsBefore
      <4>2. target[e][st] \in {"none", "attached", "closed"}
        BY DEF TypeOK, EndsOf
      <4> QED BY <2>2, <3>1, <4>1, <4>2
    <3>3. CASE target[e][st] = "closed"
      <4> QED BY <3>2, <3>3 DEF Moves, Step
    <3>4. CASE target[e][st] = "none"
      <4>1. e # opener[st]
        BY <3>2, <3>4 DEF Moves, Step
      <4>2. written[e][st] = 0 /\ sent[e][st] = 0
        BY <3>4 DEF SourcesOK
      <4> QED BY <1>1, <3>1, <4>1, <4>2 DEF Readable
    <3> QED BY <2>2, <3>1, <3>2, <3>3, <3>4
  <2>3. CASE target'[x][y] # "attached"
    BY <2>3 DEF Readable
  <2> QED BY <2>1, <2>2, <2>3
<1>5. CASE x = e
  <2>1. ~notify[x]
    BY <1>2, <1>3, <1>5
  <2>2. Room(x) > 0
    <3>1. Cardinality(net'[x]) >= Cardinality(net[x]) /\ Cardinality(net'[x]) \in Nat
      BY <1>5, MovesRoom
    <3>2. Room(x)' = QUEUE_SIZE - Cardinality(net'[x])
      BY DEF Room
    <3> QED BY <3>1, <3>2, RoomNat
  <2>3. from_tun_queue[x] = << >> /\ special[x] = << >> /\ \A y \in Streams : Readable(x, y) = 0
    BY <2>1, <2>2 DEF NetworkOK, Waiting
  <2>4. special'[x] = << >>
    <3>1. Tail(Append(<< >>, st)) = << >>
      OBVIOUS
    <3>2. CASE d.closes
      <4>1. special'[e] = Tail(Append(special[e], st))
        BY <1>5, <2>2, <3>2, MovesNet
      <4> QED BY <1>5, <2>3, <3>1, <4>1
    <3>3. CASE ~d.closes
      BY <1>5, <2>3, <3>3, MovesNet
    <3> QED BY <3>2, <3>3
  <2> QED BY <1>4, <2>3, <2>4
<1>6. CASE x = Other(e)
  <2>1. taken = {} /\ ~notify[x]
    BY <1>2, <1>3, <1>6
  <2>2. net'[x] = net[x] /\ special'[x] = special[x]
    <3>1. net'[x] = net[x] \ taken /\ special'[x] = special[x]
      BY <1>6, MovesNet
    <3> QED BY <2>1, <3>1
  <2>3. Room(x) > 0
    BY <2>2 DEF Room
  <2>4. from_tun_queue[x] = << >> /\ special[x] = << >> /\ \A y \in Streams : Readable(x, y) = 0
    BY <2>1, <2>3 DEF NetworkOK, Waiting
  <2> QED BY <1>4, <2>2, <2>4
<1> QED BY <1>5, <1>6, EndFacts

LEMMA MovesInv ==
    ASSUME Inv, NEW e \in Ends, NEW st \in Streams, NEW d, NEW taken, Moves(e, st, d, taken),
           crashed[e] = "no"
    PROVE  Inv'
<1>1. TypeOK /\ EndsOK /\ SourcesOK /\ PacketsOK /\ ClosesOK /\ RawOK /\ SetupOK
      /\ ServerSetupSafe /\ NetworkOK
  BY DEF Inv
<1>2. TypeOK' /\ EndsOK' /\ SourcesOK'
  BY <1>1, MovesTypeOK, MovesEndsOK, MovesSources
<1>3. PacketsOK' /\ ClosesOK'
  BY <1>1, MovesPackets, MovesCloses
<1>4. RawOK' /\ NetworkOK'
  BY <1>1, MovesRaw, MovesNetwork
<1>5. SetupOK' /\ ServerSetupSafe'
  BY <1>1 DEF Moves, setup, SetupOK, ServerSetupSafe
<1> QED BY <1>2, <1>3, <1>4, <1>5 DEF Inv

-----------------------------------------------------------------------------
(* The actions that write to the streams.                                  *)

LEMMA StepsMoves ==
    ASSUME Inv, NEW e \in Ends, NEW st \in Streams, NEW d, opener[st] # "none", crashed[e] = "no",
           Becomes(e, st, d, {}), UNCHANGED <<setup, crashed, raw, opener, sources, sent, arrived>>,
           out' \in EndsOf(Seq(Item)), Only(out, out', e, st),
           Step(opener[st], e, Now(e, st), d, out'[e][st], arrived[e][st])
    PROVE  Inv'
<1>1. TypeOK
  BY DEF Inv
<1>2. /\ arrived' = arrived /\ arrived \in EndsOf(Nat) /\ arrived[e][st] <= sent[Other(e)][st]
      /\ Only(arrived, arrived, e, st)
  BY <1>1 DEF TypeOK, Only
<1>3. Moves(e, st, d, {})
  BY <1>2 DEF Moves
<1> QED BY <1>3, MovesInv

LEMMA SameOut ==
    ASSUME TypeOK, NEW e, NEW st, out' = out
    PROVE  out' \in EndsOf(Seq(Item)) /\ Only(out, out', e, st)
BY DEF TypeOK, Only

\* A stream that is connecting was opened at the other end.
LEMMA ConnectingEnd ==
    ASSUME Inv, NEW st \in Streams, header[st] = "connecting"
    PROVE  /\ opener[st] # "none" /\ Other(opener[st]) \in Ends
           /\ Other(opener[st]) # opener[st]
<1>1. opener[st] # "none"
  <2>1. "client" \in Ends
    BY DEF Ends
  <2> QED BY <2>1 DEF Inv, SourcesOK
<1>2. opener[st] \in Ends
  BY <1>1 DEF Inv, TypeOK
<1> QED BY <1>1, <1>2, EndFacts

LEMMA ConnectsInv ==
    ASSUME Inv, NEW st \in Streams, Connects(st)
    PROVE  Inv'
<1>1. PICK e : e = Other(opener[st])
  OBVIOUS
<1>2. crashed[e] = "no" /\ header[st] = "connecting"
  BY <1>1 DEF Connects
<1>3. e \in Ends /\ e # opener[st] /\ opener[st] # "none" /\ TypeOK /\ EndsOK
  BY <1>1, <1>2, ConnectingEnd DEF Inv
<1>4. PICK d \in NewStream(e, st, [Now(e, st) EXCEPT !.header = "done", !.sock = "open"]) :
         Becomes(e, st, d, {})
  BY <1>1 DEF Connects, Steps
<1>5. UNCHANGED <<setup, crashed, raw, opener, sources, sent, arrived>> /\ out' = out
  BY DEF Connects, Steps
<1>6. Step(opener[st], e, Now(e, st), d, out'[e][st], arrived[e][st])
  BY <1>2, <1>3, <1>5, ConnectStep
<1> QED BY <1>2, <1>3, <1>4, <1>5, <1>6, SameOut, StepsMoves

LEMMA ConnectFailsInv ==
    ASSUME Inv, NEW st \in Streams, ConnectFails(st)
    PROVE  Inv'
<1>1. PICK e : e = Other(opener[st])
  OBVIOUS
<1>2. crashed[e] = "no" /\ header[st] = "connecting"
  BY <1>1 DEF ConnectFails
<1>3. e \in Ends /\ e # opener[st] /\ opener[st] # "none" /\ TypeOK /\ EndsOK
  BY <1>1, <1>2, ConnectingEnd DEF Inv
<1>4. PICK d : d = Errored([Now(e, st) EXCEPT !.header = "done"]) /\ Becomes(e, st, d, {})
  BY <1>1 DEF ConnectFails, Steps
<1>5. UNCHANGED <<setup, crashed, raw, opener, sources, sent, arrived>> /\ out' = out
  BY DEF ConnectFails, Steps
<1>6. Step(opener[st], e, Now(e, st), d, out'[e][st], arrived[e][st])
  BY <1>2, <1>3, <1>4, <1>5, FailStep
<1> QED BY <1>2, <1>3, <1>4, <1>5, <1>6, SameOut, StepsMoves

\* A connection belongs to a stream that was opened.
LEMMA OpenEnd ==
    ASSUME Inv, NEW e \in Ends, NEW st \in Streams, sock[e][st] = "open" \/ target[e][st] = "attached"
    PROVE  opener[st] # "none" /\ TypeOK /\ EndsOK
<1>1. StagesOK(opener[st], e, Now(e, st), arrived[e][st])
  BY DEF Inv, EndsOK
<1>2. target[e][st] # "none"
  BY <1>1, NowFieldsBefore DEF StagesOK
<1> QED BY <1>2 DEF Inv, SourcesOK

LEMMA WritesInv ==
    ASSUME Inv, NEW e \in Ends, NEW st \in Streams, crashed[e] = "no", sock[e][st] = "open",
           Writes(e, st), UNCHANGED crashed
    PROVE  Inv'
<1>1. opener[st] # "none" /\ TypeOK /\ EndsOK
  BY OpenEnd
<1>2. PICK d \in TargetSendReady(e, st, [Now(e, st) EXCEPT !.sending = << >>, !.due = FALSE]) :
         Becomes(e, st, d, {})
  BY DEF Writes, Steps
<1>3. UNCHANGED <<setup, crashed, raw, opener, sources, sent, arrived>>
  BY DEF Writes, Steps
<1>4. PICK w : w = out[e][st] \o sending[e][st]
  OBVIOUS
<1>5. w \in Seq(Item) /\ Step(opener[st], e, Now(e, st), d, w, arrived[e][st])
  BY <1>1, <1>2, <1>4, WriteStep
<1>6. out' = [out EXCEPT ![e][st] = w] /\ out \in EndsOf(Seq(Item))
  BY <1>1, <1>4 DEF Writes, TypeOK
<1>7. out' \in EndsOf(Seq(Item)) /\ Only(out, out', e, st) /\ out'[e][st] = w
  BY <1>5, <1>6 DEF EndsOf, Only
<1> QED BY <1>1, <1>2, <1>3, <1>5, <1>7, StepsMoves

LEMMA WritableInv ==
    ASSUME Inv, NEW e \in Ends, NEW st \in Streams, Writable(e, st)
    PROVE  Inv'
BY WritesInv DEF Writable

LEMMA TargetErrorInv ==
    ASSUME Inv, NEW e \in Ends, NEW st \in Streams, TargetError(e, st)
    PROVE  Inv'
<1>1. crashed[e] = "no" /\ target[e][st] = "attached" /\ eof[e][st]
  BY DEF TargetError
<1>2. opener[st] # "none" /\ TypeOK /\ EndsOK /\ sock[e][st] # "none"
  BY <1>1, OpenEnd DEF Inv, SourcesOK
<1>3. PICK d : d = Errored(Now(e, st)) /\ Becomes(e, st, d, {})
  BY DEF TargetError, Steps
<1>4. UNCHANGED <<setup, crashed, raw, opener, sources, sent, arrived>> /\ out' = out
  BY DEF TargetError, Steps
<1>5. Step(opener[st], e, Now(e, st), d, out'[e][st], arrived[e][st])
  BY <1>1, <1>2, <1>3, <1>4, ErrorStep
<1> QED BY <1>1, <1>2, <1>3, <1>4, <1>5, SameOut, StepsMoves

LEMMA TcpErrInv ==
    ASSUME Inv, NEW e \in Ends, NEW st \in Streams, TcpErr(e, st)
    PROVE  Inv'
<1>1. crashed[e] = "no" /\ target[e][st] = "attached" /\ sock[e][st] = "open"
  BY DEF TcpErr
<1>2. opener[st] # "none" /\ TypeOK /\ EndsOK
  BY <1>1, OpenEnd DEF Inv
<1>3. PICK d : d = Errored(Now(e, st)) /\ Becomes(e, st, d, {})
  BY DEF TcpErr, Steps
<1>4. UNCHANGED <<setup, crashed, raw, opener, sources, sent, arrived>> /\ out' = out
  BY DEF TcpErr, Steps
<1>5. Step(opener[st], e, Now(e, st), d, out'[e][st], arrived[e][st])
  BY <1>1, <1>2, <1>3, <1>4, ErrorStep
<1> QED BY <1>1, <1>2, <1>3, <1>4, <1>5, SameOut, StepsMoves

\* A process that ends no longer counts.
LEMMA CrashInv ==
    ASSUME Inv, NEW e \in Ends, crashed' = [crashed EXCEPT ![e] = "write"],
           UNCHANGED <<setup, raw, opener, target, sources, sent, arrived, buffer, sinks, network>>
    PROVE  Inv'
<1>1. /\ has_tun' = has_tun /\ has_transport' = has_transport
      /\ raw_in' = raw_in /\ from_tun_queue' = from_tun_queue /\ raw_out' = raw_out
      /\ opener' = opener /\ target' = target /\ written' = written /\ eof' = eof /\ sent' = sent
      /\ arrived' = arrived /\ buffer' = buffer /\ header' = header /\ error' = error
      /\ sock' = sock /\ sending' = sending /\ write_due' = write_due /\ out' = out
      /\ net' = net /\ special' = special /\ notify' = notify
  BY DEF setup, raw, sources, sinks, network
<1>2. TypeOK /\ EndsOK /\ SourcesOK /\ PacketsOK /\ ClosesOK /\ RawOK /\ SetupOK
      /\ ServerSetupSafe /\ NetworkOK
  BY DEF Inv
<1>3. /\ crashed' \in [Ends -> {"no", "setup", "write"}]
      /\ \A x \in Ends : crashed'[x] = "no" \/ crashed'[x] = "setup" => crashed'[x] = crashed[x]
  BY <1>2 DEF TypeOK
<1>4. TypeOK'
  BY <1>1, <1>2, <1>3 DEF TypeOK
<1>5. \A x, y : Now(x, y)' = Now(x, y) /\ Readable(x, y)' = Readable(x, y) /\ Room(x)' = Room(x)
  BY <1>1 DEF Now, Readable, Room
<1>6. EndsOK' /\ ClosesOK'
  BY <1>1, <1>2, <1>5 DEF EndsOK, ClosesOK
<1>7. SourcesOK'
  BY <1>1, <1>2, <1>3 DEF SourcesOK
<1>8. PacketsOK' /\ RawOK'
  BY <1>1, <1>2 DEF PacketsOK, Recv, RawOK
<1>9. SetupOK' /\ ServerSetupSafe'
  BY <1>1, <1>2, <1>3 DEF SetupOK, ServerSetupSafe, Ends
<1>10. NetworkOK'
  BY <1>1, <1>2, <1>3, <1>5 DEF NetworkOK, Waiting
<1> QED BY <1>4, <1>6, <1>7, <1>8, <1>9, <1>10 DEF Inv

LEMMA WriteReadyInv ==
    ASSUME Inv, NEW e \in Ends, NEW st \in Streams, WriteReady(e, st)
    PROVE  Inv'
<1>0. crashed[e] = "no"
  BY DEF WriteReady
<1>1. CASE sock[e][st] = "open" /\ Writes(e, st) /\ UNCHANGED crashed
  BY <1>0, <1>1, WritesInv
<1>2. CASE /\ sock[e][st] = "open"
           /\ Steps(e, st, {[Now(e, st) EXCEPT !.due = FALSE]})
           /\ UNCHANGED <<crashed, out>>
  <2>1. opener[st] # "none" /\ TypeOK /\ EndsOK
    BY <1>2, OpenEnd
  <2>2. PICK d : d = [Now(e, st) EXCEPT !.due = FALSE] /\ Becomes(e, st, d, {})
    BY <1>2 DEF Steps
  <2>3. UNCHANGED <<setup, crashed, raw, opener, sources, sent, arrived>> /\ out' = out
    BY <1>2 DEF Steps
  <2>4. Step(opener[st], e, Now(e, st), d, out'[e][st], arrived[e][st])
    BY <2>1, <2>2, <2>3, DueStep
  <2> QED BY <1>0, <2>1, <2>2, <2>3, <2>4, SameOut, StepsMoves
<1>3. CASE /\ crashed' = [crashed EXCEPT ![e] = "write"]
           /\ UNCHANGED <<setup, raw, opener, target, sources, sent, arrived, buffer, sinks, network>>
  BY <1>3, CrashInv
<1> QED BY <1>1, <1>2, <1>3 DEF WriteReady

\* A packet in the network belongs to a stream that its sender has, and the
\* receiver lacks it only if the sender has opened it.
LEMMA PacketStream ==
    ASSUME Inv, NEW e \in Ends, NEW m \in net[Other(e)], m.kind \in {"data", "close"}, crashed[e] = "no"
    PROVE  /\ m.st \in Streams /\ opener[m.st] \in Ends
           /\ target[e][m.st] = "none" => e # opener[m.st]
           /\ m.kind = "data" => /\ m.seq \in 1 .. sent[Other(e)][m.st] /\ m.item \in Item
                                 /\ m.item = Recv(Other(e), m.st, m.seq)
<1>1. Other(e) \in Ends /\ m \in Packet
  BY EndFacts DEF Inv, TypeOK
<1>2. m.st \in Streams /\ (m.kind = "data" => m.item \in Item) /\ (m.kind = "close" => m = ClosePacket(m.st))
  BY <1>1 DEF Packet, ClosePacket
<1>3. m.kind = "data" => m.seq \in 1 .. sent[Other(e)][m.st] /\ m.item = Recv(Other(e), m.st, m.seq)
  BY <1>1 DEF Inv, PacketsOK
<1>4. target[Other(e)][m.st] # "none"
  <2>1. CASE m.kind = "data"
    <3>1. sent[Other(e)][m.st] # 0
      BY <1>3, <2>1
    <3> QED BY <1>1, <1>2, <3>1 DEF Inv, SourcesOK
  <2>2. CASE m.kind = "close"
    <3>1. ClosePacket(m.st) \in net[Other(e)]
      BY <1>2, <2>2
    <3>2. Shut(opener[m.st], Other(e), Now(Other(e), m.st))
      BY <1>1, <1>2, <3>1 DEF Inv, ClosesOK
    <3> QED BY <3>2, NowFieldsBefore DEF Shut
  <2> QED BY <2>1, <2>2
<1>5. opener[m.st] # "none" /\ (target[e][m.st] = "none" => e # opener[m.st])
  BY <1>1, <1>2, <1>4 DEF Inv, SourcesOK
<1> QED BY <1>2, <1>3, <1>5 DEF Inv, TypeOK

LEMMA DataArrivesInv ==
    ASSUME Inv, NEW e \in Ends, NEW m \in net[Other(e)], Running(e), DataArrives(e, m),
           UNCHANGED <<setup, crashed, raw_in, from_tun_queue, opener, sources, sent, out>>
    PROVE  Inv'
<1>1. m.kind = "data" /\ m.seq = arrived[e][m.st] + 1 /\ crashed[e] = "no" /\ TypeOK /\ EndsOK
  BY DEF DataArrives, Running, Inv
<1>2. PICK st \in Streams : st = m.st
  BY <1>1, PacketStream
<1>3. /\ opener[st] \in Ends /\ (target[e][st] = "none" => e # opener[st])
      /\ m.seq \in 1 .. sent[Other(e)][st] /\ m.item \in Item
      /\ m.item = Recv(Other(e), st, m.seq)
  BY <1>1, <1>2, PacketStream
<1>4. PICK a \in Nat : a = arrived[e][st]
  BY <1>1 DEF TypeOK, EndsOf
<1>5. m.item = (IF e # opener[st] THEN a ELSE a + 1) /\ a + 1 <= sent[Other(e)][st]
  <2>1. Other(e) = opener[st] <=> e # opener[st]
    BY <1>3, EndFacts
  <2>2. sent[Other(e)][st] \in Nat
    BY <1>1, EndFacts DEF TypeOK, EndsOf
  <2> QED BY <1>1, <1>2, <1>3, <1>4, <2>1, <2>2 DEF Recv
<1>6. PICK d \in AfterData(e, st, Child(e, st), m.item) : Becomes(e, st, d, {m})
  BY <1>2 DEF DataArrives, AfterData, Placed
<1>7. arrived' = [arrived EXCEPT ![e][st] = a + 1] /\ raw_out' = raw_out
  BY <1>2, <1>4 DEF DataArrives
<1>8. arrived' \in EndsOf(Nat) /\ Only(arrived, arrived', e, st) /\ arrived'[e][st] = a + 1
  <2>1. a + 1 \in Nat /\ arrived \in EndsOf(Nat)
    BY <1>1 DEF TypeOK
  <2> QED BY <1>7, <2>1 DEF EndsOf, Only
<1>9. Step(opener[st], e, Now(e, st), d, out[e][st], a + 1)
  BY <1>1, <1>3, <1>4, <1>5, <1>6, DataStep
<1>10. out' \in EndsOf(Seq(Item)) /\ Only(out, out', e, st) /\ out'[e][st] = out[e][st]
  BY <1>1, SameOut
<1>11. UNCHANGED <<setup, crashed, raw, opener, sources, sent>>
  BY <1>7 DEF raw
<1>12. opener[st] # "none"
  BY <1>3 DEF Ends
<1>13. Moves(e, st, d, {m})
  BY <1>5, <1>6, <1>8, <1>9, <1>10, <1>11, <1>12 DEF Moves
<1> QED BY <1>1, <1>13, MovesInv

LEMMA CloseArrivesInv ==
    ASSUME Inv, NEW e \in Ends, NEW m \in net[Other(e)], Running(e), CloseArrives(e, m),
           UNCHANGED <<setup, crashed, raw_in, from_tun_queue, opener, sources, sent, out>>
    PROVE  Inv'
<1>1. m.kind = "close" /\ crashed[e] = "no" /\ TypeOK /\ EndsOK
  BY DEF CloseArrives, Running, Inv
<1>2. PICK st \in Streams : st = m.st
  BY <1>1, PacketStream
<1>3. opener[st] \in Ends /\ (target[e][st] = "none" => e # opener[st])
  BY <1>1, <1>2, PacketStream
<1>4. PICK d : d = AfterClose(Child(e, st)) /\ Becomes(e, st, d, {m})
  BY <1>2 DEF CloseArrives, AfterClose
<1>5. arrived' = arrived /\ raw_out' = raw_out
  BY DEF CloseArrives
<1>6. arrived' \in EndsOf(Nat) /\ Only(arrived, arrived', e, st) /\ arrived'[e][st] <= sent[Other(e)][st]
  BY <1>1, <1>5 DEF TypeOK, Only
<1>7. Step(opener[st], e, Now(e, st), d, out'[e][st], arrived'[e][st])
  BY <1>1, <1>3, <1>4, <1>5, CloseStep
<1>8. out' \in EndsOf(Seq(Item)) /\ Only(out, out', e, st)
  BY <1>1, SameOut
<1>9. UNCHANGED <<setup, crashed, raw, opener, sources, sent>>
  BY <1>5 DEF raw
<1>10. opener[st] # "none"
  BY <1>3 DEF Ends
<1>11. Moves(e, st, d, {m})
  BY <1>4, <1>6, <1>7, <1>8, <1>9, <1>10 DEF Moves
<1> QED BY <1>1, <1>11, MovesInv

-----------------------------------------------------------------------------
(* The actions that leave the ends of the streams alone.                   *)

Still == UNCHANGED <<opener, target, arrived, buffer, sinks>>

LEMMA StillFacts ==
    ASSUME EndsOK, Still
    PROVE  /\ opener' = opener /\ target' = target /\ arrived' = arrived /\ buffer' = buffer
           /\ header' = header /\ error' = error /\ sock' = sock /\ sending' = sending
           /\ write_due' = write_due /\ out' = out
           /\ \A x, y : Now(x, y)' = Now(x, y)
           /\ EndsOK'
<1>1. /\ opener' = opener /\ target' = target /\ arrived' = arrived /\ buffer' = buffer
      /\ header' = header /\ error' = error /\ sock' = sock /\ sending' = sending
      /\ write_due' = write_due /\ out' = out
  BY DEF Still, sinks
<1>2. \A x, y : Now(x, y)' = Now(x, y)
  BY <1>1 DEF Now
<1> QED BY <1>1, <1>2 DEF EndsOK

\* CLOSE packets stay where they are.
LEMMA StillCloses ==
    ASSUME TypeOK, EndsOK, ClosesOK, Still, special' = special,
           \A x \in Ends, y \in Streams : ClosePacket(y) \in net'[x] => ClosePacket(y) \in net[x]
    PROVE  ClosesOK'
<1>1. opener' = opener /\ \A x, y : Now(x, y)' = Now(x, y)
  BY StillFacts
<1>2. ASSUME NEW x \in Ends
      PROVE  /\ Distinct(special[x])
             /\ \A y \in Streams : ~(Holds(special[x], y) /\ ClosePacket(y) \in net'[x])
             /\ \A y \in Streams :
                  Holds(special[x], y) \/ ClosePacket(y) \in net'[x] => Shut(opener[y], x, Now(x, y))
  BY DEF ClosesOK
<1> QED BY <1>1, <1>2 DEF ClosesOK

LEMMA SetTunInv ==
    ASSUME Inv, NEW e \in Ends, SetTun(e)
    PROVE  Inv'
<1>1. TypeOK /\ EndsOK /\ SourcesOK /\ PacketsOK /\ ClosesOK /\ RawOK /\ SetupOK
      /\ ServerSetupSafe /\ NetworkOK
  BY DEF Inv
<1>2. /\ Still /\ has_transport' = has_transport /\ crashed' = crashed /\ raw_in' = raw_in
      /\ from_tun_queue' = from_tun_queue /\ raw_out' = raw_out /\ written' = written /\ eof' = eof
      /\ sent' = sent /\ net' = net /\ special' = special /\ notify' = notify
      /\ has_tun' = [has_tun EXCEPT ![e] = TRUE] /\ (e = "client" \/ has_transport[e])
  BY DEF SetTun, Still, raw, sources, network, TunFirst
<1>3. /\ opener' = opener /\ target' = target /\ arrived' = arrived /\ buffer' = buffer
      /\ header' = header /\ error' = error /\ sock' = sock /\ sending' = sending
      /\ write_due' = write_due /\ out' = out /\ EndsOK'
  BY <1>1, <1>2, StillFacts
<1>4. TypeOK'
  BY <1>1, <1>2, <1>3 DEF TypeOK
<1>5. SourcesOK' /\ PacketsOK' /\ RawOK' /\ ServerSetupSafe'
  BY <1>1, <1>2, <1>3 DEF SourcesOK, PacketsOK, Recv, RawOK, ServerSetupSafe
<1>6. ClosesOK'
  BY <1>1, <1>2, StillCloses
<1>7. SetupOK'
  BY <1>1, <1>2 DEF SetupOK, TypeOK, Ends
<1>8. NetworkOK'
  BY <1>1, <1>2, <1>3 DEF NetworkOK, Waiting, Room, Readable
<1> QED BY <1>3, <1>4, <1>5, <1>6, <1>7, <1>8 DEF Inv

LEMMA SetTransportInv ==
    ASSUME Inv, NEW e \in Ends, SetTransport(e)
    PROVE  Inv'
<1>1. TypeOK /\ EndsOK /\ SourcesOK /\ PacketsOK /\ ClosesOK /\ RawOK /\ SetupOK
      /\ ServerSetupSafe /\ NetworkOK
  BY DEF Inv
<1>2. /\ Still /\ has_tun' = has_tun /\ crashed' = crashed /\ raw_in' = raw_in
      /\ from_tun_queue' = from_tun_queue /\ raw_out' = raw_out /\ written' = written /\ eof' = eof
      /\ sent' = sent /\ net' = net /\ special' = special
      /\ notify' = [notify EXCEPT ![e] = TRUE]
      /\ has_transport' = [has_transport EXCEPT ![e] = TRUE]
  BY DEF SetTransport, Still, raw, sources
<1>3. /\ opener' = opener /\ target' = target /\ arrived' = arrived /\ buffer' = buffer
      /\ header' = header /\ error' = error /\ sock' = sock /\ sending' = sending
      /\ write_due' = write_due /\ out' = out /\ EndsOK'
  BY <1>1, <1>2, StillFacts
<1>4. TypeOK'
  BY <1>1, <1>2, <1>3 DEF TypeOK
<1>5. SourcesOK' /\ PacketsOK' /\ RawOK' /\ ServerSetupSafe'
  BY <1>1, <1>2, <1>3 DEF SourcesOK, PacketsOK, Recv, RawOK, ServerSetupSafe
<1>6. ClosesOK'
  BY <1>1, <1>2, StillCloses
<1>7. SetupOK'
  BY <1>1, <1>2 DEF SetupOK, TypeOK, Ends
<1>8. NetworkOK'
  <2>1. ASSUME NEW x \in Ends, crashed'[x] = "no"
        PROVE  Waiting(x)'
    <3>1. CASE x = e
      BY <1>1, <1>2, <3>1 DEF Waiting, TypeOK
    <3>2. CASE x # e
      <4>1. Waiting(x) /\ has_transport'[x] = has_transport[x] /\ notify'[x] = notify[x]
        BY <1>1, <1>2, <2>1, <3>2 DEF NetworkOK, TypeOK
      <4> QED BY <1>2, <1>3, <4>1 DEF Waiting, Room, Readable
    <3> QED BY <3>1, <3>2
  <2> QED BY <2>1 DEF NetworkOK
<1> QED BY <1>3, <1>4, <1>5, <1>6, <1>7, <1>8 DEF Inv

LEMMA OutsideClosesInv ==
    ASSUME Inv, NEW e \in Ends, NEW st \in Streams, OutsideCloses(e, st)
    PROVE  Inv'
<1>1. TypeOK /\ EndsOK /\ SourcesOK /\ PacketsOK /\ ClosesOK /\ RawOK /\ SetupOK
      /\ ServerSetupSafe /\ NetworkOK
  BY DEF Inv
<1>2. /\ Still /\ has_tun' = has_tun /\ has_transport' = has_transport /\ crashed' = crashed
      /\ raw_in' = raw_in /\ from_tun_queue' = from_tun_queue /\ raw_out' = raw_out
      /\ written' = written /\ sent' = sent /\ net' = net /\ special' = special /\ notify' = notify
      /\ eof' = [eof EXCEPT ![e][st] = TRUE] /\ sock[e][st] = "open"
  BY DEF OutsideCloses, Still, setup, raw, network
<1>3. /\ opener' = opener /\ target' = target /\ arrived' = arrived /\ buffer' = buffer
      /\ header' = header /\ error' = error /\ sock' = sock /\ sending' = sending
      /\ write_due' = write_due /\ out' = out /\ EndsOK'
  BY <1>1, <1>2, StillFacts
<1>4. eof' \in EndsOf(BOOLEAN) /\ \A x \in Ends, y \in Streams : eof'[x][y] => eof[x][y] \/ sock[x][y] = "open"
  BY <1>1, <1>2 DEF TypeOK, EndsOf
<1>5. TypeOK'
  BY <1>1, <1>2, <1>3, <1>4 DEF TypeOK
<1>6. SourcesOK'
  BY <1>1, <1>2, <1>3, <1>4 DEF SourcesOK
<1>7. PacketsOK' /\ RawOK' /\ ServerSetupSafe' /\ SetupOK'
  BY <1>1, <1>2, <1>3 DEF PacketsOK, Recv, RawOK, ServerSetupSafe, SetupOK
<1>8. ClosesOK'
  BY <1>1, <1>2, StillCloses
<1>9. NetworkOK'
  BY <1>1, <1>2, <1>3 DEF NetworkOK, Waiting, Room, Readable
<1> QED BY <1>3, <1>5, <1>6, <1>7, <1>8, <1>9 DEF Inv

LEMMA AppendNat ==
    ASSUME NEW s \in Seq(Nat), NEW x \in Nat, NEW r, r = Append(s, x)
    PROVE  /\ r \in Seq(Nat) /\ Len(s) \in Nat /\ Len(r) = Len(s) + 1
           /\ \A i \in DOMAIN r : (i \in DOMAIN s /\ r[i] = s[i] /\ r[i] \in Nat) \/ (i = Len(s) + 1 /\ r[i] = x)
           /\ \A i \in DOMAIN s : i \in DOMAIN r /\ i < Len(s) + 1 /\ i \in Nat
<1>1. /\ r \in Seq(Nat) /\ Len(s) \in Nat /\ Len(r) = Len(s) + 1
      /\ DOMAIN s = 1 .. Len(s) /\ DOMAIN r = 1 .. Len(s) + 1
      /\ \A i \in 1 .. Len(s) : r[i] = s[i] /\ s[i] \in Nat
      /\ r[Len(s) + 1] = x
  BY AppendProperties, SMTT(30)
<1>2. PICK k \in Nat : k = Len(s)
  BY <1>1
<1>3. /\ \A i \in 1 .. k + 1 : i \in 1 .. k \/ i = k + 1
      /\ \A i \in 1 .. k : i \in 1 .. k + 1 /\ i < k + 1 /\ i \in Nat
  OBVIOUS
<1>4. ASSUME NEW i \in DOMAIN r
      PROVE  (i \in DOMAIN s /\ r[i] = s[i] /\ r[i] \in Nat) \/ (i = Len(s) + 1 /\ r[i] = x)
  <2>1. i \in 1 .. k \/ i = k + 1
    BY <1>1, <1>2, <1>3
  <2>2. CASE i \in 1 .. k
    <3>1. i \in 1 .. Len(s)
      BY <1>2, <2>2
    <3>2. i \in DOMAIN s /\ r[i] = s[i] /\ s[i] \in Nat
      BY <1>1, <3>1
    <3> QED BY <3>2
  <2>3. CASE i = k + 1
    BY <1>1, <1>2, <2>3
  <2> QED BY <2>1, <2>2, <2>3
<1>5. ASSUME NEW i \in DOMAIN s
      PROVE  i \in DOMAIN r /\ i < Len(s) + 1 /\ i \in Nat
  BY <1>1, <1>2, <1>3
<1> QED BY <1>1, <1>4, <1>5

LEMMA AppendIncreasing ==
    ASSUME NEW s \in Seq(Nat), NEW x \in Nat, Increasing(s), \A i \in DOMAIN s : s[i] < x
    PROVE  Increasing(Append(s, x))
<1>1. PICK r : r = Append(s, x)
  OBVIOUS
<1>2. /\ r \in Seq(Nat) /\ Len(s) \in Nat
      /\ \A i \in DOMAIN r : (i \in DOMAIN s /\ r[i] = s[i] /\ r[i] \in Nat) \/ (i = Len(s) + 1 /\ r[i] = x)
      /\ \A i \in DOMAIN s : i \in DOMAIN r /\ i < Len(s) + 1 /\ i \in Nat
  BY <1>1, AppendNat
<1>3. ASSUME NEW i \in DOMAIN r, NEW j \in DOMAIN r, i < j
      PROVE  r[i] < r[j]
  <2>1. CASE i \in DOMAIN s /\ j \in DOMAIN s /\ r[i] = s[i] /\ r[j] = s[j]
    BY <1>3, <2>1 DEF Increasing
  <2>2. CASE i \in DOMAIN s /\ j = Len(s) + 1 /\ r[i] = s[i] /\ r[j] = x
    BY <2>2
  <2>3. CASE i = Len(s) + 1
    <3>1. PICK k \in Nat : k = Len(s)
      BY <1>2
    <3>2. j \in Nat /\ j <= k + 1
      BY <1>2, <3>1
    <3> QED BY <1>3, <2>3, <3>1, <3>2
  <2> QED BY <1>2, <2>1, <2>2, <2>3
<1> QED BY <1>1, <1>3 DEF Increasing

\* The least packet of the network is written.
LEMMA RawTaken ==
    ASSUME NEW e, NEW w \in Seq(Nat), NEW N \in SUBSET Packet, NEW q, NEW k \in Nat, NEW m \in N,
           RawFlow(e, w, N, q, k), m.kind = "raw", \A l \in N : l.kind = "raw" => l.n >= m.n
    PROVE  RawFlow(e, Append(w, m.n), N \ {m}, q, k) /\ m.n \in Nat
<1>1. \A l \in N : l.kind = "raw" => l.n \in Nat /\ (l.n = m.n => l = m)
  BY DEF Packet
<1>2. PICK v : v = Append(w, m.n)
  OBVIOUS
<1>3. /\ v \in Seq(Nat) /\ Len(w) \in Nat
      /\ \A i \in DOMAIN v : (i \in DOMAIN w /\ v[i] = w[i] /\ v[i] \in Nat) \/ (i = Len(w) + 1 /\ v[i] = m.n)
  BY <1>1, <1>2, AppendNat
<1>4. Increasing(v)
  BY <1>1, <1>2, AppendIncreasing DEF RawFlow
<1>5. \A l \in N \ {m} : l.kind = "raw" => m.n < l.n
  BY <1>1
<1>6. ASSUME NEW i \in DOMAIN v
      PROVE  /\ v[i] <= k /\ Checked(e, v[i])
             /\ \A l \in N \ {m} : l.kind = "raw" => v[i] < l.n
             /\ \A j \in DOMAIN q : v[i] < q[j]
  <2>1. CASE i \in DOMAIN w /\ v[i] = w[i]
    BY <2>1 DEF RawFlow
  <2>2. CASE v[i] = m.n
    BY <1>5, <2>2 DEF RawFlow
  <2> QED BY <1>3, <2>1, <2>2
<1>7. RawFlow(e, v, N \ {m}, q, k)
  BY <1>4, <1>6 DEF RawFlow
<1> QED BY <1>1, <1>2, <1>7

LEMMA RawArrivesInv ==
    ASSUME Inv, NEW e \in Ends, NEW m \in net[Other(e)], Running(e), RawArrives(e, m),
           UNCHANGED <<setup, crashed, raw_in, from_tun_queue, opener, sources, sent, out>>
    PROVE  Inv'
<1>1. TypeOK /\ EndsOK /\ SourcesOK /\ PacketsOK /\ ClosesOK /\ RawOK /\ SetupOK
      /\ ServerSetupSafe /\ NetworkOK
  BY DEF Inv
<1>2. PICK o \in Ends : o = Other(e) /\ o # e /\ e = Other(o)
  BY EndFacts
<1>3. /\ Still /\ has_tun' = has_tun /\ has_transport' = has_transport /\ crashed' = crashed
      /\ raw_in' = raw_in /\ from_tun_queue' = from_tun_queue
      /\ written' = written /\ eof' = eof /\ sent' = sent /\ special' = special
      /\ raw_out' = [raw_out EXCEPT ![e] = Append(@, m.n)]
      /\ net' = [net EXCEPT ![o] = @ \ {m}] /\ notify' = [notify EXCEPT ![o] = TRUE]
      /\ m.kind = "raw" /\ \A l \in net[o] : l.kind = "raw" => l.n >= m.n
  BY <1>2 DEF RawArrives, Still, setup, sources, sinks
<1>4. /\ opener' = opener /\ target' = target /\ arrived' = arrived /\ buffer' = buffer
      /\ header' = header /\ error' = error /\ sock' = sock /\ sending' = sending
      /\ write_due' = write_due /\ out' = out /\ EndsOK'
  BY <1>1, <1>3, StillFacts
<1>5. /\ net' \in [Ends -> SUBSET Packet] /\ net'[o] = net[o] \ {m} /\ net'[e] = net[e]
      /\ notify' \in [Ends -> BOOLEAN] /\ notify'[o] = TRUE /\ notify'[e] = notify[e]
  BY <1>1, <1>2, <1>3 DEF TypeOK
<1>6. \A x \in Ends : x = o \/ x = e
  BY <1>2, EndFacts
<1>7. \A x \in Ends : net'[x] \subseteq net[x]
  BY <1>5, <1>6
<1>8. RawFlow(o, Append(raw_out[e], m.n), net[o] \ {m}, from_tun_queue[o], raw_in[o]) /\ m.n \in Nat
  <2>1. RawFlow(o, raw_out[e], net[o], from_tun_queue[o], raw_in[o])
    BY <1>1, <1>2 DEF RawOK
  <2>2. raw_out[e] \in Seq(Nat) /\ net[o] \in SUBSET Packet /\ raw_in[o] \in Nat /\ m \in net[o]
    BY <1>1, <1>2 DEF TypeOK
  <2> QED BY <1>3, <2>1, <2>2, RawTaken
<1>9. /\ raw_out' \in [Ends -> Seq(Nat)] /\ raw_out'[e] = Append(raw_out[e], m.n)
      /\ raw_out'[o] = raw_out[o]
  BY <1>1, <1>2, <1>3, <1>8 DEF TypeOK
<1>10. RawOK'
  <2>1. RawFlow(o, raw_out'[Other(o)], net'[o], from_tun_queue'[o], raw_in'[o])
    BY <1>2, <1>3, <1>5, <1>8, <1>9
  <2>2. RawFlow(e, raw_out'[Other(e)], net'[e], from_tun_queue'[e], raw_in'[e])
    BY <1>1, <1>2, <1>3, <1>5, <1>9 DEF RawOK
  <2> QED BY <1>6, <2>1, <2>2 DEF RawOK
<1>11. \A x \in Ends : IsFiniteSet(net'[x]) /\ Cardinality(net'[x]) <= QUEUE_SIZE
  <2> SUFFICES ASSUME NEW x \in Ends
               PROVE  IsFiniteSet(net'[x]) /\ Cardinality(net'[x]) <= QUEUE_SIZE
    OBVIOUS
  <2>1. /\ IsFiniteSet(net[x]) /\ Cardinality(net[x]) \in Nat /\ Cardinality(net[x]) <= QUEUE_SIZE
        /\ QUEUE_SIZE \in Nat
    BY <1>1, RoomNat DEF TypeOK
  <2>2. IsFiniteSet(net'[x]) /\ Cardinality(net'[x]) <= Cardinality(net[x])
    BY <1>7, <2>1, FS_Subset
  <2>3. Cardinality(net'[x]) \in Nat
    BY <2>2, FS_CardinalityType
  <2> QED BY <2>1, <2>2, <2>3
<1>12. TypeOK'
  BY <1>1, <1>3, <1>4, <1>5, <1>9, <1>11 DEF TypeOK
<1>13. SourcesOK' /\ ServerSetupSafe' /\ SetupOK'
  BY <1>1, <1>3, <1>4 DEF SourcesOK, ServerSetupSafe, SetupOK
<1>14. PacketsOK'
  BY <1>1, <1>3, <1>4, <1>7 DEF PacketsOK, Recv
<1>15. ClosesOK'
  BY <1>1, <1>3, <1>7, StillCloses
<1>16. NetworkOK'
  <2>1. Waiting(o)'
    BY <1>5 DEF Waiting
  <2>2. ASSUME crashed'[e] = "no"
        PROVE  Waiting(e)'
    <3>1. Waiting(e)
      BY <1>1, <1>3, <2>2 DEF NetworkOK
    <3> QED BY <1>3, <1>4, <1>5, <3>1 DEF Waiting, Room, Readable
  <2> QED BY <1>6, <2>1, <2>2 DEF NetworkOK
<1> QED BY <1>4, <1>10, <1>12, <1>13, <1>14, <1>15, <1>16 DEF Inv

LEMMA ArriveInv ==
    ASSUME Inv, NEW e \in Ends, Arrive(e)
    PROVE  Inv'
<1>1. PICK m \in net[Other(e)] : DataArrives(e, m) \/ CloseArrives(e, m) \/ RawArrives(e, m)
  BY DEF Arrive
<1>2. Running(e) /\ UNCHANGED <<setup, crashed, raw_in, from_tun_queue, opener, sources, sent, out>>
  BY DEF Arrive
<1> QED BY <1>1, <1>2, DataArrivesInv, CloseArrivesInv, RawArrivesInv

-----------------------------------------------------------------------------
(* Sending: end e adds new packets P to the network.                       *)

SendsPackets(e, P) ==
    /\ net' = [net EXCEPT ![e] = @ \cup P] /\ P \subseteq Packet
    /\ IsFiniteSet(P) /\ Cardinality(P) <= Room(e) /\ P \cap net[e] = {}
    /\ \A m \in P : m.kind = "data" =>
          m.seq \in 1 .. sent'[e][m.st] /\ m.item = Recv(e, m.st, m.seq)

SendsSources(e) ==
    /\ eof' = eof /\ written' \in EndsOf(Nat) /\ sent' \in EndsOf(Nat)
    /\ \A y \in Streams :
         /\ sent'[Other(e)][y] = sent[Other(e)][y] /\ written'[Other(e)][y] = written[Other(e)][y]
         /\ sent[e][y] <= sent'[e][y]
         /\ sent'[e][y] <= written'[e][y] + (IF e = opener[y] THEN 1 ELSE 0)
         /\ written'[e][y] <= MaxChunks[e]
         /\ target[e][y] = "none" => written'[e][y] = 0 /\ sent'[e][y] = 0

SendsRaw(e, P) ==
    /\ raw_out' = raw_out
    /\ raw_in' \in [Ends -> Nat] /\ raw_in'[Other(e)] = raw_in[Other(e)] /\ raw_in'[e] <= MaxRaw[e]
    /\ from_tun_queue' \in [Ends -> Seq(Nat)]
    /\ from_tun_queue'[Other(e)] = from_tun_queue[Other(e)]
    /\ Len(from_tun_queue'[e]) <= MAX_TUN_QUEUE_SIZE + 1
    /\ RawFlow(e, raw_out[Other(e)], net[e] \cup P, from_tun_queue'[e], raw_in'[e])

SendsCloses(e, P) ==
    /\ special' \in [Ends -> Seq(Streams)] /\ special'[Other(e)] = special[Other(e)]
    /\ Distinct(special'[e])
    /\ \A y \in Streams : ~(Holds(special'[e], y) /\ ClosePacket(y) \in net[e] \cup P)
    /\ \A y \in Streams : Holds(special'[e], y) \/ ClosePacket(y) \in P =>
          Holds(special[e], y) \/ ClosePacket(y) \in net[e]

SendsWakes(e, P) ==
    /\ crashed' \in [Ends -> {"no", "setup", "write"}] /\ crashed'[Other(e)] = crashed[Other(e)]
    /\ crashed[e] = "no" /\ (e = "server" => crashed'[e] # "setup")
    /\ notify' \in [Ends -> BOOLEAN] /\ notify'[Other(e)] = notify[Other(e)]
    /\ crashed'[e] = "no" /\ has_transport[e] /\ Cardinality(P) < Room(e) /\ ~notify'[e] =>
         /\ from_tun_queue'[e] = << >> /\ special'[e] = << >>
         /\ \A y \in Streams : Readable(e, y)' = 0

Sends(e, P) ==
    /\ Still /\ UNCHANGED setup
    /\ SendsPackets(e, P) /\ SendsSources(e) /\ SendsRaw(e, P) /\ SendsCloses(e, P) /\ SendsWakes(e, P)

LEMMA AddPackets ==
    ASSUME NEW N, NEW P, IsFiniteSet(N), IsFiniteSet(P), P \cap N = {}
    PROVE  /\ IsFiniteSet(N \cup P) /\ Cardinality(N \cup P) = Cardinality(N) + Cardinality(P)
           /\ Cardinality(N) \in Nat /\ Cardinality(P) \in Nat
<1>1. Cardinality(N) \in Nat /\ Cardinality(P) \in Nat
  BY FS_CardinalityType
<1>2. N \cap P = {}
  OBVIOUS
<1>3. Cardinality(N \cap P) = 0
  BY <1>2, FS_EmptySet
<1>4. /\ IsFiniteSet(N \cup P)
      /\ Cardinality(N \cup P) = Cardinality(N) + Cardinality(P) - Cardinality(N \cap P)
  BY FS_Union
<1> QED BY <1>1, <1>3, <1>4

LEMMA SendsInv ==
    ASSUME Inv, NEW e \in Ends, NEW P, Sends(e, P)
    PROVE  Inv'
<1>1. TypeOK /\ EndsOK /\ SourcesOK /\ PacketsOK /\ ClosesOK /\ RawOK /\ SetupOK
      /\ ServerSetupSafe /\ NetworkOK
  BY DEF Inv
<1>2. PICK o \in Ends : o = Other(e) /\ o # e /\ e = Other(o) /\ \A x \in Ends : x = e \/ x = o
  BY EndFacts
<1>3. Still /\ has_tun' = has_tun /\ has_transport' = has_transport
  BY DEF Sends, setup
<1>4. /\ opener' = opener /\ target' = target /\ arrived' = arrived /\ buffer' = buffer
      /\ header' = header /\ error' = error /\ sock' = sock /\ sending' = sending
      /\ write_due' = write_due /\ out' = out /\ EndsOK' /\ \A x, y : Now(x, y)' = Now(x, y)
  BY <1>1, <1>3, StillFacts
<1>5. net' \in [Ends -> SUBSET Packet] /\ net'[e] = net[e] \cup P /\ net'[o] = net[o]
  BY <1>1, <1>2 DEF Sends, SendsPackets, TypeOK
<1>6. /\ Room(e) \in Nat /\ IsFiniteSet(net[e]) /\ Room(e) = QUEUE_SIZE - Cardinality(net[e])
      /\ Cardinality(net[e]) \in Nat /\ QUEUE_SIZE \in Nat
  BY <1>1, RoomNat
<1>7. /\ IsFiniteSet(net'[e]) /\ Cardinality(net'[e]) = Cardinality(net[e]) + Cardinality(P)
      /\ Cardinality(P) \in Nat /\ Cardinality(P) <= Room(e)
  BY <1>5, <1>6, AddPackets DEF Sends, SendsPackets
<1>8. Cardinality(net'[e]) <= QUEUE_SIZE /\ (Room(e)' > 0 => Cardinality(P) < Room(e))
  <2>1. Room(e)' = QUEUE_SIZE - Cardinality(net'[e])
    BY DEF Room
  <2> QED BY <1>6, <1>7, <2>1
<1>9. \A x \in Ends : IsFiniteSet(net'[x]) /\ Cardinality(net'[x]) <= QUEUE_SIZE
  BY <1>1, <1>2, <1>5, <1>7, <1>8 DEF TypeOK
<1>10. /\ eof' = eof /\ written' \in EndsOf(Nat) /\ sent' \in EndsOf(Nat)
       /\ \A y \in Streams :
            /\ sent'[o][y] = sent[o][y] /\ written'[o][y] = written[o][y]
            /\ sent[e][y] <= sent'[e][y]
            /\ sent'[e][y] <= written'[e][y] + (IF e = opener[y] THEN 1 ELSE 0)
            /\ written'[e][y] <= MaxChunks[e]
            /\ target[e][y] = "none" => written'[e][y] = 0 /\ sent'[e][y] = 0
  BY <1>2 DEF Sends, SendsSources
<1>11. ASSUME NEW x \in Ends, NEW y \in Streams
       PROVE  /\ written'[x][y] <= MaxChunks[x] /\ sent'[x][y] <= written'[x][y] + 1
              /\ arrived'[x][y] <= sent'[Other(x)][y] /\ Len(sending'[x][y]) <= 1
  <2>1. /\ written[x][y] <= MaxChunks[x] /\ sent[x][y] <= written[x][y] + 1
        /\ arrived[x][y] <= sent[Other(x)][y] /\ Len(sending[x][y]) <= 1
    BY <1>1 DEF TypeOK
  <2>2. /\ arrived[x][y] \in Nat /\ sent[e][y] \in Nat /\ sent'[e][y] \in Nat /\ written'[e][y] \in Nat
        /\ sent[o][y] \in Nat
    BY <1>1, <1>2, <1>10 DEF TypeOK, EndsOf
  <2>3. CASE x = e
    <3>1. sent'[e][y] <= written'[e][y] + 1
      BY <1>10, <2>2
    <3> QED BY <1>2, <1>4, <1>10, <2>1, <2>3, <3>1
  <2>4. CASE x = o
    <3>1. arrived[o][y] <= sent'[e][y]
      BY <1>2, <1>10, <2>1, <2>2, <2>4
    <3> QED BY <1>2, <1>4, <1>10, <2>1, <2>4, <3>1
  <2> QED BY <1>2, <2>3, <2>4
<1>12. /\ raw_out' = raw_out
       /\ raw_in' \in [Ends -> Nat] /\ raw_in'[o] = raw_in[o] /\ raw_in'[e] <= MaxRaw[e]
       /\ from_tun_queue' \in [Ends -> Seq(Nat)] /\ from_tun_queue'[o] = from_tun_queue[o]
       /\ Len(from_tun_queue'[e]) <= MAX_TUN_QUEUE_SIZE + 1
       /\ RawFlow(e, raw_out[o], net'[e], from_tun_queue'[e], raw_in'[e])
  BY <1>2, <1>5 DEF Sends, SendsRaw
<1>13. \A x \in Ends : raw_in'[x] <= MaxRaw[x] /\ Len(from_tun_queue'[x]) <= MAX_TUN_QUEUE_SIZE + 1
  BY <1>1, <1>2, <1>12 DEF TypeOK
<1>14. /\ special' \in [Ends -> Seq(Streams)] /\ special'[o] = special[o] /\ Distinct(special'[e])
       /\ \A y \in Streams : ~(Holds(special'[e], y) /\ ClosePacket(y) \in net'[e])
       /\ \A y \in Streams : Holds(special'[e], y) \/ ClosePacket(y) \in net'[e] =>
            Holds(special[e], y) \/ ClosePacket(y) \in net[e]
  BY <1>2, <1>5 DEF Sends, SendsCloses
<1>15. /\ crashed' \in [Ends -> {"no", "setup", "write"}] /\ crashed'[o] = crashed[o]
       /\ crashed[e] = "no" /\ (e = "server" => crashed'[e] # "setup")
       /\ notify' \in [Ends -> BOOLEAN] /\ notify'[o] = notify[o]
  BY <1>2 DEF Sends, SendsWakes
<1>16. TypeOK'
  <2>1. /\ has_tun' \in [Ends -> BOOLEAN] /\ has_transport' \in [Ends -> BOOLEAN]
        /\ raw_out' \in [Ends -> Seq(Nat)] /\ opener' \in [Streams -> Ends \cup {"none"}]
        /\ target' \in EndsOf({"none", "attached", "closed"}) /\ arrived' \in EndsOf(Nat)
        /\ buffer' \in EndsOf(Seq(Item)) /\ sending' \in EndsOf(Seq(Item)) /\ out' \in EndsOf(Seq(Item))
        /\ eof' \in EndsOf(BOOLEAN) /\ write_due' \in EndsOf(BOOLEAN) /\ error' \in EndsOf(BOOLEAN)
        /\ sock' \in EndsOf({"none", "open", "closed"})
        /\ header' \in [Streams -> {"none", "fresh", "connecting", "done"}]
    BY <1>1, <1>3, <1>4, <1>10, <1>12 DEF TypeOK
  <2> QED BY <1>5, <1>9, <1>10, <1>11, <1>12, <1>13, <1>14, <1>15, <2>1, Zenon DEF TypeOK
<1>17. SourcesOK'
  <2> SUFFICES ASSUME NEW x \in Ends, NEW y \in Streams
               PROVE  /\ sent'[x][y] <= written'[x][y] + (IF x = opener[y] THEN 1 ELSE 0)
                      /\ target[x][y] = "none" => written'[x][y] = 0 /\ sent'[x][y] = 0
                      /\ opener[y] = "none" => target[x][y] = "none" /\ header[y] = "none"
                      /\ x = opener[y] /\ target[x][y] = "none" => crashed'[x] # "no"
                      /\ eof[x][y] => sock[x][y] # "none"
    BY <1>4, <1>10 DEF SourcesOK
  <2>1. /\ sent[x][y] <= written[x][y] + (IF x = opener[y] THEN 1 ELSE 0)
        /\ target[x][y] = "none" => written[x][y] = 0 /\ sent[x][y] = 0
        /\ opener[y] = "none" => target[x][y] = "none" /\ header[y] = "none"
        /\ x = opener[y] /\ target[x][y] = "none" => crashed[x] # "no"
        /\ eof[x][y] => sock[x][y] # "none"
    BY <1>1 DEF SourcesOK
  <2>2. CASE x = e
    BY <1>10, <1>15, <2>1, <2>2
  <2>3. CASE x = o
    BY <1>10, <1>15, <2>1, <2>3
  <2> QED BY <1>2, <2>2, <2>3
<1>18. PacketsOK'
  <2> SUFFICES ASSUME NEW x \in Ends, NEW m \in net'[x], m.kind = "data"
               PROVE  m.seq \in 1 .. sent'[x][m.st] /\ m.item = Recv(x, m.st, m.seq)
    BY <1>4 DEF PacketsOK, Recv
  <2>1. m \in Packet
    BY <1>5
  <2>2. m.st \in Streams /\ m.seq \in Nat
    BY <2>1 DEF Packet
  <2>3. CASE m \in net[x]
    <3>1. m.seq \in 1 .. sent[x][m.st] /\ m.item = Recv(x, m.st, m.seq)
      BY <1>1, <2>3 DEF PacketsOK
    <3>2. sent[x][m.st] \in Nat /\ sent'[x][m.st] \in Nat /\ sent[x][m.st] <= sent'[x][m.st]
      <4>1. sent[x][m.st] \in Nat /\ sent'[x][m.st] \in Nat
        <5>1. sent \in EndsOf(Nat) /\ sent' \in EndsOf(Nat)
          BY <1>1, <1>10 DEF TypeOK
        <5> QED BY <2>2, <5>1 DEF EndsOf
      <4>2. CASE x = e
        BY <1>10, <2>2, <4>1, <4>2
      <4>3. CASE x = o
        BY <1>10, <2>2, <4>1, <4>3
      <4> QED BY <1>2, <4>2, <4>3
    <3> QED BY <2>2, <3>1, <3>2
  <2>4. CASE m \notin net[x]
    <3>1. x = e /\ m \in P
      BY <1>2, <1>5, <2>4
    <3> QED BY <3>1 DEF Sends, SendsPackets
  <2> QED BY <2>3, <2>4
<1>19. ClosesOK'
  <2>1. ASSUME NEW x \in Ends
        PROVE  /\ Distinct(special'[x])
               /\ \A y \in Streams : ~(Holds(special'[x], y) /\ ClosePacket(y) \in net'[x])
               /\ \A y \in Streams :
                    Holds(special'[x], y) \/ ClosePacket(y) \in net'[x] => Shut(opener[y], x, Now(x, y))
    <3>1. /\ Distinct(special[x])
          /\ \A y \in Streams : ~(Holds(special[x], y) /\ ClosePacket(y) \in net[x])
          /\ \A y \in Streams :
               Holds(special[x], y) \/ ClosePacket(y) \in net[x] => Shut(opener[y], x, Now(x, y))
      BY <1>1 DEF ClosesOK
    <3>2. CASE x = e
      BY <1>14, <3>1, <3>2
    <3>3. CASE x = o
      BY <1>5, <1>14, <3>1, <3>3
    <3> QED BY <1>2, <3>2, <3>3
  <2> QED BY <1>4, <2>1 DEF ClosesOK
<1>20. RawOK'
  <2>1. RawFlow(e, raw_out'[Other(e)], net'[e], from_tun_queue'[e], raw_in'[e])
    BY <1>2, <1>12
  <2>2. RawFlow(o, raw_out'[Other(o)], net'[o], from_tun_queue'[o], raw_in'[o])
    BY <1>1, <1>2, <1>5, <1>12 DEF RawOK
  <2> QED BY <1>2, <2>1, <2>2 DEF RawOK
<1>21. SetupOK' /\ ServerSetupSafe'
  <2>1. crashed'["server"] # "setup"
    BY <1>1, <1>2, <1>15 DEF ServerSetupSafe, Ends
  <2> QED BY <1>1, <1>3, <2>1 DEF SetupOK, ServerSetupSafe
<1>22. NetworkOK'
  <2>1. ASSUME crashed'[e] = "no"
        PROVE  Waiting(e)'
    <3> SUFFICES ASSUME has_transport[e], Room(e)' > 0, ~notify'[e]
                 PROVE  /\ from_tun_queue'[e] = << >> /\ special'[e] = << >>
                        /\ \A y \in Streams : Readable(e, y)' = 0
      BY <1>3 DEF Waiting
    <3>1. Cardinality(P) < Room(e)
      BY <1>8
    <3> QED BY <2>1, <3>1 DEF Sends, SendsWakes
  <2>2. ASSUME crashed'[o] = "no"
        PROVE  Waiting(o)'
    <3>1. Waiting(o)
      BY <1>1, <1>15, <2>2 DEF NetworkOK
    <3>2. Room(o)' = Room(o) /\ \A y \in Streams : Readable(o, y)' = Readable(o, y)
      BY <1>4, <1>5, <1>10 DEF Room, Readable
    <3> QED BY <1>3, <1>12, <1>14, <1>15, <3>1, <3>2 DEF Waiting
  <2> QED BY <1>2, <2>1, <2>2 DEF NetworkOK
<1> QED BY <1>4, <1>16, <1>17, <1>18, <1>19, <1>20, <1>21, <1>22 DEF Inv

-----------------------------------------------------------------------------
(* Packets of the tun devices.                                             *)

RawPacket(n) == [kind |-> "raw", n |-> n]

\* Another packet came from the tun device.
LEMMA RawCounted ==
    ASSUME NEW e, NEW w \in Seq(Nat), NEW N \in SUBSET Packet, NEW q \in Seq(Nat), NEW k \in Nat,
           RawFlow(e, w, N, q, k)
    PROVE  RawFlow(e, w, N, q, k + 1)
<1>1. \A x \in Nat : x <= k => x <= k + 1
  OBVIOUS
<1>2. /\ \A i \in DOMAIN w : w[i] \in Nat
      /\ \A i \in DOMAIN q : q[i] \in Nat
      /\ \A m \in N : m.kind = "raw" => m.n \in Nat
  BY DEF Packet
<1> QED BY <1>1, <1>2 DEF RawFlow

LEMMA RawQueued ==
    ASSUME NEW e, NEW w \in Seq(Nat), NEW N \in SUBSET Packet, NEW q \in Seq(Nat), NEW k \in Nat,
           RawFlow(e, w, N, q, k), Checked(e, k + 1)
    PROVE  RawFlow(e, w, N, Append(q, k + 1), k + 1)
<1>1. PICK n \in Nat : n = k + 1
  OBVIOUS
<1>2. RawFlow(e, w, N, q, n)
  BY <1>1, RawCounted
<1>3. PICK r : r = Append(q, n)
  OBVIOUS
<1>4. \A i \in DOMAIN r : (i \in DOMAIN q /\ r[i] = q[i] /\ r[i] \in Nat) \/ (i = Len(q) + 1 /\ r[i] = n)
  BY <1>3, AppendNat
<1>5. /\ \A i \in DOMAIN w : w[i] \in Nat /\ w[i] < n
      /\ \A i \in DOMAIN q : q[i] \in Nat /\ q[i] < n
      /\ \A m \in N : m.kind = "raw" => m.n \in Nat /\ m.n < n
  <2>1. \A x \in Nat : x <= k => x < n
    BY <1>1
  <2>2. /\ \A i \in DOMAIN w : w[i] \in Nat /\ w[i] <= k
        /\ \A i \in DOMAIN q : q[i] \in Nat /\ q[i] <= k
    BY DEF RawFlow
  <2>3. \A m \in N : m.kind = "raw" => m.n \in Nat /\ m.n <= k
    BY DEF Packet, RawFlow
  <2> QED BY <2>1, <2>2, <2>3
<1>6. Increasing(r)
  BY <1>3, <1>5, AppendIncreasing DEF RawFlow
<1>7. ASSUME NEW i \in DOMAIN r
      PROVE  /\ r[i] <= n /\ Checked(e, r[i])
             /\ \A j \in DOMAIN w : w[j] < r[i]
             /\ \A m \in N : m.kind = "raw" => m.n < r[i]
  <2>1. CASE i \in DOMAIN q /\ r[i] = q[i]
    BY <1>2, <2>1 DEF RawFlow
  <2>2. CASE r[i] = n
    BY <1>1, <1>5, <2>2
  <2> QED BY <1>4, <2>1, <2>2
<1>8. RawFlow(e, w, N, r, n)
  BY <1>2, <1>6, <1>7, Zenon DEF RawFlow
<1> QED BY <1>1, <1>3, <1>8

LEMMA DropNat ==
    ASSUME NEW q \in Seq(Nat), NEW n \in 0 .. Len(q)
    PROVE  /\ Dropped(q, n) \in Seq(Nat) /\ Len(Dropped(q, n)) = Len(q) - n
           /\ \A i \in DOMAIN Dropped(q, n) :
                i + n \in DOMAIN q /\ Dropped(q, n)[i] = q[i + n] /\ i \in Nat /\ i > 0
           /\ \A i \in 1 .. n : i \in DOMAIN q
           /\ Len(Dropped(q, n)) = 0 => Dropped(q, n) = << >>
           /\ n = 0 => Dropped(q, n) = q
<1>1. PICK r : r = Dropped(q, n)
  OBVIOUS
<1>2. PICK k \in Nat : k = Len(q)
  OBVIOUS
<1>3. /\ r \in Seq(Nat) /\ Len(r) = k - n /\ DOMAIN q = 1 .. k /\ DOMAIN r = 1 .. k - n
      /\ \A i \in 1 .. k - n : r[i] = q[i + n]
  <2>1. r = SubSeq(q, n + 1, k) /\ k \in Nat /\ n \in 0 .. k
    BY <1>1, <1>2 DEF Dropped
  <2>2. r \in Seq(Nat) /\ Len(r) = k - n
    BY <1>2, <2>1
  <2>3. DOMAIN q = 1 .. k /\ DOMAIN r = 1 .. k - n
    BY <1>2, <2>2
  <2>4. \A i \in 1 .. k - n : r[i] = q[i + n]
    BY <1>2, <2>1
  <2> QED BY <2>2, <2>3, <2>4
<1>4. /\ \A i \in 1 .. k - n : i + n \in 1 .. k /\ i \in Nat /\ i > 0
      /\ \A i \in 1 .. n : i \in 1 .. k
  BY <1>2
<1>5. \A i \in DOMAIN r : i + n \in DOMAIN q /\ r[i] = q[i + n] /\ i \in Nat /\ i > 0
  BY <1>3, <1>4, Zenon
<1>6. Len(r) = 0 => r = << >>
  BY <1>3, EmptySeq
<1>7. n = 0 => r = q
  BY <1>1 DEF Dropped
<1>8. \A i \in 1 .. n : i \in DOMAIN q
  BY <1>3, <1>4, Zenon
<1> QED BY <1>1, <1>2, <1>3, <1>5, <1>6, <1>7, <1>8

\* Packets from the front of the queue are new, and may be sent.
LEMMA RawSent ==
    ASSUME NEW e, NEW w \in Seq(Nat), NEW N \in SUBSET Packet, NEW q \in Seq(Nat), NEW k \in Nat,
           NEW n \in 0 .. Len(q), NEW P,
           RawFlow(e, w, N, q, k), \A m \in P : m.kind = "raw" => m \in RawPackets(q, n)
    PROVE  RawFlow(e, w, N \cup P, Dropped(q, n), k)
<1>1. PICK r : r = Dropped(q, n)
  OBVIOUS
<1>2. /\ r \in Seq(Nat)
      /\ \A i \in DOMAIN r : i + n \in DOMAIN q /\ r[i] = q[i + n] /\ i \in Nat /\ i > 0
      /\ \A i \in 1 .. n : i \in DOMAIN q
  BY <1>1, DropNat
<1>3. Increasing(r)
  <2>1. ASSUME NEW i \in DOMAIN r, NEW j \in DOMAIN r, i < j
        PROVE  r[i] < r[j]
    <3>1. i + n \in DOMAIN q /\ j + n \in DOMAIN q /\ i + n < j + n
      BY <1>2, <2>1
    <3>2. q[i + n] < q[j + n]
      BY <3>1 DEF RawFlow, Increasing
    <3> QED BY <1>2, <3>2
  <2> QED BY <2>1 DEF Increasing
<1>4. ASSUME NEW m \in N \cup P, m.kind = "raw"
      PROVE  /\ m.n <= k /\ Checked(e, m.n)
             /\ \A i \in DOMAIN w : w[i] < m.n
             /\ \A j \in DOMAIN r : m.n < r[j]
  <2>1. CASE m \in N
    BY <1>2, <1>4, <2>1 DEF RawFlow
  <2>2. CASE m \in RawPackets(q, n)
    <3>1. PICK i \in 1 .. n : m.n = q[i]
      BY <2>2 DEF RawPackets
    <3>2. i \in DOMAIN q
      BY <1>2
    <3>3. ASSUME NEW j \in DOMAIN r
          PROVE  q[i] < r[j]
      <4>1. j + n \in DOMAIN q /\ r[j] = q[j + n] /\ i < j + n
        BY <1>2
      <4> QED BY <3>2, <4>1 DEF RawFlow, Increasing
    <3> QED BY <3>1, <3>2, <3>3 DEF RawFlow
  <2> QED BY <1>4, <2>1, <2>2
<1>5. /\ \A i \in DOMAIN r : r[i] <= k /\ Checked(e, r[i])
      /\ \A i \in DOMAIN w, j \in DOMAIN r : w[i] < r[j]
  BY <1>2 DEF RawFlow
<1>6. /\ Increasing(w) /\ \A i \in DOMAIN w : w[i] <= k /\ Checked(e, w[i])
  BY DEF RawFlow
<1>7. RawFlow(e, w, N \cup P, r, k)
  BY <1>3, <1>4, <1>5, <1>6 DEF RawFlow
<1> QED BY <1>1, <1>7

LEMMA IncreasingDistinct ==
    ASSUME NEW q \in Seq(Nat), Increasing(q), NEW i \in DOMAIN q, NEW j \in DOMAIN q, q[i] = q[j]
    PROVE  i = j
<1>1. i \in Nat /\ j \in Nat /\ q[i] \in Nat
  OBVIOUS
<1>2. ~(i < j) /\ ~(j < i)
  BY <1>1 DEF Increasing
<1> QED BY <1>1, <1>2

LEMMA RawPacketsFacts ==
    ASSUME NEW e, NEW w \in Seq(Nat), NEW N \in SUBSET Packet, NEW q \in Seq(Nat), NEW k \in Nat,
           NEW n \in 0 .. Len(q), RawFlow(e, w, N, q, k)
    PROVE  /\ RawPackets(q, n) \subseteq Packet
           /\ \A m \in RawPackets(q, n) : m.kind = "raw"
           /\ RawPackets(q, n) \cap N = {}
           /\ IsFiniteSet(RawPackets(q, n)) /\ Cardinality(RawPackets(q, n)) = n
<1>1. \A i \in 1 .. n : i \in DOMAIN q /\ q[i] \in Nat
  <2>1. \A i \in 1 .. n : i \in DOMAIN q
    BY DropNat
  <2> QED BY <2>1
<1>2. PICK P : P = RawPackets(q, n)
  OBVIOUS
<1>3. \A m : m \in P <=> \E i \in 1 .. n : m = RawPacket(q[i])
  BY <1>2 DEF RawPackets, RawPacket
<1>4. \A x \in Nat : RawPacket(x) \in Packet /\ RawPacket(x).kind = "raw" /\ RawPacket(x).n = x
  BY DEF RawPacket, Packet
<1>5. P \subseteq Packet /\ \A m \in P : m.kind = "raw"
  BY <1>1, <1>3, <1>4
<1>6. P \cap N = {}
  <2>1. ASSUME NEW m \in P, m \in N
        PROVE  FALSE
    <3>1. PICK i \in 1 .. n : m = RawPacket(q[i])
      BY <1>3
    <3>2. m.kind = "raw" /\ m.n = q[i] /\ i \in DOMAIN q /\ q[i] \in Nat
      BY <1>1, <1>4, <3>1
    <3>3. m.n < q[i]
      BY <2>1, <3>2 DEF RawFlow
    <3> QED BY <3>2, <3>3
  <2> QED BY <2>1
<1>7. IsFiniteSet(P) /\ Cardinality(P) = n
  <2> DEFINE f == [i \in 1 .. n |-> RawPacket(q[i])]
  <2>1. f \in [1 .. n -> P]
    BY <1>3
  <2>2. \A i, j \in 1 .. n : f[i] = f[j] => i = j
    <3>1. ASSUME NEW i \in 1 .. n, NEW j \in 1 .. n, f[i] = f[j]
          PROVE  i = j
      <4>1. q[i] = q[j]
        BY <1>1, <1>4, <3>1
      <4> QED BY <1>1, <4>1, IncreasingDistinct DEF RawFlow
    <3> QED BY <3>1
  <2>3. \A m \in P : \E i \in 1 .. n : f[i] = m
    BY <1>3
  <2>4. n \in Nat
    OBVIOUS
  <2> HIDE DEF f
  <2>5. f \in Bijection(1 .. n, P)
    BY <2>1, <2>2, <2>3 DEF Bijection, Injection, Surjection, IsInjective
  <2>6. ExistsBijection(1 .. n, P)
    BY <2>5 DEF ExistsBijection
  <2> QED BY <2>4, <2>6, FS_CountingElements, FS_NatBijection
<1> QED BY <1>2, <1>5, <1>6, <1>7

\* What an action that only sends leaves alone.
LEMMA KeepsCloses ==
    ASSUME TypeOK, ClosesOK, NEW e \in Ends, NEW P, special' = special, \A m \in P : m.kind # "close"
    PROVE  SendsCloses(e, P)
<1>1. \A y \in Streams : ClosePacket(y) \notin P
  <2>1. \A y : ClosePacket(y).kind = "close"
    BY DEF ClosePacket
  <2> QED BY <2>1
<1>2. /\ Distinct(special[e])
      /\ \A y \in Streams : ~(Holds(special[e], y) /\ ClosePacket(y) \in net[e])
  BY DEF ClosesOK
<1>3. special \in [Ends -> Seq(Streams)]
  BY DEF TypeOK
<1> QED BY <1>1, <1>2, <1>3 DEF SendsCloses

LEMMA KeepsSources ==
    ASSUME TypeOK, SourcesOK, NEW e \in Ends, eof' = eof, written' = written, sent' = sent
    PROVE  SendsSources(e)
<1>1. /\ written \in EndsOf(Nat) /\ sent \in EndsOf(Nat)
      /\ \A y \in Streams : written[e][y] <= MaxChunks[e]
  BY DEF TypeOK
<1>2. \A y \in Streams :
         /\ sent[e][y] <= written[e][y] + (IF e = opener[y] THEN 1 ELSE 0)
         /\ target[e][y] = "none" => written[e][y] = 0 /\ sent[e][y] = 0
  BY DEF SourcesOK
<1>3. \A y \in Streams : sent[e][y] <= sent[e][y]
  BY <1>1 DEF EndsOf
<1> QED BY <1>1, <1>2, <1>3 DEF SendsSources

LEMMA KeepsRaw ==
    ASSUME TypeOK, RawOK, NEW e \in Ends, NEW P, raw_in' = raw_in, raw_out' = raw_out,
           from_tun_queue' = from_tun_queue, \A m \in P : m.kind # "raw"
    PROVE  SendsRaw(e, P)
<1>1. /\ raw_in \in [Ends -> Nat] /\ from_tun_queue \in [Ends -> Seq(Nat)]
      /\ raw_in[e] <= MaxRaw[e] /\ Len(from_tun_queue[e]) <= MAX_TUN_QUEUE_SIZE + 1
  BY DEF TypeOK
<1>2. RawFlow(e, raw_out[Other(e)], net[e], from_tun_queue[e], raw_in[e])
  BY DEF RawOK
<1>3. RawFlow(e, raw_out[Other(e)], net[e] \cup P, from_tun_queue[e], raw_in[e])
  BY <1>2 DEF RawFlow
<1> QED BY <1>1, <1>3 DEF SendsRaw

LEMMA FromTunInv ==
    ASSUME Inv, NEW e \in Ends, FromTun(e)
    PROVE  Inv'
<1>1. TypeOK /\ EndsOK /\ SourcesOK /\ PacketsOK /\ ClosesOK /\ RawOK /\ SetupOK
      /\ ServerSetupSafe /\ NetworkOK
  BY DEF Inv
<1>2. PICK o \in Ends : o = Other(e) /\ o # e
  BY EndFacts
<1>3. PICK k \in Nat : k = raw_in[e]
  BY <1>1 DEF TypeOK
<1>4. PICK s \in Seq(Nat) : s = from_tun_queue[e]
  BY <1>1 DEF TypeOK
<1>5. PICK q : q = IF Checked(e, k + 1) THEN Enqueued(s, k + 1) ELSE s
  OBVIOUS
<1>6. PICK calls \in BOOLEAN : calls <=> q # s /\ Notifies(q)
  BY Zenon
<1>7. PICK t : t = IF calls /\ has_transport[e] THEN Lesser(Len(q), Room(e)) ELSE 0
  OBVIOUS
<1>8. /\ crashed[e] = "no" /\ has_tun[e] /\ k < MaxRaw[e]
      /\ raw_in' = [raw_in EXCEPT ![e] = k + 1]
      /\ crashed' = [crashed EXCEPT ![e] = IF calls /\ ~has_transport[e] THEN "setup" ELSE "no"]
      /\ from_tun_queue' = [from_tun_queue EXCEPT ![e] = SubSeq(q, t + 1, Len(q))]
      /\ net' = [net EXCEPT ![e] = @ \cup RawPackets(q, t)]
  BY <1>3, <1>4, <1>5, <1>6, <1>7, Zenon DEF FromTun
<1>9. /\ Still /\ UNCHANGED setup /\ raw_out' = raw_out /\ eof' = eof /\ written' = written
      /\ sent' = sent /\ special' = special /\ notify' = notify
  BY DEF FromTun, Still, sources
<1>10. /\ q \in Seq(Nat) /\ Len(q) \in Nat /\ Len(q) <= MAX_TUN_QUEUE_SIZE + 1
       /\ RawFlow(e, raw_out[o], net[e], q, k + 1)
       /\ s = << >> /\ q # s => Len(q) = 1
  <2>1. /\ RawFlow(e, raw_out[o], net[e], s, k) /\ raw_out[o] \in Seq(Nat)
        /\ net[e] \in SUBSET Packet /\ Len(s) <= MAX_TUN_QUEUE_SIZE + 1
        /\ MAX_TUN_QUEUE_SIZE \in Nat
    BY <1>1, <1>2, <1>3, <1>4, TerminatorAssumption DEF RawOK, TypeOK
  <2>2. CASE q = s
    <3>1. RawFlow(e, raw_out[o], net[e], s, k + 1)
      BY <2>1, RawCounted
    <3> QED BY <2>1, <2>2, <3>1
  <2>3. CASE q # s
    <3>1. Checked(e, k + 1) /\ Len(s) <= MAX_TUN_QUEUE_SIZE /\ q = Append(s, k + 1)
      BY <1>5, <2>3 DEF Enqueued
    <3>2. RawFlow(e, raw_out[o], net[e], q, k + 1)
      BY <2>1, <3>1, RawQueued
    <3>3. PICK l \in Nat : l = Len(s)
      OBVIOUS
    <3>4. q \in Seq(Nat) /\ Len(q) = l + 1
      BY <3>1, <3>3, AppendNat
    <3>5. s = << >> => l = 0
      BY <3>3
    <3> QED BY <2>1, <3>1, <3>2, <3>3, <3>4, <3>5
  <2> QED BY <2>2, <2>3
<1>11. Room(e) \in Nat
  BY <1>1, RoomNat
<1>12. t \in 0 .. Len(q) /\ t <= Room(e)
  BY <1>7, <1>10, <1>11 DEF Lesser
<1>13. PICK P : P = RawPackets(q, t)
  OBVIOUS
<1>14. /\ P \subseteq Packet /\ \A m \in P : m.kind = "raw"
       /\ P \cap net[e] = {} /\ IsFiniteSet(P) /\ Cardinality(P) = t
  <2>1. PICK n \in Nat : n = k + 1
    OBVIOUS
  <2>2. RawFlow(e, raw_out[o], net[e], q, n)
    BY <1>10, <2>1
  <2>3. /\ RawPackets(q, t) \subseteq Packet /\ \A m \in RawPackets(q, t) : m.kind = "raw"
        /\ RawPackets(q, t) \cap net[e] = {}
        /\ IsFiniteSet(RawPackets(q, t)) /\ Cardinality(RawPackets(q, t)) = t
    <3>1. /\ q \in Seq(Nat) /\ t \in 0 .. Len(q)
          /\ raw_out[o] \in Seq(Nat) /\ net[e] \in SUBSET Packet
      BY <1>1, <1>10, <1>12 DEF TypeOK
    <3> QED BY <2>2, <3>1, RawPacketsFacts, SMTT(30)
  <2> QED BY <1>13, <2>3
<1>15. SendsPackets(e, P)
  BY <1>8, <1>12, <1>13, <1>14 DEF SendsPackets
<1>16. SendsSources(e)
  BY <1>1, <1>9, KeepsSources
<1>17. SendsCloses(e, P)
  BY <1>1, <1>9, <1>14, KeepsCloses
<1>18. PICK r : r = Dropped(q, t)
  OBVIOUS
<1>19. r \in Seq(Nat) /\ Len(r) = Len(q) - t /\ (Len(r) = 0 => r = << >>) /\ (t = 0 => r = q)
  <2>1. PICK l \in 0 .. Len(q) : l = t
    BY <1>12
  <2>2. r \in Seq(Nat) /\ Len(r) = Len(q) - l /\ (Len(r) = 0 => r = << >>) /\ (l = 0 => r = q)
    <3>1. q \in Seq(Nat) /\ r = Dropped(q, l)
      BY <1>10, <1>18, <2>1
    <3> QED BY <3>1, DropNat
  <2> QED BY <2>1, <2>2
<1>20. /\ from_tun_queue' \in [Ends -> Seq(Nat)] /\ from_tun_queue'[e] = r
       /\ from_tun_queue'[o] = from_tun_queue[o]
       /\ raw_in' \in [Ends -> Nat] /\ raw_in'[e] = k + 1 /\ raw_in'[o] = raw_in[o]
       /\ crashed' \in [Ends -> {"no", "setup", "write"}] /\ crashed'[o] = crashed[o]
       /\ crashed'[e] = IF calls /\ ~has_transport[e] THEN "setup" ELSE "no"
  <2>1. PICK c \in {"no", "setup"} : c = IF calls /\ ~has_transport[e] THEN "setup" ELSE "no"
    OBVIOUS
  <2>2. crashed' = [crashed EXCEPT ![e] = c] /\ crashed \in [Ends -> {"no", "setup", "write"}]
    BY <1>1, <1>8, <2>1 DEF TypeOK
  <2>3. from_tun_queue' = [from_tun_queue EXCEPT ![e] = r] /\ from_tun_queue \in [Ends -> Seq(Nat)]
    BY <1>1, <1>8, <1>18 DEF TypeOK, Dropped
  <2>4. raw_in' = [raw_in EXCEPT ![e] = k + 1] /\ raw_in \in [Ends -> Nat] /\ k + 1 \in Nat
    BY <1>1, <1>8 DEF TypeOK
  <2> QED BY <1>2, <1>19, <2>1, <2>2, <2>3, <2>4
<1>21. SendsRaw(e, P)
  <2>1. RawFlow(e, raw_out[o], net[e] \cup P, r, k + 1)
    <3>1. raw_out[o] \in Seq(Nat) /\ net[e] \in SUBSET Packet
      BY <1>1 DEF TypeOK
    <3>2. PICK n \in Nat : n = k + 1
      OBVIOUS
    <3>3. RawFlow(e, raw_out[o], net[e], q, n) /\ \A m \in P : m.kind = "raw" => m \in RawPackets(q, t)
      BY <1>10, <1>13, <3>2
    <3>4. RawFlow(e, raw_out[o], net[e] \cup P, r, n)
      BY <1>10, <1>12, <1>18, <3>1, <3>3, RawSent
    <3> QED BY <3>2, <3>4
  <2>2. Len(r) <= MAX_TUN_QUEUE_SIZE + 1
    BY <1>10, <1>12, <1>19, TerminatorAssumption
  <2>3. k + 1 <= MaxRaw[e]
    BY <1>3, <1>8, TerminatorAssumption
  <2> QED BY <1>2, <1>9, <1>20, <2>1, <2>2, <2>3 DEF SendsRaw
<1>22. SendsWakes(e, P)
  <2>1. e = "server" => crashed'[e] # "setup"
    BY <1>1, <1>8, <1>20 DEF SetupOK
  <2>2. notify' \in [Ends -> BOOLEAN] /\ notify' = notify
    BY <1>1, <1>9 DEF TypeOK
  <2>3. ASSUME has_transport[e], Cardinality(P) < Room(e), ~notify[e]
        PROVE  r = << >> /\ special[e] = << >> /\ \A y \in Streams : Readable(e, y)' = 0
    <3>1. t < Room(e) /\ Room(e) > 0
      BY <1>11, <1>12, <1>14, <2>3
    <3>2. s = << >> /\ special[e] = << >> /\ \A y \in Streams : Readable(e, y) = 0
      BY <1>1, <1>4, <1>8, <2>3, <3>1 DEF NetworkOK, Waiting
    <3>3. \A y \in Streams : Readable(e, y)' = Readable(e, y)
      <4>1. target' = target /\ opener' = opener
        BY <1>1, <1>9, StillFacts
      <4> QED BY <1>9, <4>1 DEF Readable
    <3>4. CASE q = s
      <4>1. t = 0
        BY <1>6, <1>7, <3>4
      <4> QED BY <1>19, <3>2, <3>3, <3>4, <4>1
    <3>5. CASE q # s
      <4>1. Len(q) = 1
        BY <1>10, <3>2, <3>5
      <4>2. t = Lesser(1, Room(e))
        BY <1>6, <1>7, <2>3, <3>5, <4>1 DEF Notifies
      <4>3. t = 1
        BY <1>11, <3>1, <4>2 DEF Lesser
      <4> QED BY <1>19, <3>2, <3>3, <4>1, <4>3
    <3> QED BY <3>4, <3>5
  <2> QED BY <1>2, <1>8, <1>9, <1>20, <2>1, <2>2, <2>3 DEF SendsWakes
<1> QED BY <1>9, <1>15, <1>16, <1>17, <1>21, <1>22, SendsInv DEF Sends

-----------------------------------------------------------------------------
(* Packets of the streams.                                                 *)

DataPacket(e, st, k) == [kind |-> "data", st |-> st, seq |-> k, item |-> Recv(e, st, k)]

\* What an end may send of a stream: the header, if it has one, and all chunks
\* that may be written.
Sendable(e, st) == MaxChunks[e] + (IF e = opener[st] THEN 1 ELSE 0)

LEMMA DataPacketFacts ==
    ASSUME NEW e \in Ends, NEW st \in Streams, NEW k \in Nat, k > 0, k <= Sendable(e, st)
    PROVE  /\ DataPacket(e, st, k) \in Packet
           /\ DataPacket(e, st, k).kind = "data" /\ DataPacket(e, st, k).st = st
           /\ DataPacket(e, st, k).seq = k /\ DataPacket(e, st, k).item = Recv(e, st, k)
<1>1. /\ MaxChunks["client"] \in Nat /\ MaxChunks["server"] \in Nat
      /\ MaxChunks[e] <= MaxChunks["client"] + MaxChunks["server"] /\ MaxChunks[e] \in Nat
  BY TerminatorAssumption DEF Ends
<1>2. Recv(e, st, k) \in Nat /\ Recv(e, st, k) <= MaxChunks[e]
  BY <1>1 DEF Recv, Sendable
<1>3. PICK i : i = Recv(e, st, k)
  OBVIOUS
<1>4. i \in Item
  BY <1>1, <1>2, <1>3 DEF Item
<1>5. [kind |-> "data", st |-> st, seq |-> k, item |-> i] \in Packet
  BY <1>4 DEF Packet
<1> QED BY <1>3, <1>5 DEF DataPacket

LEMMA DataPacketsFacts ==
    ASSUME TypeOK, PacketsOK, NEW e \in Ends, NEW st \in Streams, NEW n \in Nat,
           sent[e][st] + n <= Sendable(e, st)
    PROVE  /\ DataPackets(e, st, n) \subseteq Packet
           /\ \A m : m \in DataPackets(e, st, n) <=>
                 \E i \in 1 .. n : m = DataPacket(e, st, sent[e][st] + i)
           /\ \A m \in DataPackets(e, st, n) :
                /\ m.kind = "data" /\ m.st = st /\ m.seq \in 1 .. sent[e][st] + n
                /\ m.item = Recv(e, st, m.seq)
           /\ DataPackets(e, st, n) \cap net[e] = {}
<1>1. PICK s \in Nat : s = sent[e][st]
  BY DEF TypeOK, EndsOf
<1>2. Sendable(e, st) \in Nat
  BY TerminatorAssumption DEF Sendable
<1>3. PICK P : P = DataPackets(e, st, n)
  OBVIOUS
<1>4. \A m : m \in P <=> \E k \in s + 1 .. s + n : m = DataPacket(e, st, k)
  BY <1>1, <1>3 DEF DataPackets, DataPacket
<1>5. /\ \A i \in 1 .. n : s + i \in s + 1 .. s + n
      /\ \A k \in s + 1 .. s + n :
           /\ k - s \in 1 .. n /\ k = s + (k - s) /\ k \in Nat /\ k > 0 /\ k <= Sendable(e, st)
           /\ k \in 1 .. s + n /\ k \notin 1 .. s
  BY <1>1, <1>2
<1>6. \A m : m \in P <=> \E i \in 1 .. n : m = DataPacket(e, st, s + i)
  <2>1. ASSUME NEW m \in P
        PROVE  \E i \in 1 .. n : m = DataPacket(e, st, s + i)
    <3>1. PICK k \in s + 1 .. s + n : m = DataPacket(e, st, k)
      BY <1>4
    <3>2. PICK i \in 1 .. n : k = s + i
      BY <1>5
    <3> QED BY <3>1, <3>2
  <2>2. ASSUME NEW i \in 1 .. n
        PROVE  DataPacket(e, st, s + i) \in P
    <3>1. PICK k \in s + 1 .. s + n : k = s + i
      BY <1>5
    <3> QED BY <1>4, <3>1
  <2> QED BY <2>1, <2>2
<1>7. ASSUME NEW m \in P
      PROVE  /\ m \in Packet /\ m.kind = "data" /\ m.st = st /\ m.seq \in 1 .. s + n
             /\ m.item = Recv(e, st, m.seq) /\ m \notin net[e]
  <2>1. PICK k \in s + 1 .. s + n : m = DataPacket(e, st, k)
    BY <1>4
  <2>2. /\ m \in Packet /\ m.kind = "data" /\ m.st = st /\ m.seq = k /\ m.item = Recv(e, st, k)
    BY <1>5, <2>1, DataPacketFacts
  <2>3. m \notin net[e]
    BY <1>1, <1>5, <2>2 DEF PacketsOK
  <2> QED BY <1>5, <2>2, <2>3
<1> QED BY <1>1, <1>3, <1>6, <1>7

LEMMA DataPacketsCount ==
    ASSUME TypeOK, PacketsOK, NEW e \in Ends, NEW st \in Streams, NEW n \in Nat,
           sent[e][st] + n <= Sendable(e, st)
    PROVE  IsFiniteSet(DataPackets(e, st, n)) /\ Cardinality(DataPackets(e, st, n)) = n
<1>1. PICK s \in Nat : s = sent[e][st]
  BY DEF TypeOK, EndsOf
<1>2. PICK P : P = DataPackets(e, st, n)
  OBVIOUS
<1>3. \A m : m \in P <=> \E i \in 1 .. n : m = DataPacket(e, st, s + i)
  BY <1>1, <1>2, DataPacketsFacts
<1> DEFINE f == [i \in 1 .. n |-> DataPacket(e, st, s + i)]
<1>4. f \in [1 .. n -> P] /\ \A m \in P : \E i \in 1 .. n : f[i] = m
  BY <1>3
<1>5. ASSUME NEW i \in 1 .. n, NEW j \in 1 .. n, f[i] = f[j]
      PROVE  i = j
  <2>1. \A k : DataPacket(e, st, k).seq = k
    BY DEF DataPacket
  <2>2. s + i = s + j
    BY <1>5, <2>1
  <2> QED BY <2>2
<1> HIDE DEF f
<1>6. f \in Bijection(1 .. n, P)
  BY <1>4, <1>5 DEF Bijection, Injection, Surjection, IsInjective
<1>7. ExistsBijection(1 .. n, P)
  BY <1>6 DEF ExistsBijection
<1> QED BY <1>2, <1>7, FS_CountingElements, FS_NatBijection

LEMMA ChunkInInv ==
    ASSUME Inv, NEW e \in Ends, NEW st \in Streams, ChunkIn(e, st)
    PROVE  Inv'
<1>1. TypeOK /\ EndsOK /\ SourcesOK /\ PacketsOK /\ ClosesOK /\ RawOK /\ SetupOK
      /\ ServerSetupSafe /\ NetworkOK
  BY DEF Inv
<1>2. PICK o \in Ends : o = Other(e) /\ o # e
  BY EndFacts
<1>3. PICK calls \in BOOLEAN : calls <=> e # opener[st] \/ Readable(e, st) = 0 \/ written[e][st] = 0
  BY Zenon
<1>4. PICK n : n = IF calls THEN Lesser(Readable(e, st) + 1, Room(e)) ELSE 0
  OBVIOUS
<1>5. /\ crashed[e] = "no" /\ has_transport[e] /\ target[e][st] = "attached"
      /\ written[e][st] < MaxChunks[e]
      /\ written' = [written EXCEPT ![e][st] = @ + 1]
      /\ sent' = [sent EXCEPT ![e][st] = @ + n]
      /\ net' = [net EXCEPT ![e] = @ \cup DataPackets(e, st, n)]
  BY <1>3, <1>4, Zenon DEF ChunkIn, Running
<1>6. /\ Still /\ UNCHANGED setup /\ crashed' = crashed /\ raw_in' = raw_in
      /\ from_tun_queue' = from_tun_queue /\ raw_out' = raw_out /\ eof' = eof
      /\ special' = special /\ notify' = notify
  BY DEF ChunkIn, Still, raw
<1>7. opener' = opener /\ target' = target
  BY <1>1, <1>6, StillFacts
<1>8. PICK w \in Nat : w = written[e][st]
  BY <1>1 DEF TypeOK, EndsOf
<1>9. PICK s \in Nat : s = sent[e][st]
  BY <1>1 DEF TypeOK, EndsOf
<1>10. PICK h \in {0, 1} : h = IF e = opener[st] THEN 1 ELSE 0
  OBVIOUS
<1>11. Room(e) \in Nat /\ MaxChunks[e] \in Nat
  BY <1>1, RoomNat, TerminatorAssumption
<1>12. Readable(e, st) = h + w - s /\ s <= w + h
  <2>1. sent[e][st] <= written[e][st] + (IF e = opener[st] THEN 1 ELSE 0)
    BY <1>1 DEF SourcesOK
  <2> QED BY <1>5, <1>8, <1>9, <1>10, <2>1 DEF Readable
<1>13. n \in Nat /\ n <= Room(e) /\ s + n <= w + 1 + h
  BY <1>4, <1>11, <1>12 DEF Lesser
<1>14. PICK P : P = DataPackets(e, st, n)
  OBVIOUS
<1>15. /\ P \subseteq Packet /\ P \cap net[e] = {} /\ IsFiniteSet(P) /\ Cardinality(P) = n
       /\ \A m \in P : /\ m.kind = "data" /\ m.st = st /\ m.seq \in 1 .. s + n
                       /\ m.item = Recv(e, st, m.seq)
  <2>1. sent[e][st] + n <= Sendable(e, st)
    BY <1>5, <1>8, <1>9, <1>10, <1>11, <1>13 DEF Sendable
  <2>2. IsFiniteSet(DataPackets(e, st, n)) /\ Cardinality(DataPackets(e, st, n)) = n
    BY <1>1, <1>13, <2>1, DataPacketsCount
  <2>3. /\ DataPackets(e, st, n) \subseteq Packet /\ DataPackets(e, st, n) \cap net[e] = {}
        /\ \A m \in DataPackets(e, st, n) :
                /\ m.kind = "data" /\ m.st = st /\ m.seq \in 1 .. sent[e][st] + n
                /\ m.item = Recv(e, st, m.seq)
    BY <1>1, <1>13, <2>1, DataPacketsFacts
  <2> QED BY <1>9, <1>14, <2>2, <2>3
<1>16. /\ written' \in EndsOf(Nat) /\ sent' \in EndsOf(Nat)
       /\ written'[e][st] = w + 1 /\ sent'[e][st] = s + n
       /\ \A x \in Ends, y \in Streams : x # e \/ y # st =>
             written'[x][y] = written[x][y] /\ sent'[x][y] = sent[x][y]
  <2>1. written \in EndsOf(Nat) /\ sent \in EndsOf(Nat)
    BY <1>1 DEF TypeOK
  <2>2. written' = [written EXCEPT ![e][st] = w + 1] /\ w + 1 \in Nat
    BY <1>5, <1>8
  <2>3. sent' = [sent EXCEPT ![e][st] = s + n] /\ s + n \in Nat
    BY <1>5, <1>9, <1>13
  <2> QED BY <2>1, <2>2, <2>3 DEF EndsOf
<1>17. SendsPackets(e, P)
  BY <1>5, <1>13, <1>14, <1>15, <1>16 DEF SendsPackets
<1>18. SendsSources(e)
  <2>1. ASSUME NEW y \in Streams
        PROVE  /\ sent'[o][y] = sent[o][y] /\ written'[o][y] = written[o][y]
               /\ sent[e][y] <= sent'[e][y]
               /\ sent'[e][y] <= written'[e][y] + (IF e = opener[y] THEN 1 ELSE 0)
               /\ written'[e][y] <= MaxChunks[e]
               /\ target[e][y] = "none" => written'[e][y] = 0 /\ sent'[e][y] = 0
    <3>1. /\ sent[e][y] <= written[e][y] + (IF e = opener[y] THEN 1 ELSE 0)
          /\ target[e][y] = "none" => written[e][y] = 0 /\ sent[e][y] = 0
          /\ written[e][y] <= MaxChunks[e] /\ sent[e][y] \in Nat
      BY <1>1 DEF SourcesOK, TypeOK, EndsOf
    <3>2. CASE y = st
      BY <1>2, <1>5, <1>8, <1>9, <1>10, <1>11, <1>13, <1>16, <3>2
    <3>3. CASE y # st
      BY <1>2, <1>16, <3>1, <3>3
    <3> QED BY <3>2, <3>3
  <2> QED BY <1>2, <1>6, <1>16, <2>1 DEF SendsSources
<1>19. SendsCloses(e, P) /\ SendsRaw(e, P)
  <2>1. \A m \in P : m.kind # "close" /\ m.kind # "raw"
    BY <1>15
  <2> QED BY <1>1, <1>6, <2>1, KeepsCloses, KeepsRaw
<1>20. SendsWakes(e, P)
  <2>1. ASSUME n < Room(e), ~notify[e]
        PROVE  /\ from_tun_queue[e] = << >> /\ special[e] = << >>
               /\ \A y \in Streams : Readable(e, y)' = 0
    <3>1. Room(e) > 0
      BY <1>11, <1>13, <2>1
    <3>2. /\ from_tun_queue[e] = << >> /\ special[e] = << >>
          /\ \A y \in Streams : Readable(e, y) = 0
      BY <1>1, <1>5, <2>1, <3>1 DEF NetworkOK, Waiting
    <3>3. n = 1
      <4>1. Readable(e, st) + 1 = 1 /\ calls
        BY <1>3, <3>2
      <4>2. n = Lesser(1, Room(e))
        BY <1>4, <4>1
      <4> QED BY <1>11, <3>1, <4>2 DEF Lesser
    <3>4. ASSUME NEW y \in Streams
          PROVE  Readable(e, y)' = 0
      <4>1. CASE y = st
        <5>1. Readable(e, st)' = h + (w + 1) - (s + n)
          BY <1>5, <1>7, <1>10, <1>16 DEF Readable
        <5>2. h + w - s = 0
          BY <1>12, <3>2
        <5> QED BY <3>3, <4>1, <5>1, <5>2
      <4>2. CASE y # st
        <5>1. Readable(e, y)' = Readable(e, y)
          BY <1>7, <1>16, <4>2 DEF Readable
        <5> QED BY <3>2, <5>1
      <4> QED BY <4>1, <4>2
    <3> QED BY <3>2, <3>4
  <2>2. /\ crashed \in [Ends -> {"no", "setup", "write"}] /\ notify \in [Ends -> BOOLEAN]
    BY <1>1 DEF TypeOK
  <2> QED BY <1>5, <1>6, <1>15, <2>1, <2>2 DEF SendsWakes
<1> QED BY <1>6, <1>17, <1>18, <1>19, <1>20, SendsInv DEF Sends

-----------------------------------------------------------------------------
(* Opening a stream.                                                       *)

\* A stream is opened at end e: it gets target t and connection k, n packets
\* are sent, and the state of the process is then c.
Opens(e, st, t, k, n, c) ==
    /\ \/ /\ t = "attached" /\ k = "open" /\ c = "no" /\ n = Lesser(1, Room(e))
       \/ t = "none" /\ k = "none" /\ c = "setup" /\ n = 0 /\ e # "server"
    /\ crashed[e] = "no" /\ opener[st] = "none"
    /\ opener' = [opener EXCEPT ![st] = e] /\ crashed' = [crashed EXCEPT ![e] = c]
    /\ target' = [target EXCEPT ![e][st] = t] /\ sock' = [sock EXCEPT ![e][st] = k]
    /\ sent' = [sent EXCEPT ![e][st] = n] /\ net' = [net EXCEPT ![e] = @ \cup HeaderPacket(st, n)]
    /\ UNCHANGED <<setup, raw, sources, arrived, buffer, header, error, sending, write_due, out,
                   special, notify>>

\* Before that, it has nothing at either end.
LEMMA Unopened ==
    ASSUME TypeOK, EndsOK, SourcesOK, NEW st \in Streams, opener[st] = "none", NEW x \in Ends
    PROVE  /\ target[x][st] = "none" /\ header[st] = "none" /\ written[x][st] = 0 /\ sent[x][st] = 0
           /\ arrived[x][st] = 0 /\ sock[x][st] = "none" /\ error[x][st] = FALSE /\ eof[x][st] = FALSE
           /\ out[x][st] = << >> /\ sending[x][st] = << >> /\ buffer[x][st] = << >>
<1>1. target[x][st] = "none" /\ header[st] = "none" /\ written[x][st] = 0 /\ sent[x][st] = 0
  BY DEF SourcesOK
<1>2. /\ Now(x, st).target = target[x][st] /\ Now(x, st).header = header[st]
      /\ Now(x, st).sock = sock[x][st] /\ Now(x, st).error = error[x][st]
      /\ Now(x, st).sending = sending[x][st] /\ Now(x, st).buffer = buffer[x][st]
  BY DEF Now
<1>3. /\ StagesOK("none", x, Now(x, st), arrived[x][st])
      /\ ItemsOK("none", x, Now(x, st), out[x][st], arrived[x][st])
  BY DEF EndsOK
<1>4. x # "none"
  BY DEF Ends
<1>5. arrived[x][st] = 0 /\ sock[x][st] = "none" /\ (error[x][st] <=> FALSE)
  BY <1>1, <1>2, <1>3 DEF StagesOK
<1>6. error[x][st] = FALSE /\ eof[x][st] = FALSE
  <2>1. error[x][st] \in BOOLEAN /\ eof[x][st] \in BOOLEAN
    BY DEF TypeOK, EndsOf
  <2>2. ~eof[x][st]
    BY <1>5 DEF SourcesOK
  <2> QED BY <1>5, <2>1, <2>2
<1>7. HeaderWaits("none", x, Now(x, st)) /\ ~HeaderTaken("none", x, Now(x, st))
  BY <1>1, <1>2, <1>4 DEF HeaderWaits, HeaderTaken
<1>8. out[x][st] = << >> /\ sending[x][st] = << >>
  BY <1>2, <1>3, <1>7 DEF ItemsOK
<1>9. Len(buffer[x][st]) = 0 /\ buffer[x][st] \in Seq(Item)
  <2>1. buffer[x][st] \in Seq(Item)
    BY DEF TypeOK, EndsOf
  <2>2. arrived[x][st] = Len(out[x][st]) + Len(sending[x][st]) + Len(buffer[x][st]) + 0
    BY <1>2, <1>3, <1>7 DEF ItemsOK
  <2> QED BY <1>5, <1>8, <2>1, <2>2
<1>10. buffer[x][st] = << >>
  BY <1>9, EmptySeq
<1> QED BY <1>1, <1>5, <1>6, <1>8, <1>10

LEMMA TcpAcceptedOpens ==
    ASSUME TypeOK, EndsOK, SourcesOK, SetupOK, NEW e \in Ends, NEW st \in Streams, TcpAccepted(e, st)
    PROVE  \E t, k, n, c : Opens(e, st, t, k, n, c)
<1>1. /\ crashed[e] = "no" /\ opener[st] = "none" /\ opener' = [opener EXCEPT ![st] = e]
      /\ UNCHANGED <<setup, raw, sources, arrived, buffer, header, error, sending, write_due, out,
                     special, notify>>
  BY DEF TcpAccepted
<1>2. CASE has_transport[e]
  <2>1. /\ target' = [target EXCEPT ![e][st] = "attached"] /\ sock' = [sock EXCEPT ![e][st] = "open"]
        /\ sent' = [sent EXCEPT ![e][st] = Lesser(1, Room(e))]
        /\ net' = [net EXCEPT ![e] = @ \cup HeaderPacket(st, Lesser(1, Room(e)))]
        /\ crashed' = crashed
    BY <1>2, Zenon DEF TcpAccepted
  <2>2. crashed' = [crashed EXCEPT ![e] = "no"]
    BY <1>1, <2>1 DEF TypeOK
  <2>3. Opens(e, st, "attached", "open", Lesser(1, Room(e)), "no")
    BY <1>1, <2>1, <2>2, Zenon DEF Opens
  <2> QED BY <2>3
<1>3. CASE ~has_transport[e]
  <2>1. /\ crashed' = [crashed EXCEPT ![e] = "setup"]
        /\ target' = target /\ sock' = sock /\ sent' = sent /\ net' = net
    BY <1>3, Zenon DEF TcpAccepted
  <2>2. e # "server"
    BY <1>3 DEF TcpAccepted, SetupOK
  <2>3. target[e][st] = "none" /\ sock[e][st] = "none" /\ sent[e][st] = 0
    BY <1>1, Unopened
  <2>4. /\ target' = [target EXCEPT ![e][st] = "none"] /\ sock' = [sock EXCEPT ![e][st] = "none"]
        /\ sent' = [sent EXCEPT ![e][st] = 0]
    BY <2>1, <2>3 DEF TypeOK, EndsOf
  <2>5. net' = [net EXCEPT ![e] = @ \cup HeaderPacket(st, 0)]
    <3>1. HeaderPacket(st, 0) = {}
      BY DEF HeaderPacket
    <3> QED BY <2>1, <3>1 DEF TypeOK
  <2>6. Opens(e, st, "none", "none", 0, "setup")
    BY <1>1, <2>1, <2>2, <2>4, <2>5, Zenon DEF Opens
  <2> QED BY <2>6
<1> QED BY <1>2, <1>3

LEMMA HeaderPacketFacts ==
    ASSUME NEW st \in Streams, NEW n \in {0, 1}
    PROVE  /\ HeaderPacket(st, n) \subseteq Packet
           /\ \A m \in HeaderPacket(st, n) :
                m.kind = "data" /\ m.st = st /\ m.seq = 1 /\ m.item = 0 /\ n = 1
           /\ IsFiniteSet(HeaderPacket(st, n)) /\ Cardinality(HeaderPacket(st, n)) = n
<1>1. PICK m : m = [kind |-> "data", st |-> st, seq |-> 1, item |-> 0]
  OBVIOUS
<1>2. m \in Packet /\ m.kind = "data" /\ m.st = st /\ m.seq = 1 /\ m.item = 0
  <2>1. 0 \in Item
    BY TerminatorAssumption DEF Item, Ends
  <2> QED BY <1>1, <2>1 DEF Packet
<1>3. n = 0 => HeaderPacket(st, n) = {}
  BY DEF HeaderPacket
<1>4. n = 1 => HeaderPacket(st, n) = {m}
  <2>1. 1 .. 1 = {1}
    OBVIOUS
  <2> QED BY <1>1, <2>1 DEF HeaderPacket
<1>5. IsFiniteSet({}) /\ Cardinality({}) = 0 /\ IsFiniteSet({m}) /\ Cardinality({m}) = 1
  BY FS_EmptySet, FS_Singleton
<1>6. CASE n = 0
  BY <1>3, <1>5, <1>6
<1>7. CASE n = 1
  BY <1>2, <1>4, <1>5, <1>7
<1> QED BY <1>6, <1>7

LEMMA OpensInv ==
    ASSUME Inv, NEW e \in Ends, NEW st \in Streams, NEW t, NEW k, NEW n, NEW c, Opens(e, st, t, k, n, c)
    PROVE  Inv'
<1>1. TypeOK /\ EndsOK /\ SourcesOK /\ PacketsOK /\ ClosesOK /\ RawOK /\ SetupOK
      /\ ServerSetupSafe /\ NetworkOK
  BY DEF Inv
<1>2. PICK o \in Ends : o = Other(e) /\ o # e /\ e = Other(o) /\ \A x \in Ends : x = e \/ x = o
  BY EndFacts
<1>3. Room(e) \in Nat /\ Room(e) = QUEUE_SIZE - Cardinality(net[e]) /\ IsFiniteSet(net[e])
      /\ Cardinality(net[e]) \in Nat /\ QUEUE_SIZE \in Nat
  BY <1>1, RoomNat
<1>4. /\ \/ t = "attached" /\ k = "open" /\ c = "no"
         \/ t = "none" /\ k = "none" /\ c = "setup" /\ e # "server"
      /\ n \in {0, 1} /\ n <= Room(e)
      /\ t = "none" => n = 0
      /\ t = "attached" /\ n = 0 => Room(e) = 0
  <2>1. Lesser(1, Room(e)) \in {0, 1} /\ Lesser(1, Room(e)) <= Room(e)
    BY <1>3 DEF Lesser
  <2>2. Lesser(1, Room(e)) = 0 => Room(e) = 0
    BY <1>3 DEF Lesser
  <2>3. \/ t = "attached" /\ k = "open" /\ c = "no" /\ n = Lesser(1, Room(e))
        \/ t = "none" /\ k = "none" /\ c = "setup" /\ n = 0 /\ e # "server"
    BY Zenon DEF Opens
  <2> QED BY <1>3, <2>1, <2>2, <2>3
<1>5. /\ crashed[e] = "no" /\ opener[st] = "none"
      /\ opener' = [opener EXCEPT ![st] = e] /\ crashed' = [crashed EXCEPT ![e] = c]
      /\ target' = [target EXCEPT ![e][st] = t] /\ sock' = [sock EXCEPT ![e][st] = k]
      /\ sent' = [sent EXCEPT ![e][st] = n] /\ net' = [net EXCEPT ![e] = @ \cup HeaderPacket(st, n)]
  BY DEF Opens
<1>6. /\ has_tun' = has_tun /\ has_transport' = has_transport /\ raw_in' = raw_in
      /\ from_tun_queue' = from_tun_queue /\ raw_out' = raw_out /\ written' = written /\ eof' = eof
      /\ arrived' = arrived /\ buffer' = buffer /\ header' = header /\ error' = error
      /\ sending' = sending /\ write_due' = write_due /\ out' = out /\ special' = special
      /\ notify' = notify
  BY DEF Opens, setup, raw, sources
<1>7. \A x \in Ends :
        /\ target[x][st] = "none" /\ header[st] = "none" /\ written[x][st] = 0 /\ sent[x][st] = 0
        /\ arrived[x][st] = 0 /\ sock[x][st] = "none" /\ error[x][st] = FALSE /\ eof[x][st] = FALSE
        /\ out[x][st] = << >> /\ sending[x][st] = << >> /\ buffer[x][st] = << >>
  BY <1>1, <1>5, Unopened
<1>8. /\ opener' \in [Streams -> Ends \cup {"none"}] /\ opener'[st] = e
      /\ \A y \in Streams : y # st => opener'[y] = opener[y]
      /\ crashed' \in [Ends -> {"no", "setup", "write"}] /\ crashed'[e] = c /\ crashed'[o] = crashed[o]
  BY <1>1, <1>2, <1>4, <1>5 DEF TypeOK
<1>9. /\ target' \in EndsOf({"none", "attached", "closed"}) /\ sock' \in EndsOf({"none", "open", "closed"})
      /\ sent' \in EndsOf(Nat)
      /\ target'[e][st] = t /\ sock'[e][st] = k /\ sent'[e][st] = n
      /\ \A x \in Ends, y \in Streams : x # e \/ y # st =>
            target'[x][y] = target[x][y] /\ sock'[x][y] = sock[x][y] /\ sent'[x][y] = sent[x][y]
  <2>1. /\ target \in EndsOf({"none", "attached", "closed"}) /\ sock \in EndsOf({"none", "open", "closed"})
        /\ sent \in EndsOf(Nat) /\ t \in {"none", "attached", "closed"}
        /\ k \in {"none", "open", "closed"} /\ n \in Nat
    BY <1>1, <1>4 DEF TypeOK
  <2> QED BY <1>5, <2>1 DEF EndsOf
<1>10. PICK P : P = HeaderPacket(st, n)
  OBVIOUS
<1>11. /\ P \subseteq Packet /\ IsFiniteSet(P) /\ Cardinality(P) = n
       /\ \A m \in P : m.kind = "data" /\ m.st = st /\ m.seq = 1 /\ m.item = 0 /\ n = 1
  BY <1>4, <1>10, HeaderPacketFacts
<1>12. net' \in [Ends -> SUBSET Packet] /\ net'[e] = net[e] \cup P /\ net'[o] = net[o]
  BY <1>1, <1>2, <1>5, <1>10, <1>11 DEF TypeOK
<1>13. \A x \in Ends : \A m \in net[x] : m.kind = "data" => m.st # st
  BY <1>1, <1>7 DEF PacketsOK
<1>14. /\ IsFiniteSet(net'[e]) /\ Cardinality(net'[e]) <= QUEUE_SIZE
       /\ Room(e)' > 0 => n < Room(e)
  <2>1. P \cap net[e] = {}
    BY <1>11, <1>13
  <2>2. IsFiniteSet(net'[e]) /\ Cardinality(net'[e]) = Cardinality(net[e]) + n
    <3>1. /\ IsFiniteSet(net[e] \cup P)
          /\ Cardinality(net[e] \cup P) = Cardinality(net[e]) + Cardinality(P)
      BY <1>3, <1>11, <2>1, AddPackets
    <3> QED BY <1>11, <1>12, <3>1
  <2>3. Room(e)' = QUEUE_SIZE - Cardinality(net'[e])
    BY DEF Room
  <2> QED BY <1>3, <1>4, <2>2, <2>3
<1>15. TypeOK'
  <2>1. \A x \in Ends : IsFiniteSet(net'[x]) /\ Cardinality(net'[x]) <= QUEUE_SIZE
    BY <1>1, <1>2, <1>12, <1>14 DEF TypeOK
  <2>2. ASSUME NEW x \in Ends, NEW y \in Streams
        PROVE  /\ written[x][y] <= MaxChunks[x] /\ sent'[x][y] <= written[x][y] + 1
               /\ arrived[x][y] <= sent'[Other(x)][y] /\ Len(sending[x][y]) <= 1
    <3>1. /\ written[x][y] <= MaxChunks[x] /\ sent[x][y] <= written[x][y] + 1
          /\ arrived[x][y] <= sent[Other(x)][y] /\ Len(sending[x][y]) <= 1
      BY <1>1 DEF TypeOK
    <3>2. CASE y # st
      BY <1>9, <3>1, <3>2, EndFacts
    <3>3. CASE y = st
      <4>1. sent'[x][st] \in {0, 1} /\ sent'[Other(x)][st] \in {0, 1}
        BY <1>2, <1>4, <1>7, <1>9
      <4> QED BY <1>7, <3>1, <3>3, <4>1
    <3> QED BY <3>2, <3>3
  <2>3. /\ has_tun \in [Ends -> BOOLEAN] /\ has_transport \in [Ends -> BOOLEAN]
        /\ raw_in \in [Ends -> Nat] /\ from_tun_queue \in [Ends -> Seq(Nat)]
        /\ raw_out \in [Ends -> Seq(Nat)] /\ special \in [Ends -> Seq(Streams)]
        /\ \A x \in Ends : raw_in[x] <= MaxRaw[x] /\ Len(from_tun_queue[x]) <= MAX_TUN_QUEUE_SIZE + 1
        /\ written \in EndsOf(Nat) /\ arrived \in EndsOf(Nat)
        /\ buffer \in EndsOf(Seq(Item)) /\ sending \in EndsOf(Seq(Item)) /\ out \in EndsOf(Seq(Item))
        /\ eof \in EndsOf(BOOLEAN) /\ write_due \in EndsOf(BOOLEAN) /\ error \in EndsOf(BOOLEAN)
        /\ header \in [Streams -> {"none", "fresh", "connecting", "done"}]
        /\ notify \in [Ends -> BOOLEAN]
    BY <1>1 DEF TypeOK
  <2> QED BY <1>6, <1>8, <1>9, <1>12, <2>1, <2>2, <2>3, Zenon DEF TypeOK
<1>16. \A x \in Ends, y \in Streams : y # st => Now(x, y)' = Now(x, y)
  BY <1>6, <1>9, Zenon DEF Now
<1>17. EndsOK'
  <2>1. ASSUME NEW x \in Ends, NEW d, d = Now(x, st)'
        PROVE  ItemsOK(e, x, d, << >>, 0) /\ StagesOK(e, x, d, 0) /\ WakesOK(e, x, d)
    <3>1. /\ d.buffer = << >> /\ d.sending = << >> /\ d.header = "none" /\ d.error = FALSE
          /\ d.target = target'[x][st] /\ d.sock = sock'[x][st]
      BY <1>6, <1>7, <2>1 DEF Now
    <3>2. /\ x # e => d.target = "none" /\ d.sock = "none"
          /\ x = e => d.target = t /\ d.sock = k
      BY <1>7, <1>9, <3>1
    <3>3. StagesOK(e, x, d, 0) /\ WakesOK(e, x, d)
      BY <1>4, <3>1, <3>2 DEF StagesOK, WakesOK
    <3>4. ~HeaderTaken(e, x, d)
      BY <3>1 DEF HeaderTaken
    <3>5. ItemsOK(e, x, d, << >>, 0)
      BY <3>1, <3>4 DEF ItemsOK
    <3> QED BY <3>3, <3>5
  <2>2. ASSUME NEW x \in Ends, NEW y \in Streams
        PROVE  /\ ItemsOK(opener'[y], x, Now(x, y)', out'[x][y], arrived'[x][y])
               /\ StagesOK(opener'[y], x, Now(x, y)', arrived'[x][y])
               /\ WakesOK(opener'[y], x, Now(x, y)')
    <3>1. CASE y = st
      BY <1>6, <1>7, <1>8, <2>1, <3>1
    <3>2. CASE y # st
      <4>1. /\ ItemsOK(opener[y], x, Now(x, y), out[x][y], arrived[x][y])
            /\ StagesOK(opener[y], x, Now(x, y), arrived[x][y])
            /\ WakesOK(opener[y], x, Now(x, y))
        BY <1>1 DEF EndsOK
      <4>2. Now(x, y)' = Now(x, y) /\ opener'[y] = opener[y]
        BY <1>8, <1>16, <3>2
      <4> QED BY <1>6, <4>1, <4>2
    <3> QED BY <3>1, <3>2
  <2> QED BY <2>2 DEF EndsOK
<1>18. SourcesOK'
  <2> SUFFICES ASSUME NEW x \in Ends, NEW y \in Streams
               PROVE  /\ sent'[x][y] <= written[x][y] + (IF x = opener'[y] THEN 1 ELSE 0)
                      /\ target'[x][y] = "none" => written[x][y] = 0 /\ sent'[x][y] = 0
                      /\ opener'[y] = "none" => target'[x][y] = "none" /\ header[y] = "none"
                      /\ x = opener'[y] /\ target'[x][y] = "none" => crashed'[x] # "no"
                      /\ eof[x][y] => sock'[x][y] # "none"
    BY <1>6 DEF SourcesOK
  <2>1. /\ sent[x][y] <= written[x][y] + (IF x = opener[y] THEN 1 ELSE 0)
        /\ target[x][y] = "none" => written[x][y] = 0 /\ sent[x][y] = 0
        /\ opener[y] = "none" => target[x][y] = "none" /\ header[y] = "none"
        /\ x = opener[y] /\ target[x][y] = "none" => crashed[x] # "no"
        /\ eof[x][y] => sock[x][y] # "none"
    BY <1>1 DEF SourcesOK
  <2>2. CASE y # st
    <3>1. crashed[x] # "no" => crashed'[x] # "no"
      BY <1>2, <1>5, <1>8
    <3> QED BY <1>8, <1>9, <2>1, <2>2, <3>1
  <2>3. CASE y = st /\ x = e
    <3>1. e # "none"
      BY DEF Ends
    <3> QED BY <1>4, <1>7, <1>8, <1>9, <2>3, <3>1
  <2>4. CASE y = st /\ x = o
    <3>1. e # "none"
      BY DEF Ends
    <3> QED BY <1>2, <1>7, <1>8, <1>9, <2>4, <3>1
  <2> QED BY <1>2, <2>2, <2>3, <2>4
<1>19. PacketsOK'
  <2> SUFFICES ASSUME NEW x \in Ends, NEW m \in net'[x], m.kind = "data"
               PROVE  m.seq \in 1 .. sent'[x][m.st] /\ m.item = Recv(x, m.st, m.seq)'
    BY DEF PacketsOK, Recv
  <2>1. CASE m \in net[x]
    <3>1. m.st # st /\ m.st \in Streams
      <4>1. m \in Packet
        BY <1>12
      <4> QED BY <1>13, <2>1, <4>1 DEF Packet
    <3>2. m.seq \in 1 .. sent[x][m.st] /\ m.item = Recv(x, m.st, m.seq)
      BY <1>1, <2>1 DEF PacketsOK
    <3>3. Recv(x, m.st, m.seq)' = Recv(x, m.st, m.seq) /\ sent'[x][m.st] = sent[x][m.st]
      BY <1>8, <1>9, <3>1 DEF Recv
    <3> QED BY <3>2, <3>3
  <2>2. CASE m \notin net[x]
    <3>1. x = e /\ m \in P
      BY <1>2, <1>12, <2>2
    <3>2. m.st = st /\ m.seq = 1 /\ m.item = 0 /\ n = 1
      BY <1>11, <3>1
    <3> QED BY <1>8, <1>9, <3>1, <3>2 DEF Recv
  <2> QED BY <2>1, <2>2
<1>20. ClosesOK'
  <2>1. ASSUME NEW x \in Ends
        PROVE  /\ Distinct(special[x])
               /\ \A y \in Streams : ~(Holds(special[x], y) /\ ClosePacket(y) \in net'[x])
               /\ \A y \in Streams :
                    Holds(special[x], y) \/ ClosePacket(y) \in net'[x] => Shut(opener'[y], x, Now(x, y)')
    <3>1. /\ Distinct(special[x])
          /\ \A y \in Streams : ~(Holds(special[x], y) /\ ClosePacket(y) \in net[x])
          /\ \A y \in Streams :
               Holds(special[x], y) \/ ClosePacket(y) \in net[x] => Shut(opener[y], x, Now(x, y))
      BY <1>1 DEF ClosesOK
    <3>2. \A y \in Streams : ClosePacket(y) \in net'[x] => ClosePacket(y) \in net[x]
      <4>1. \A y \in Streams : ClosePacket(y) \notin P
        <5>1. \A y : ClosePacket(y).kind = "close"
          BY DEF ClosePacket
        <5> QED BY <1>11, <5>1
      <4> QED BY <1>2, <1>12, <4>1
    <3>3. ~Shut(opener[st], x, Now(x, st))
      <4>1. Now(x, st).target = "none"
        BY <1>7 DEF Now
      <4> QED BY <4>1 DEF Shut
    <3>4. \A y \in Streams : y # st => opener'[y] = opener[y] /\ Now(x, y)' = Now(x, y)
      BY <1>8, <1>16
    <3>5. ASSUME NEW y \in Streams, Holds(special[x], y) \/ ClosePacket(y) \in net'[x]
          PROVE  Shut(opener'[y], x, Now(x, y)')
      <4>1. Shut(opener[y], x, Now(x, y))
        BY <3>1, <3>2, <3>5
      <4>2. y # st
        BY <3>3, <4>1
      <4> QED BY <3>4, <4>1, <4>2
    <3> QED BY <3>1, <3>2, <3>5
  <2> QED BY <1>6, <2>1 DEF ClosesOK
<1>21. RawOK'
  <2>1. ASSUME NEW x \in Ends
        PROVE  RawFlow(x, raw_out[Other(x)], net'[x], from_tun_queue[x], raw_in[x])
    <3>1. RawFlow(x, raw_out[Other(x)], net[x], from_tun_queue[x], raw_in[x])
      BY <1>1 DEF RawOK
    <3>2. \A m \in net'[x] : m.kind = "raw" => m \in net[x]
      BY <1>2, <1>11, <1>12
    <3> QED BY <3>1, <3>2 DEF RawFlow
  <2> QED BY <1>6, <2>1 DEF RawOK
<1>22. SetupOK' /\ ServerSetupSafe'
  <2>1. crashed'["server"] # "setup"
    BY <1>1, <1>2, <1>4, <1>8 DEF ServerSetupSafe, Ends
  <2> QED BY <1>1, <1>6, <2>1 DEF SetupOK, ServerSetupSafe
<1>23. NetworkOK'
  <2>1. \A x \in Ends, y \in Streams : y # st => Readable(x, y)' = Readable(x, y)
    BY <1>6, <1>8, <1>9 DEF Readable
  <2>2. ASSUME crashed'[e] = "no"
        PROVE  Waiting(e)'
    <3> SUFFICES ASSUME has_transport[e], Room(e)' > 0, ~notify[e]
                 PROVE  /\ from_tun_queue[e] = << >> /\ special[e] = << >>
                        /\ \A y \in Streams : Readable(e, y)' = 0
      BY <1>6 DEF Waiting
    <3>1. n < Room(e) /\ Room(e) > 0 /\ t = "attached"
      BY <1>3, <1>4, <1>8, <1>14, <2>2
    <3>2. /\ from_tun_queue[e] = << >> /\ special[e] = << >>
          /\ \A y \in Streams : Readable(e, y) = 0
      BY <1>1, <1>5, <3>1 DEF NetworkOK, Waiting
    <3>3. n = 1
      BY <1>4, <3>1
    <3>4. Readable(e, st)' = 0
      BY <1>6, <1>7, <1>8, <1>9, <3>1, <3>3 DEF Readable
    <3> QED BY <2>1, <3>2, <3>4
  <2>3. ASSUME crashed'[o] = "no"
        PROVE  Waiting(o)'
    <3>1. Waiting(o)
      BY <1>1, <1>8, <2>3 DEF NetworkOK
    <3>2. Room(o)' = Room(o)
      BY <1>12 DEF Room
    <3>3. Readable(o, st)' = 0
      BY <1>2, <1>7, <1>9 DEF Readable
    <3> QED BY <1>6, <2>1, <3>1, <3>2, <3>3 DEF Waiting
  <2> QED BY <1>2, <2>2, <2>3 DEF NetworkOK
<1> QED BY <1>15, <1>17, <1>18, <1>19, <1>20, <1>21, <1>22, <1>23 DEF Inv

LEMMA TcpAcceptedInv ==
    ASSUME Inv, NEW e \in Ends, NEW st \in Streams, TcpAccepted(e, st)
    PROVE  Inv'
<1>1. PICK t, k, n, c : Opens(e, st, t, k, n, c)
  BY TcpAcceptedOpens DEF Inv
<1> QED BY <1>1, OpensInv

-----------------------------------------------------------------------------
(* The rounds of network_send_ready.                                       *)

Channels == Streams \cup {"raw"}

\* What is taken in the rounds, one pair of a channel and a number for each
\* packet.
TakenPairs(take, room) == {x \in Channels \X (1 .. room) : x[2] <= take[x[1]]}

LEMMA RoundsFacts ==
    ASSUME NEW e, NEW room, NEW take \in Rounds(e, room)
    PROVE  /\ take \in [Channels -> 0 .. room]
           /\ take["raw"] <= Len(from_tun_queue[e])
           /\ \A st \in Streams : take[st] <= Readable(e, st)
           /\ Cardinality(TakenPairs(take, room)) <= room
           /\ Cardinality(TakenPairs(take, room)) < room =>
                take["raw"] = Len(from_tun_queue[e]) /\ \A st \in Streams : take[st] = Readable(e, st)
<1>1. PICK readable : readable = [c \in Channels |->
                                    IF c = "raw" THEN Len(from_tun_queue[e]) ELSE Readable(e, c)]
  OBVIOUS
<1>2. DOMAIN readable = Channels /\ readable["raw"] = Len(from_tun_queue[e])
  BY <1>1 DEF Channels
<1>3. \A st \in Streams : readable[st] = Readable(e, st)
  BY <1>1, TerminatorAssumption DEF Channels
<1>4. /\ take \in [DOMAIN readable -> 0 .. room]
      /\ \A c \in DOMAIN take : take[c] <= readable[c]
      /\ Cardinality({x \in (DOMAIN readable) \X (1 .. room) : x[2] <= take[x[1]]}) <= room
      /\ Cardinality({x \in (DOMAIN readable) \X (1 .. room) : x[2] <= take[x[1]]}) < room =>
           take = readable
  BY <1>1, Zenon DEF Rounds, Channels
<1>5. {x \in (DOMAIN readable) \X (1 .. room) : x[2] <= take[x[1]]} = TakenPairs(take, room)
  BY <1>2, Zenon DEF TakenPairs
<1>6. DOMAIN take = Channels
  BY <1>2, <1>4
<1>7. "raw" \in Channels /\ \A st \in Streams : st \in Channels
  BY DEF Channels
<1>8. take["raw"] <= Len(from_tun_queue[e]) /\ \A st \in Streams : take[st] <= Readable(e, st)
  BY <1>2, <1>3, <1>4, <1>6, <1>7
<1>9. take = readable =>
         take["raw"] = Len(from_tun_queue[e]) /\ \A st \in Streams : take[st] = Readable(e, st)
  BY <1>2, <1>3
<1> QED BY <1>2, <1>4, <1>5, <1>8, <1>9, Zenon

ClosePackets(q, n) == {[kind |-> "close", st |-> q[i]] : i \in 1 .. n}

LEMMA ClosePacketsFacts ==
    ASSUME NEW q \in Seq(Streams), Distinct(q), NEW n \in 0 .. Len(q)
    PROVE  /\ ClosePackets(q, n) \subseteq Packet
           /\ \A m : m \in ClosePackets(q, n) <=> \E i \in 1 .. n : m = ClosePacket(q[i])
           /\ \A m \in ClosePackets(q, n) : m.kind = "close"
           /\ \A i \in 1 .. n : Holds(q, q[i])
           /\ IsFiniteSet(ClosePackets(q, n)) /\ Cardinality(ClosePackets(q, n)) = n
<1>1. PICK P : P = ClosePackets(q, n)
  OBVIOUS
<1>2. \A m : m \in P <=> \E i \in 1 .. n : m = ClosePacket(q[i])
  BY <1>1 DEF ClosePackets, ClosePacket
<1>3. \A i \in 1 .. n : i \in DOMAIN q /\ q[i] \in Streams
  <2>1. PICK k \in Nat : k = Len(q)
    OBVIOUS
  <2>2. \A i \in 1 .. n : i \in 1 .. k
    BY <2>1
  <2> QED BY <2>1, <2>2
<1>4. P \subseteq Packet /\ \A m \in P : m.kind = "close"
  BY <1>2, <1>3, CloseFacts
<1>5. \A i \in 1 .. n : Holds(q, q[i])
  BY <1>3 DEF Holds
<1> DEFINE f == [i \in 1 .. n |-> ClosePacket(q[i])]
<1>6. f \in [1 .. n -> P] /\ \A m \in P : \E i \in 1 .. n : f[i] = m
  BY <1>2
<1>7. ASSUME NEW i \in 1 .. n, NEW j \in 1 .. n, f[i] = f[j]
      PROVE  i = j
  <2>1. q[i] = q[j]
    BY <1>7, CloseFacts
  <2> QED BY <1>3, <2>1 DEF Distinct
<1> HIDE DEF f
<1>8. f \in Bijection(1 .. n, P)
  BY <1>6, <1>7 DEF Bijection, Injection, Surjection, IsInjective
<1>9. ExistsBijection(1 .. n, P) /\ n \in Nat
  BY <1>8 DEF ExistsBijection
<1>10. IsFiniteSet(P) /\ Cardinality(P) = n
  BY <1>9, FS_CountingElements, FS_NatBijection
<1> QED BY <1>1, <1>2, <1>4, <1>5, <1>10

PacketOf(e, q, c, i) == IF c = "raw" THEN RawPacket(q[i]) ELSE DataPacket(e, c, sent[e][c] + i)

ReadPackets(e, q, take) ==
    RawPackets(q, take["raw"]) \cup UNION {DataPackets(e, st, take[st]) : st \in Streams}

LEMMA ReadPacketsMembers ==
    ASSUME TypeOK, PacketsOK, NEW e \in Ends, NEW q \in Seq(Nat), NEW room \in Nat,
           NEW take \in [Channels -> 0 .. room],
           \A st \in Streams : sent[e][st] + take[st] <= Sendable(e, st)
    PROVE  \A m : m \in ReadPackets(e, q, take) <=>
               \E c \in Channels, i \in 1 .. room : i <= take[c] /\ m = PacketOf(e, q, c, i)
<1>1. PICK n \in 0 .. room : n = take["raw"]
  BY DEF Channels
<1>2. \A st \in Streams : st \in Channels /\ st # "raw" /\ take[st] \in 0 .. room /\ take[st] \in Nat
  BY TerminatorAssumption DEF Channels
<1>3. \A m : m \in RawPackets(q, n) <=> \E i \in 1 .. n : m = RawPacket(q[i])
  BY DEF RawPackets, RawPacket
<1>4. \A st \in Streams : \A m : m \in DataPackets(e, st, take[st]) <=>
          \E i \in 1 .. take[st] : m = DataPacket(e, st, sent[e][st] + i)
  BY <1>2, DataPacketsFacts
<1>5. \A m : m \in ReadPackets(e, q, take) <=>
          m \in RawPackets(q, n) \/ \E st \in Streams : m \in DataPackets(e, st, take[st])
  BY <1>1 DEF ReadPackets
<1>6. \A k \in 0 .. room : \A i : i \in 1 .. k <=> i \in 1 .. room /\ i <= k
  OBVIOUS
<1>7. /\ \A i : PacketOf(e, q, "raw", i) = RawPacket(q[i])
      /\ \A st \in Streams : \A i : PacketOf(e, q, st, i) = DataPacket(e, st, sent[e][st] + i)
  BY <1>2 DEF PacketOf
<1>8. ASSUME NEW m \in ReadPackets(e, q, take)
      PROVE  \E c \in Channels, i \in 1 .. room : i <= take[c] /\ m = PacketOf(e, q, c, i)
  <2>1. CASE m \in RawPackets(q, n)
    <3>1. PICK i \in 1 .. n : m = RawPacket(q[i])
      BY <1>3, <2>1
    <3>2. "raw" \in Channels /\ i \in 1 .. room /\ i <= take["raw"] /\ m = PacketOf(e, q, "raw", i)
      BY <1>1, <1>6, <1>7, <3>1 DEF Channels
    <3> QED BY <3>2
  <2>2. CASE \E st \in Streams : m \in DataPackets(e, st, take[st])
    <3>1. PICK st \in Streams : m \in DataPackets(e, st, take[st])
      BY <2>2
    <3>2. PICK i \in 1 .. take[st] : m = DataPacket(e, st, sent[e][st] + i)
      BY <1>4, <3>1
    <3>3. st \in Channels /\ i \in 1 .. room /\ i <= take[st] /\ m = PacketOf(e, q, st, i)
      BY <1>2, <1>6, <1>7, <3>2
    <3> QED BY <3>3
  <2> QED BY <1>5, <2>1, <2>2
<1>9. ASSUME NEW c \in Channels, NEW i \in 1 .. room, i <= take[c]
      PROVE  PacketOf(e, q, c, i) \in ReadPackets(e, q, take)
  <2>1. CASE c = "raw"
    <3>1. i \in 1 .. n
      BY <1>1, <1>6, <1>9, <2>1
    <3>2. RawPacket(q[i]) \in RawPackets(q, n)
      BY <1>3, <3>1
    <3> QED BY <1>5, <1>7, <2>1, <3>2
  <2>2. CASE c \in Streams
    <3>1. i \in 1 .. take[c]
      BY <1>2, <1>6, <1>9, <2>2
    <3>2. DataPacket(e, c, sent[e][c] + i) \in DataPackets(e, c, take[c])
      BY <1>4, <2>2, <3>1
    <3> QED BY <1>5, <1>7, <2>2, <3>2
  <2> QED BY <2>1, <2>2 DEF Channels
<1> QED BY <1>8, <1>9

LEMMA PacketOfInjective ==
    ASSUME TypeOK, NEW e \in Ends, NEW q \in Seq(Nat), Increasing(q),
           NEW c \in Channels, NEW d \in Channels, NEW i \in Nat, NEW j \in Nat,
           c = "raw" => i \in DOMAIN q, d = "raw" => j \in DOMAIN q,
           PacketOf(e, q, c, i) = PacketOf(e, q, d, j)
    PROVE  c = d /\ i = j
<1>1. /\ \A x : RawPacket(x).kind = "raw" /\ RawPacket(x).n = x
      /\ \A y, x : DataPacket(e, y, x).kind = "data" /\ DataPacket(e, y, x).st = y /\ DataPacket(e, y, x).seq = x
  BY DEF RawPacket, DataPacket
<1>2. CASE c = "raw" /\ d = "raw"
  <2>1. RawPacket(q[i]) = RawPacket(q[j])
    BY <1>2 DEF PacketOf
  <2>2. q[i] = q[j]
    BY <1>1, <2>1
  <2> QED BY <1>2, <2>2, IncreasingDistinct
<1>3. CASE c = "raw" /\ d # "raw"
  <2>1. RawPacket(q[i]) = DataPacket(e, d, sent[e][d] + j)
    BY <1>3 DEF PacketOf
  <2> QED BY <1>1, <2>1
<1>4. CASE c # "raw" /\ d = "raw"
  <2>1. DataPacket(e, c, sent[e][c] + i) = RawPacket(q[j])
    BY <1>4 DEF PacketOf
  <2> QED BY <1>1, <2>1
<1>5. CASE c # "raw" /\ d # "raw"
  <2>1. DataPacket(e, c, sent[e][c] + i) = DataPacket(e, d, sent[e][d] + j)
    BY <1>5 DEF PacketOf
  <2>2. c = d /\ sent[e][c] + i = sent[e][d] + j
    BY <1>1, <2>1
  <2>3. sent[e][c] \in Nat
    <3>1. c \in Streams
      BY <1>5 DEF Channels
    <3> QED BY <3>1 DEF TypeOK, EndsOf
  <2> QED BY <2>2, <2>3
<1> QED BY <1>2, <1>3, <1>4, <1>5

LEMMA ReadPacketsCount ==
    ASSUME TypeOK, PacketsOK, NEW e \in Ends, NEW q \in Seq(Nat), NEW room \in Nat,
           NEW take \in [Channels -> 0 .. room], Increasing(q), take["raw"] <= Len(q),
           \A st \in Streams : sent[e][st] + take[st] <= Sendable(e, st)
    PROVE  /\ IsFiniteSet(ReadPackets(e, q, take))
           /\ Cardinality(ReadPackets(e, q, take)) = Cardinality(TakenPairs(take, room))
<1>1. PICK R : R = ReadPackets(e, q, take)
  OBVIOUS
<1>2. \A m : m \in R <=>
         \E c \in Channels, i \in 1 .. room : i <= take[c] /\ m = PacketOf(e, q, c, i)
  BY <1>1, ReadPacketsMembers
<1>3. PICK D : D = TakenPairs(take, room)
  OBVIOUS
<1>4. IsFiniteSet(D)
  <2>1. IsFiniteSet(Channels)
    <3>1. IsFiniteSet(Streams) /\ IsFiniteSet({"raw"})
      BY TerminatorAssumption, FS_Singleton
    <3> QED BY <3>1, FS_Union DEF Channels
  <2>2. IsFiniteSet(1 .. room)
    BY FS_Interval
  <2>3. IsFiniteSet(Channels \X (1 .. room))
    BY <2>1, <2>2, FS_Product
  <2>4. D \in SUBSET (Channels \X (1 .. room))
    BY <1>3 DEF TakenPairs
  <2> QED BY <2>3, <2>4, FS_Subset
<1>5. \A x \in D : /\ x[1] \in Channels /\ x[2] \in 1 .. room /\ x[2] <= take[x[1]]
                   /\ x = <<x[1], x[2]>>
  BY <1>3 DEF TakenPairs
<1>6. \A c \in Channels, i \in 1 .. room : i <= take[c] => <<c, i>> \in D
  BY <1>3 DEF TakenPairs
<1> DEFINE f == [x \in D |-> PacketOf(e, q, x[1], x[2])]
<1>7. f \in [D -> R]
  BY <1>2, <1>5
<1>8. ASSUME NEW m \in R
      PROVE  \E x \in D : f[x] = m
  <2>1. PICK c \in Channels, i \in 1 .. room : i <= take[c] /\ m = PacketOf(e, q, c, i)
    BY <1>2
  <2>2. <<c, i>> \in D
    BY <1>6, <2>1
  <2>3. f[<<c, i>>] = m
    BY <2>1, <2>2
  <2> QED BY <2>2, <2>3
<1>9. ASSUME NEW x \in D, NEW y \in D, f[x] = f[y]
      PROVE  x = y
  <2>1. PacketOf(e, q, x[1], x[2]) = PacketOf(e, q, y[1], y[2])
    BY <1>9
  <2>2. /\ x[1] \in Channels /\ x[2] \in Nat /\ (x[1] = "raw" => x[2] \in DOMAIN q)
        /\ y[1] \in Channels /\ y[2] \in Nat /\ (y[1] = "raw" => y[2] \in DOMAIN q)
    <3>1. take["raw"] \in Nat
      BY DEF Channels
    <3>2. PICK k \in Nat : k = Len(q)
      OBVIOUS
    <3>3. DOMAIN q = 1 .. k
      BY <3>2
    <3> HIDE DEF f
    <3>4. ASSUME NEW z \in D
          PROVE  z[1] \in Channels /\ z[2] \in Nat /\ (z[1] = "raw" => z[2] \in DOMAIN q)
      <4>1. z[1] \in Channels /\ z[2] \in 1 .. room /\ z[2] <= take[z[1]]
        BY <1>5
      <4> QED BY <3>1, <3>2, <3>3, <4>1
    <3> QED BY <3>4
  <2>3. x[1] = y[1] /\ x[2] = y[2]
    BY <2>1, <2>2, PacketOfInjective, SMTT(30)
  <2> HIDE DEF f
  <2> QED BY <1>5, <2>3
<1> HIDE DEF f
<1>10. f \in Bijection(D, R)
  BY <1>7, <1>8, <1>9 DEF Bijection, Injection, Surjection, IsInjective
<1>11. ExistsBijection(D, R)
  BY <1>10 DEF ExistsBijection
<1> QED BY <1>1, <1>3, <1>4, <1>11, FS_Bijection

\* What network_send_ready sends: n CLOSE packets, and what it takes from the
\* raw queue and the streams.
SendReadyTakes(e, n, room, take) ==
    /\ n \in 0 .. Len(special[e]) /\ n <= Room(e) /\ room \in Nat /\ room = Room(e) - n
    /\ take \in Rounds(e, room)

SendReadySends(e, n, room, take, C, R) ==
    /\ C \cup R \subseteq Packet /\ (C \cup R) \cap net[e] = {}
    /\ IsFiniteSet(C \cup R) /\ Cardinality(C \cup R) <= Room(e)
    /\ Cardinality(C \cup R) = n + Cardinality(TakenPairs(take, room))
    /\ Cardinality(TakenPairs(take, room)) \in Nat
    /\ \A m \in C : m.kind = "close"
    /\ \A m \in R : m.kind = "raw" => m \in RawPackets(from_tun_queue[e], take["raw"])
    /\ \A m \in R : m.kind # "close"
    /\ \A m \in R : m.kind = "data" =>
         /\ m.st \in Streams /\ m.seq \in 1 .. sent[e][m.st] + take[m.st]
         /\ m.item = Recv(e, m.st, m.seq)

LEMMA SentReadyPackets ==
    ASSUME TypeOK, SourcesOK, PacketsOK, ClosesOK, RawOK, NEW e \in Ends,
           NEW n, NEW room, NEW take, SendReadyTakes(e, n, room, take),
           NEW C, C = ClosePackets(special[e], n), NEW R, R = ReadPackets(e, from_tun_queue[e], take)
    PROVE  SendReadySends(e, n, room, take, C, R)
<1>1. PICK q \in Seq(Nat) : q = from_tun_queue[e]
  BY DEF TypeOK
<1>2. PICK z \in Seq(Streams) : z = special[e]
  BY DEF TypeOK
<1>3. Room(e) \in Nat
  BY RoomNat
<1>4. /\ n \in 0 .. Len(z) /\ n <= Room(e) /\ room \in Nat /\ room = Room(e) - n
      /\ take \in Rounds(e, room)
  BY <1>2 DEF SendReadyTakes
<1>5. /\ take \in [Channels -> 0 .. room] /\ take["raw"] <= Len(q)
      /\ \A st \in Streams : take[st] <= Readable(e, st)
      /\ Cardinality(TakenPairs(take, room)) <= room
  BY <1>1, <1>4, RoundsFacts
<1>6. RawFlow(e, raw_out[Other(e)], net[e], q, raw_in[e]) /\ Increasing(q)
  BY <1>1 DEF RawOK, RawFlow
<1>7. ASSUME NEW st \in Streams
      PROVE  take[st] \in Nat /\ sent[e][st] \in Nat /\ sent[e][st] + take[st] <= Sendable(e, st)
  <2>1. take[st] \in Nat /\ take[st] <= Readable(e, st)
    BY <1>5 DEF Channels
  <2>2. sent[e][st] \in Nat /\ written[e][st] \in Nat /\ written[e][st] <= MaxChunks[e] /\ MaxChunks[e] \in Nat
    BY TerminatorAssumption DEF TypeOK, EndsOf
  <2>3. sent[e][st] <= written[e][st] + (IF e = opener[st] THEN 1 ELSE 0)
    BY DEF SourcesOK
  <2>4. PICK h \in {0, 1} : h = IF e = opener[st] THEN 1 ELSE 0
    OBVIOUS
  <2>5. Readable(e, st) = 0 \/ Readable(e, st) = h + written[e][st] - sent[e][st]
    BY <2>4 DEF Readable
  <2>6. Sendable(e, st) = MaxChunks[e] + h
    BY <2>4 DEF Sendable
  <2>7. sent[e][st] <= written[e][st] + h
    BY <2>3, <2>4
  <2>8. PICK w \in Nat, k \in Nat, l \in Nat, i \in Nat :
            w = written[e][st] /\ k = sent[e][st] /\ l = MaxChunks[e] /\ i = take[st]
    BY <2>1, <2>2
  <2>9. w <= l /\ k <= w + h
    BY <2>2, <2>7, <2>8
  <2>10. i <= 0 \/ i <= h + w - k
    BY <2>1, <2>5, <2>8
  <2>11. k + i <= l + h
    BY <2>9, <2>10
  <2> QED BY <2>6, <2>8, <2>11
<1>8. take["raw"] \in 0 .. Len(q)
  <2>1. take["raw"] \in Nat
    BY <1>5 DEF Channels
  <2> QED BY <1>5, <2>1
<1>9. /\ RawPackets(q, take["raw"]) \subseteq Packet
      /\ \A m \in RawPackets(q, take["raw"]) : m.kind = "raw"
      /\ RawPackets(q, take["raw"]) \cap net[e] = {}
  <2>1. raw_out[Other(e)] \in Seq(Nat) /\ net[e] \in SUBSET Packet /\ raw_in[e] \in Nat
    BY EndFacts DEF TypeOK
  <2> QED BY <1>6, <1>8, <2>1, RawPacketsFacts
<1>10. \A st \in Streams :
         /\ DataPackets(e, st, take[st]) \subseteq Packet
         /\ \A m \in DataPackets(e, st, take[st]) :
                /\ m.kind = "data" /\ m.st = st /\ m.seq \in 1 .. sent[e][st] + take[st]
                /\ m.item = Recv(e, st, m.seq)
         /\ DataPackets(e, st, take[st]) \cap net[e] = {}
  BY <1>7, DataPacketsFacts
<1>11. \A m \in R : m \in RawPackets(q, take["raw"]) \/ \E st \in Streams : m \in DataPackets(e, st, take[st])
  BY <1>1 DEF ReadPackets
<1>12. ASSUME NEW m \in R
       PROVE  /\ m \in Packet /\ m \notin net[e] /\ m.kind # "close"
              /\ m.kind = "raw" => m \in RawPackets(q, take["raw"])
              /\ m.kind = "data" =>
                   /\ m.st \in Streams /\ m.seq \in 1 .. sent[e][m.st] + take[m.st]
                   /\ m.item = Recv(e, m.st, m.seq)
  <2>1. CASE m \in RawPackets(q, take["raw"])
    BY <1>9, <2>1
  <2>2. CASE \E st \in Streams : m \in DataPackets(e, st, take[st])
    BY <1>10, <2>2
  <2> QED BY <1>11, <2>1, <2>2
<1>13. IsFiniteSet(R) /\ Cardinality(R) = Cardinality(TakenPairs(take, room))
  <2>1. \A st \in Streams : sent[e][st] + take[st] <= Sendable(e, st)
    BY <1>7
  <2>2. room \in Nat /\ take \in [Channels -> 0 .. room] /\ take["raw"] <= Len(q) /\ Increasing(q)
    BY <1>4, <1>5, <1>6
  <2>3. /\ IsFiniteSet(ReadPackets(e, q, take))
        /\ Cardinality(ReadPackets(e, q, take)) = Cardinality(TakenPairs(take, room))
    BY <2>1, <2>2, ReadPacketsCount
  <2> QED BY <1>1, <2>3
<1>14. Distinct(z) /\ \A y \in Streams : ~(Holds(z, y) /\ ClosePacket(y) \in net[e])
  BY <1>2 DEF ClosesOK
<1>15. /\ C \subseteq Packet /\ (\A m \in C : m.kind = "close")
       /\ \A m \in C : \E i \in 1 .. n : m = ClosePacket(z[i]) /\ Holds(z, z[i])
       /\ IsFiniteSet(C) /\ Cardinality(C) = n
  <2>1. n \in 0 .. Len(z) /\ Distinct(z)
    BY <1>4, <1>14
  <2>2. /\ ClosePackets(z, n) \subseteq Packet
        /\ \A m : m \in ClosePackets(z, n) <=> \E i \in 1 .. n : m = ClosePacket(z[i])
        /\ \A m \in ClosePackets(z, n) : m.kind = "close"
        /\ \A i \in 1 .. n : Holds(z, z[i])
        /\ IsFiniteSet(ClosePackets(z, n)) /\ Cardinality(ClosePackets(z, n)) = n
    BY <2>1, ClosePacketsFacts
  <2> QED BY <1>2, <2>2
<1>16. ASSUME NEW m \in C
       PROVE  m \notin net[e]
  <2>1. PICK i \in 1 .. n : m = ClosePacket(z[i]) /\ Holds(z, z[i])
    BY <1>15
  <2>2. z[i] \in Streams
    BY <2>1 DEF Holds
  <2> QED BY <1>14, <2>1, <2>2
<1>17. R \cap C = {}
  BY <1>12, <1>15
<1>18. /\ IsFiniteSet(C \cup R) /\ Cardinality(C \cup R) = Cardinality(C) + Cardinality(R)
       /\ Cardinality(R) \in Nat
  BY <1>13, <1>15, <1>17, AddPackets
<1>19. Cardinality(C \cup R) <= Room(e)
  BY <1>3, <1>4, <1>5, <1>13, <1>15, <1>18
<1>20. Cardinality(C \cup R) = n + Cardinality(TakenPairs(take, room)) /\ Cardinality(TakenPairs(take, room)) \in Nat
  BY <1>13, <1>15, <1>18
<1>21. C \cup R \subseteq Packet /\ (C \cup R) \cap net[e] = {}
  BY <1>12, <1>15, <1>16
<1> QED BY <1>1, <1>12, <1>15, <1>18, <1>19, <1>20, <1>21 DEF SendReadySends

LEMMA NetworkSendReadyInv ==
    ASSUME Inv, NEW e \in Ends, NetworkSendReady(e)
    PROVE  Inv'
<1>1. TypeOK /\ EndsOK /\ SourcesOK /\ PacketsOK /\ ClosesOK /\ RawOK /\ SetupOK
      /\ ServerSetupSafe /\ NetworkOK
  BY DEF Inv
<1>2. PICK o \in Ends : o = Other(e) /\ o # e
  BY EndFacts
<1>3. PICK q \in Seq(Nat) : q = from_tun_queue[e]
  BY <1>1 DEF TypeOK
<1>4. PICK z \in Seq(Streams) : z = special[e]
  BY <1>1 DEF TypeOK
<1>5. PICK n \in 0 .. Len(z) : n = SpecialsFirst(e) /\ n <= Room(e) /\ (n < Room(e) => n = Len(z))
  <2>1. PICK k \in Nat : k = Len(z)
    OBVIOUS
  <2>2. Room(e) \in Nat
    BY <1>1, RoomNat
  <2>3. SpecialsFirst(e) = Lesser(Room(e), k)
    BY <1>4, <2>1 DEF SpecialsFirst
  <2>4. PICK n \in 0 .. k : n = SpecialsFirst(e) /\ n <= Room(e) /\ (n < Room(e) => n = k)
    BY <2>2, <2>3 DEF Lesser
  <2> QED BY <2>1, <2>4
<1>6. PICK room \in Nat : room = Room(e) - n
  <2>1. Room(e) \in Nat
    BY <1>1, RoomNat
  <2> QED BY <1>5, <2>1
<1>7. PICK take \in Rounds(e, room) :
            /\ from_tun_queue' = [from_tun_queue EXCEPT ![e] = SubSeq(q, take["raw"] + 1, Len(q))]
            /\ sent' = [sent EXCEPT ![e] = [st \in Streams |-> @[st] + take[st]]]
            /\ net' = [net EXCEPT ![e] = @
                   \cup {[kind |-> "close", st |-> special[e][i]] : i \in 1 .. n}
                   \cup RawPackets(q, take["raw"])
                   \cup UNION {DataPackets(e, st, take[st]) : st \in Streams}]
  BY <1>3, <1>5, <1>6, Zenon DEF NetworkSendReady
<1>8. /\ crashed[e] = "no" /\ has_transport[e]
      /\ notify' = [notify EXCEPT ![e] = FALSE]
      /\ special' = [special EXCEPT ![e] = SubSeq(z, n + 1, Len(z))]
  BY <1>4, <1>5 DEF NetworkSendReady
<1>9. /\ Still /\ UNCHANGED setup /\ crashed' = crashed /\ raw_in' = raw_in /\ raw_out' = raw_out
      /\ written' = written /\ eof' = eof
  BY DEF NetworkSendReady, Still, sources
<1>10. opener' = opener /\ target' = target
  BY <1>1, <1>9, StillFacts
<1>11. Room(e) \in Nat
  BY <1>1, RoomNat
<1>12. n \in 0 .. Len(z) /\ n <= Room(e) /\ (n < Room(e) => n = Len(z))
  BY <1>5
<1>13. /\ take \in [Channels -> 0 .. room] /\ take["raw"] <= Len(q)
       /\ \A st \in Streams : take[st] <= Readable(e, st)
       /\ Cardinality(TakenPairs(take, room)) <= room
       /\ Cardinality(TakenPairs(take, room)) < room =>
            take["raw"] = Len(q) /\ \A st \in Streams : take[st] = Readable(e, st)
  BY <1>3, <1>6, RoundsFacts
<1>14. PICK C : C = ClosePackets(z, n)
  OBVIOUS
<1>15. PICK R : R = ReadPackets(e, q, take)
  OBVIOUS
<1>16. PICK P : P = C \cup R
  OBVIOUS
<1>17. /\ P \subseteq Packet /\ P \cap net[e] = {} /\ IsFiniteSet(P) /\ Cardinality(P) <= Room(e)
       /\ Cardinality(P) = n + Cardinality(TakenPairs(take, room))
       /\ Cardinality(TakenPairs(take, room)) \in Nat
       /\ \A m \in C : m.kind = "close"
       /\ \A m \in R : m.kind = "raw" => m \in RawPackets(q, take["raw"])
       /\ \A m \in R : m.kind # "close"
       /\ \A m \in R : m.kind = "data" =>
            /\ m.st \in Streams /\ m.seq \in 1 .. sent[e][m.st] + take[m.st]
            /\ m.item = Recv(e, m.st, m.seq)
  <2>1. /\ SendReadyTakes(e, n, room, take)
        /\ C = ClosePackets(special[e], n) /\ R = ReadPackets(e, from_tun_queue[e], take)
    BY <1>3, <1>4, <1>12, <1>6, <1>14, <1>15 DEF SendReadyTakes
  <2>2. SendReadySends(e, n, room, take, C, R)
    BY <1>1, <2>1, SentReadyPackets, Zenon
  <2> QED BY <1>3, <1>16, <2>2 DEF SendReadySends
<1>18. net' = [net EXCEPT ![e] = @ \cup P]
  <2>1. net' = [net EXCEPT ![e] = @ \cup C \cup RawPackets(q, take["raw"])
                   \cup UNION {DataPackets(e, st, take[st]) : st \in Streams}]
    BY <1>4, <1>7, <1>14, Zenon DEF ClosePackets
  <2>2. P = C \cup (RawPackets(q, take["raw"]) \cup UNION {DataPackets(e, st, take[st]) : st \in Streams})
    BY <1>15, <1>16 DEF ReadPackets
  <2>3. PICK A : A = RawPackets(q, take["raw"])
    OBVIOUS
  <2>4. PICK B : B = UNION {DataPackets(e, st, take[st]) : st \in Streams}
    OBVIOUS
  <2>5. net[e] \cup C \cup A \cup B = net[e] \cup P
    BY <2>2, <2>3, <2>4
  <2>6. net' = [net EXCEPT ![e] = net[e] \cup C \cup A \cup B]
    BY <2>1, <2>3, <2>4
  <2> QED BY <2>5, <2>6
<1>19. \A st \in Streams : take[st] \in Nat /\ sent[e][st] \in Nat
  <2>1. sent \in EndsOf(Nat)
    BY <1>1 DEF TypeOK
  <2> QED BY <1>13, <2>1 DEF Channels, EndsOf
<1>20. /\ sent' \in EndsOf(Nat) /\ \A y \in Streams : sent'[o][y] = sent[o][y]
       /\ \A y \in Streams : sent'[e][y] = sent[e][y] + take[y]
  <2>1. sent \in EndsOf(Nat)
    BY <1>1 DEF TypeOK
  <2>2. PICK f : f = [st \in Streams |-> sent[e][st] + take[st]]
    OBVIOUS
  <2>3. f \in [Streams -> Nat] /\ \A y \in Streams : f[y] = sent[e][y] + take[y]
    BY <1>19, <2>2
  <2>4. sent' = [sent EXCEPT ![e] = f]
    BY <1>7, <2>2
  <2> QED BY <1>2, <2>1, <2>3, <2>4 DEF EndsOf
<1>21. SendsPackets(e, P)
  <2>1. ASSUME NEW m \in P, m.kind = "data"
        PROVE  m.seq \in 1 .. sent'[e][m.st] /\ m.item = Recv(e, m.st, m.seq)
    <3>1. m \in R
      BY <1>16, <1>17, <2>1
    <3>2. m.st \in Streams /\ m.seq \in 1 .. sent[e][m.st] + take[m.st] /\ m.item = Recv(e, m.st, m.seq)
      BY <1>17, <2>1, <3>1
    <3> QED BY <1>20, <3>2
  <2> QED BY <1>17, <1>18, <2>1 DEF SendsPackets
<1>22. ASSUME NEW y \in Streams
       PROVE  /\ sent'[e][y] <= written[e][y] + (IF e = opener[y] THEN 1 ELSE 0)
              /\ sent[e][y] <= sent'[e][y] /\ written[e][y] <= MaxChunks[e]
              /\ target[e][y] = "none" => written[e][y] = 0 /\ sent'[e][y] = 0
              /\ take[y] = Readable(e, y) => Readable(e, y)' = 0
  <2>1. /\ sent[e][y] <= written[e][y] + (IF e = opener[y] THEN 1 ELSE 0)
        /\ target[e][y] = "none" => written[e][y] = 0 /\ sent[e][y] = 0
        /\ written[e][y] <= MaxChunks[e] /\ sent[e][y] \in Nat /\ written[e][y] \in Nat
    BY <1>1 DEF SourcesOK, TypeOK, EndsOf
  <2>2. PICK h \in {0, 1} : h = IF e = opener[y] THEN 1 ELSE 0
    OBVIOUS
  <2>3. take[y] \in Nat /\ take[y] <= Readable(e, y) /\ sent'[e][y] = sent[e][y] + take[y]
    BY <1>13, <1>19, <1>20
  <2>4. sent[e][y] <= written[e][y] + h
    BY <2>1, <2>2
  <2>5. CASE target[e][y] # "attached"
    <3>1. Readable(e, y) = 0 /\ Readable(e, y)' = 0
      BY <1>10, <2>5 DEF Readable
    <3>2. sent'[e][y] = sent[e][y]
      BY <2>1, <2>3, <3>1
    <3> QED BY <2>1, <3>1, <3>2
  <2>6. CASE target[e][y] = "attached"
    <3>1. Readable(e, y) = h + written[e][y] - sent[e][y]
      BY <2>2, <2>6 DEF Readable
    <3>2. Readable(e, y)' = h + written[e][y] - sent'[e][y]
      BY <1>9, <1>10, <2>2, <2>6 DEF Readable
    <3>3. PICK w \in Nat, k \in Nat, i \in Nat : w = written[e][y] /\ k = sent[e][y] /\ i = take[y]
      BY <2>1, <2>3
    <3>4. sent'[e][y] = k + i /\ i <= h + w - k
      BY <2>3, <3>1, <3>3
    <3>5. sent'[e][y] <= written[e][y] + h /\ sent[e][y] <= sent'[e][y]
      BY <3>3, <3>4, SMTT(30)
    <3>6. take[y] = Readable(e, y) => Readable(e, y)' = 0
      BY <3>1, <3>2, <3>3, <3>4, SMTT(30)
    <3> QED BY <2>1, <2>2, <2>6, <3>5, <3>6
  <2> QED BY <2>5, <2>6
<1>23. SendsSources(e)
  <2>1. written \in EndsOf(Nat)
    BY <1>1 DEF TypeOK
  <2> QED BY <1>2, <1>9, <1>20, <1>22, <2>1 DEF SendsSources
<1>24. PICK r : r = Dropped(q, take["raw"])
  OBVIOUS
<1>25. take["raw"] \in 0 .. Len(q)
  <2>1. take["raw"] \in Nat
    BY <1>13 DEF Channels
  <2> QED BY <1>13, <2>1
<1>26. r \in Seq(Nat) /\ Len(r) = Len(q) - take["raw"] /\ (Len(r) = 0 => r = << >>)
  <2>1. PICK t \in 0 .. Len(q) : t = take["raw"]
    BY <1>25
  <2>2. r = Dropped(q, t)
    BY <1>24, <2>1
  <2>3. r \in Seq(Nat) /\ Len(r) = Len(q) - t /\ (Len(r) = 0 => r = << >>)
    BY <2>2, DropNat
  <2> QED BY <2>1, <2>3
<1>27. /\ from_tun_queue' \in [Ends -> Seq(Nat)] /\ from_tun_queue'[e] = r
       /\ from_tun_queue'[o] = from_tun_queue[o]
  <2>1. from_tun_queue' = [from_tun_queue EXCEPT ![e] = r] /\ from_tun_queue \in [Ends -> Seq(Nat)]
    BY <1>1, <1>7, <1>24 DEF TypeOK, Dropped
  <2> QED BY <1>2, <1>26, <2>1
<1>28. SendsRaw(e, P)
  <2>1. /\ raw_in \in [Ends -> Nat] /\ raw_in[e] <= MaxRaw[e] /\ raw_in[e] \in Nat
        /\ raw_out[o] \in Seq(Nat) /\ net[e] \in SUBSET Packet
        /\ Len(q) <= MAX_TUN_QUEUE_SIZE + 1
    BY <1>1, <1>3 DEF TypeOK
  <2>2. RawFlow(e, raw_out[o], net[e], q, raw_in[e])
    BY <1>1, <1>2, <1>3 DEF RawOK
  <2>3. \A m \in P : m.kind = "raw" => m \in RawPackets(q, take["raw"])
    BY <1>16, <1>17
  <2>4. RawFlow(e, raw_out[o], net[e] \cup P, r, raw_in[e])
    <3>1. PICK t \in 0 .. Len(q) : t = take["raw"]
      BY <1>25
    <3>2. r = Dropped(q, t) /\ \A m \in P : m.kind = "raw" => m \in RawPackets(q, t)
      BY <1>24, <2>3, <3>1
    <3>3. RawFlow(e, raw_out[o], net[e] \cup P, Dropped(q, t), raw_in[e])
      BY <2>1, <2>2, <3>2, RawSent
    <3> QED BY <3>2, <3>3
  <2>5. Len(r) <= MAX_TUN_QUEUE_SIZE + 1
    BY <1>25, <1>26, <2>1, TerminatorAssumption, SMTT(30)
  <2> QED BY <1>2, <1>9, <1>27, <2>1, <2>4, <2>5 DEF SendsRaw
<1>29. PICK u : u = Dropped(z, n)
  OBVIOUS
<1>30. Distinct(z) /\ \A y \in Streams : ~(Holds(z, y) /\ ClosePacket(y) \in net[e])
  BY <1>1, <1>4 DEF ClosesOK
<1>31. /\ u \in Seq(Streams) /\ Distinct(u) /\ Len(u) = Len(z) - n
       /\ \A x : Holds(u, x) => Holds(z, x)
       /\ \A i \in 1 .. n : ~Holds(u, z[i])
  <2>1. Distinct(z)
    BY <1>30
  <2> QED BY <1>29, <2>1, DropDistinct
<1>32. special' \in [Ends -> Seq(Streams)] /\ special'[e] = u /\ special'[o] = special[o]
  <2>1. special' = [special EXCEPT ![e] = u] /\ special \in [Ends -> Seq(Streams)]
    BY <1>1, <1>8, <1>29 DEF TypeOK, Dropped
  <2> QED BY <1>2, <1>31, <2>1
<1>33. SendsCloses(e, P)
  <2>1. ASSUME NEW y \in Streams, ClosePacket(y) \in P
        PROVE  Holds(z, y) /\ ~Holds(u, y)
    <3>1. ClosePacket(y) \in C
      BY <1>16, <1>17, <2>1, CloseFacts
    <3>2. PICK i \in 1 .. n : ClosePacket(y) = ClosePacket(z[i]) /\ Holds(z, z[i])
      BY <1>12, <1>14, <1>30, <3>1, ClosePacketsFacts
    <3>3. y = z[i]
      BY <3>2, CloseFacts
    <3> QED BY <1>31, <3>2, <3>3
  <2>2. \A y \in Streams : ~(Holds(u, y) /\ ClosePacket(y) \in net[e] \cup P)
    BY <1>30, <1>31, <2>1
  <2>3. \A y \in Streams : Holds(u, y) \/ ClosePacket(y) \in P => Holds(special[e], y)
    BY <1>4, <1>31, <2>1
  <2> QED BY <1>2, <1>31, <1>32, <2>2, <2>3 DEF SendsCloses
<1>34. SendsWakes(e, P)
  <2>1. ASSUME Cardinality(P) < Room(e)
        PROVE  r = << >> /\ u = << >> /\ \A y \in Streams : Readable(e, y)' = 0
    <3>1. PICK k \in Nat : k = Cardinality(TakenPairs(take, room))
      BY <1>17
    <3>2. n + k < Room(e) /\ n \in Nat
      BY <1>12, <1>17, <2>1, <3>1
    <3>3. k < room /\ n < Room(e)
      BY <1>11, <1>6, <3>1, <3>2
    <3>4. take["raw"] = Len(q) /\ \A st \in Streams : take[st] = Readable(e, st)
      BY <1>13, <3>1, <3>3
    <3>5. Len(r) = 0
      BY <1>26, <3>4
    <3>6. Len(u) = 0
      BY <1>12, <1>31, <3>3
    <3>7. u = << >>
      BY <1>31, <3>6, EmptySeq
    <3> QED BY <1>22, <1>26, <3>4, <3>5, <3>7
  <2>2. notify' \in [Ends -> BOOLEAN] /\ notify'[o] = notify[o]
    BY <1>1, <1>2, <1>8 DEF TypeOK
  <2>3. crashed \in [Ends -> {"no", "setup", "write"}]
    BY <1>1 DEF TypeOK
  <2> QED BY <1>2, <1>8, <1>9, <1>27, <1>32, <2>1, <2>2, <2>3 DEF SendsWakes
<1> QED BY <1>9, <1>21, <1>23, <1>28, <1>33, <1>34, SendsInv DEF Sends

-----------------------------------------------------------------------------
(* The invariant, and what follows from it.                                *)

LEMMA InitInv ==
    ASSUME Init
    PROVE  Inv
<1>1. \A S, x : x \in S => All(x) \in EndsOf(S)
  BY DEF All, EndsOf
<1>2. \A x : \A e \in Ends, st \in Streams : All(x)[e][st] = x
  BY DEF All
<1>3. /\ target = All("none") /\ written = All(0) /\ eof = All(FALSE) /\ sent = All(0)
      /\ arrived = All(0) /\ buffer = All(<< >>) /\ error = All(FALSE) /\ sock = All("none")
      /\ sending = All(<< >>) /\ write_due = All(FALSE) /\ out = All(<< >>)
  BY DEF Init
<1>4. /\ has_tun = [e \in Ends |-> FALSE] /\ has_transport = [e \in Ends |-> FALSE]
      /\ crashed = [e \in Ends |-> "no"] /\ raw_in = [e \in Ends |-> 0]
      /\ from_tun_queue = [e \in Ends |-> << >>] /\ raw_out = [e \in Ends |-> << >>]
      /\ opener = [st \in Streams |-> "none"] /\ header = [st \in Streams |-> "none"]
      /\ net = [e \in Ends |-> {}] /\ special = [e \in Ends |-> << >>]
      /\ notify = [e \in Ends |-> FALSE]
  BY DEF Init
<1>5. /\ << >> \in Seq(Item) /\ << >> \in Seq(Nat) /\ << >> \in Seq(Streams) /\ Len(<< >>) = 0
      /\ DOMAIN << >> = {}
  OBVIOUS
<1>6. TypeOK
  <2>1. /\ target \in EndsOf({"none", "attached", "closed"})
        /\ written \in EndsOf(Nat) /\ sent \in EndsOf(Nat) /\ arrived \in EndsOf(Nat)
        /\ buffer \in EndsOf(Seq(Item)) /\ sending \in EndsOf(Seq(Item)) /\ out \in EndsOf(Seq(Item))
        /\ eof \in EndsOf(BOOLEAN) /\ write_due \in EndsOf(BOOLEAN) /\ error \in EndsOf(BOOLEAN)
        /\ sock \in EndsOf({"none", "open", "closed"})
    BY <1>1, <1>3, <1>5
  <2>2. /\ has_tun \in [Ends -> BOOLEAN] /\ has_transport \in [Ends -> BOOLEAN]
        /\ crashed \in [Ends -> {"no", "setup", "write"}]
        /\ raw_in \in [Ends -> Nat] /\ from_tun_queue \in [Ends -> Seq(Nat)]
        /\ raw_out \in [Ends -> Seq(Nat)] /\ net \in [Ends -> SUBSET Packet]
        /\ special \in [Ends -> Seq(Streams)] /\ opener \in [Streams -> Ends \cup {"none"}]
        /\ header \in [Streams -> {"none", "fresh", "connecting", "done"}]
        /\ notify \in [Ends -> BOOLEAN]
    BY <1>4, <1>5
  <2>3. \A e \in Ends :
          /\ raw_in[e] <= MaxRaw[e] /\ Len(from_tun_queue[e]) <= MAX_TUN_QUEUE_SIZE + 1
          /\ IsFiniteSet(net[e]) /\ Cardinality(net[e]) <= QUEUE_SIZE
    BY <1>4, <1>5, FS_EmptySet, TerminatorAssumption
  <2>4. \A e \in Ends, st \in Streams :
          /\ written[e][st] <= MaxChunks[e] /\ sent[e][st] <= written[e][st] + 1
          /\ arrived[e][st] <= sent[Other(e)][st] /\ Len(sending[e][st]) <= 1
    BY <1>2, <1>3, <1>5, EndFacts, TerminatorAssumption
  <2> QED BY <2>1, <2>2, <2>3, <2>4, Zenon DEF TypeOK
<1>7. EndsOK
  <2>1. ASSUME NEW e \in Ends, NEW st \in Streams, NEW c, c = Now(e, st)
        PROVE  /\ ItemsOK("none", e, c, << >>, 0) /\ StagesOK("none", e, c, 0) /\ WakesOK("none", e, c)
    <3>1. /\ c.buffer = << >> /\ c.sending = << >> /\ c.header = "none" /\ c.error = FALSE
          /\ c.target = "none" /\ c.sock = "none"
      BY <1>2, <1>3, <1>4, <2>1 DEF Now
    <3>2. StagesOK("none", e, c, 0) /\ WakesOK("none", e, c)
      BY <3>1 DEF StagesOK, WakesOK
    <3>3. ~HeaderTaken("none", e, c)
      BY <3>1 DEF HeaderTaken
    <3>4. ItemsOK("none", e, c, << >>, 0)
      BY <3>1, <3>3 DEF ItemsOK
    <3> QED BY <3>2, <3>4
  <2>2. \A e \in Ends, st \in Streams : opener[st] = "none" /\ out[e][st] = << >> /\ arrived[e][st] = 0
    BY <1>2, <1>3, <1>4
  <2> QED BY <2>1, <2>2 DEF EndsOK
<1>8. SourcesOK
  <2>1. \A e \in Ends, st \in Streams :
          /\ sent[e][st] = 0 /\ written[e][st] = 0 /\ target[e][st] = "none" /\ eof[e][st] = FALSE
          /\ opener[st] = "none" /\ header[st] = "none" /\ e # "none"
    BY <1>2, <1>3, <1>4 DEF Ends
  <2> QED BY <2>1 DEF SourcesOK
<1>9. PacketsOK
  BY <1>4 DEF PacketsOK
<1>10. ClosesOK
  BY <1>4, <1>5 DEF ClosesOK, Distinct, Holds
<1>11. RawOK
  BY <1>4, <1>5, EndFacts DEF RawOK, RawFlow, Increasing
<1>12. SetupOK /\ ServerSetupSafe /\ NetworkOK
  BY <1>4 DEF SetupOK, ServerSetupSafe, NetworkOK, Waiting, Ends
<1> QED BY <1>6, <1>7, <1>8, <1>9, <1>10, <1>11, <1>12 DEF Inv

LEMMA NextInv ==
    ASSUME Inv, [Next]_vars
    PROVE  Inv'
<1>1. CASE UNCHANGED vars
  <2>1. UNCHANGED <<has_tun, has_transport, crashed, raw_in, from_tun_queue, raw_out, opener, target,
                    written, eof, sent, arrived, buffer, header, error, sock, sending, write_due, out,
                    net, special, notify>>
    BY <1>1 DEF vars, setup, raw, sources, sinks, network
  <2>2. TypeOK' /\ SourcesOK' /\ PacketsOK' /\ RawOK' /\ SetupOK' /\ ServerSetupSafe'
    BY <2>1 DEF Inv, TypeOK, SourcesOK, PacketsOK, Recv, RawOK, SetupOK, ServerSetupSafe
  <2>3. EndsOK' /\ ClosesOK' /\ NetworkOK'
    BY <2>1 DEF Inv, EndsOK, ClosesOK, Now, NetworkOK, Waiting, Room, Readable
  <2> QED BY <2>2, <2>3 DEF Inv
<1>2. ASSUME NEW e \in Ends, \/ SetTun(e) \/ SetTransport(e) \/ FromTun(e)
                             \/ NetworkSendReady(e) \/ Arrive(e)
      PROVE  Inv'
  BY <1>2, SetTunInv, SetTransportInv, FromTunInv, NetworkSendReadyInv, ArriveInv
<1>3. ASSUME NEW st \in Streams, Connects(st) \/ ConnectFails(st)
      PROVE  Inv'
  BY <1>3, ConnectsInv, ConnectFailsInv
<1>4. ASSUME NEW e \in Ends, NEW st \in Streams,
             \/ TcpAccepted(e, st) \/ ChunkIn(e, st) \/ OutsideCloses(e, st) \/ TargetError(e, st)
             \/ TcpErr(e, st) \/ WriteReady(e, st) \/ Writable(e, st)
      PROVE  Inv'
  BY <1>4, TcpAcceptedInv, ChunkInInv, OutsideClosesInv, TargetErrorInv, TcpErrInv, WriteReadyInv,
     WritableInv
<1> QED BY <1>1, <1>2, <1>3, <1>4 DEF Next

LEMMA SpecInv == Spec => []Inv
<1>1. Init => Inv
  BY InitInv
<1>2. Inv /\ [Next]_vars => Inv'
  BY NextInv
<1> QED BY <1>1, <1>2, PTL DEF Spec

LEMMA InvOrder ==
    ASSUME Inv, NEW e \in Ends, NEW st \in Streams
    PROVE  /\ Len(out[e][st]) <= written[Other(e)][st]
           /\ out[e][st] = [i \in 1 .. Len(out[e][st]) |-> i]
<1>1. PICK o \in Ends : o = Other(e) /\ o # e
  BY EndFacts
<1>2. PICK c : c = Now(e, st)
  OBVIOUS
<1>3. c.sending = sending[e][st] /\ c.buffer = buffer[e][st] /\ c.header = header[st]
  BY <1>2 DEF Now
<1>4. ItemsOK(opener[st], e, c, out[e][st], arrived[e][st])
  BY <1>2 DEF Inv, EndsOK
<1>5. PICK a \in Nat, s \in Nat, w \in Nat :
          a = arrived[e][st] /\ s = sent[o][st] /\ w = written[o][st]
  <2>1. arrived \in EndsOf(Nat) /\ sent \in EndsOf(Nat) /\ written \in EndsOf(Nat)
    BY DEF Inv, TypeOK
  <2> QED BY <2>1 DEF EndsOf
<1>6. PICK l \in Nat, m \in Nat, b \in Nat :
          l = Len(out[e][st]) /\ m = Len(c.sending) /\ b = Len(c.buffer)
  <2>1. out \in EndsOf(Seq(Item)) /\ sending \in EndsOf(Seq(Item)) /\ buffer \in EndsOf(Seq(Item))
    BY DEF Inv, TypeOK
  <2>2. out[e][st] \in Seq(Item) /\ c.sending \in Seq(Item) /\ c.buffer \in Seq(Item)
    BY <1>3, <2>1 DEF EndsOf
  <2> QED BY <2>2
<1>7. a <= s
  BY <1>1, <1>5 DEF Inv, TypeOK
<1>8. s <= w + (IF o = opener[st] THEN 1 ELSE 0)
  BY <1>5 DEF Inv, SourcesOK
<1>9. a = l + m + b + (IF HeaderTaken(opener[st], e, c) THEN 1 ELSE 0)
  BY <1>4, <1>5, <1>6 DEF ItemsOK
<1>10. l <= w
  <2>1. CASE o # opener[st]
    <3>1. s <= w
      BY <1>8, <2>1
    <3>2. l <= a
      BY <1>9
    <3> QED BY <1>7, <3>1, <3>2
  <2>2. CASE o = opener[st] /\ HeaderTaken(opener[st], e, c)
    <3>1. s <= w + 1 /\ a = l + m + b + 1
      BY <1>8, <1>9, <2>2
    <3> QED BY <1>7, <3>1
  <2>3. CASE o = opener[st] /\ ~HeaderTaken(opener[st], e, c)
    <3>1. header[st] \in {"none", "fresh", "connecting", "done"}
      BY DEF Inv, TypeOK
    <3>2. HeaderWaits(opener[st], e, c)
      BY <1>1, <1>3, <2>3, <3>1 DEF HeaderWaits, HeaderTaken
    <3>3. out[e][st] = << >>
      BY <1>4, <3>2 DEF ItemsOK
    <3>4. l = 0
      BY <1>6, <3>3
    <3> QED BY <3>4
  <2> QED BY <2>1, <2>2, <2>3
<1>11. out[e][st] = [i \in 1 .. Len(out[e][st]) |-> i]
  BY <1>4 DEF ItemsOK
<1> QED BY <1>1, <1>5, <1>6, <1>10, <1>11

\* Whatever the tun devices, lwIP and the network do, the raw queue keeps its
\* limit, RawPacketStream passes packets on in order, once each and none for
\* QUIC from the client, the network is never given more packets than it
\* takes, and no packet that reaches the tun device of the server while it is
\* set up ends its process.
THEOREM TerminatorSafe == Spec => []TunInv
<1>1. Inv => TunInv
  <2> SUFFICES ASSUME Inv
               PROVE  RawInOrder
    BY DEF TunInv, Inv
  <2>1. ASSUME NEW e \in Ends
        PROVE  /\ \A i, j \in DOMAIN raw_out[e] : i < j => raw_out[e][i] < raw_out[e][j]
               /\ e = "server" => \A i \in DOMAIN raw_out[e] : raw_out[e][i] \notin Quic
    <3>1. PICK o \in Ends : o = Other(e) /\ e = Other(o)
      BY EndFacts
    <3>2. RawFlow(o, raw_out[e], net[o], from_tun_queue[o], raw_in[o])
      BY <3>1 DEF Inv, RawOK
    <3>3. e = "server" => o # "server"
      BY <3>1 DEF Other
    <3> QED BY <3>2, <3>3 DEF RawFlow, Increasing, Checked
  <2> QED BY <2>1 DEF RawInOrder
<1> QED BY <1>1, SpecInv, PTL

\* What FreeWriterPacketStream writes to a connection is what the other end
\* has read from its own, in order and without the header that
\* ReadHeaderPacketStream puts first, also if a CLOSE overtakes the data or
\* the connection is made, fails or ends meanwhile.
THEOREM TerminatorStreamInOrder == Spec => []StreamInOrder
<1>1. Inv => StreamInOrder
  BY InvOrder DEF StreamInOrder
<1> QED BY <1>1, SpecInv, PTL

\* A connection is open only while Transport has it as a target: a
\* HeaderPacketStream that was closed while it connected closes the connection
\* it then gets.
THEOREM TerminatorNoOrphan == Spec => []NoOrphan
<1>1. Inv => NoOrphan
  <2>1. ASSUME Inv, NEW e \in Ends, NEW st \in Streams, sock[e][st] = "open"
        PROVE  target[e][st] = "attached"
    <3>1. StagesOK(opener[st], e, Now(e, st), arrived[e][st])
      BY <2>1 DEF Inv, EndsOK
    <3>2. Now(e, st).sock = sock[e][st] /\ Now(e, st).target = target[e][st]
      BY DEF Now
    <3> QED BY <2>1, <3>1, <3>2 DEF StagesOK
  <2> QED BY <2>1 DEF NoOrphan
<1> QED BY <1>1, SpecInv, PTL

\* on_recv_ready is called for the first packet of a queue only, and
\* network_send_ready only after the network was full: still nothing waits at
\* an end while the network has room, and nothing that has arrived waits while
\* its connection could take it.
THEOREM TerminatorNoLostWakeup == Spec => []NoLostWakeup
<1>1. Inv => NoLostWakeup
  <2>1. ASSUME Inv, NEW e \in Ends, crashed[e] = "no"
        PROVE  Waiting(e)
    BY <2>1 DEF Inv, NetworkOK
  <2>2. ASSUME Inv, NEW e \in Ends, NEW st \in Streams, target[e][st] = "attached",
               buffer[e][st] # << >>
        PROVE  sending[e][st] # << >> \/ (e # opener[st] /\ header[st] = "connecting")
    <3>1. WakesOK(opener[st], e, Now(e, st))
      BY <2>2 DEF Inv, EndsOK
    <3>2. /\ Now(e, st).target = target[e][st] /\ Now(e, st).buffer = buffer[e][st]
          /\ Now(e, st).sending = sending[e][st] /\ Now(e, st).header = header[st]
      BY DEF Now
    <3> QED BY <2>2, <3>1, <3>2 DEF WakesOK
  <2> QED BY <2>1, <2>2 DEF NoLostWakeup, Waiting
<1> QED BY <1>1, SpecInv, PTL

=============================================================================
