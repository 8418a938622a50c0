---------------------------- MODULE SessionProofs ----------------------------
(***************************************************************************)
(* Proofs about Session, for any addresses and any number of connections   *)
(* and of starts of the client and of the server.                          *)
(***************************************************************************)
EXTENDS Session, FiniteSetTheorems, SequenceTheorems, TLAPS

\* What is known of every address.
Addresses == OneLinkPerAddress /\ NoForgottenAddress

\* What is known of every connection by itself.
Orderly == \A k \in DOMAIN conns : HandoverOrder(conns[k])

\* The inductive invariant.
Inv == TypeOK /\ ProcessesKnown /\ OneInstance /\ Orderly /\ Addresses

-----------------------------------------------------------------------------
(* Connections.                                                            *)

LEMMA Messages ==
    /\ \A i \in Nat : Id(i) \in Message /\ Id(i).child = i
    /\ Ok \in Message /\ Packet \in Message /\ Ok # Packet
BY DEF Message, Id, Ok, Packet

LEMMA Fields ==
    ASSUME NEW n \in Connection
    PROVE  /\ n.addr \in Addrs /\ n.client \in 1 .. MaxClients /\ n.child \in Nat
           /\ n.from_child \in Seq(Message) /\ n.to_client \in Seq(Message)
           /\ n.up \in BOOLEAN /\ n.welcome \in BOOLEAN /\ n.request \in BOOLEAN /\ n.got \in BOOLEAN
           /\ n.c \in {"connecting", "welcome", "reading", "linked", "closed"}
           /\ n.s \in {"none", "backlog", "reading", "waiting", "piped", "gone"}
BY DEF Connection

LEMMA ConnType ==
    ASSUME TypeOK
    PROVE  /\ Len(conns) \in Nat /\ DOMAIN conns = 1 .. Len(conns)
           /\ \A k \in DOMAIN conns : conns[k] \in Connection
BY DEF TypeOK

LEMMA ServerType ==
    ASSUME TypeOK
    PROVE  /\ Len(children) \in Nat /\ DOMAIN multilinks = 1 .. MaxClients
           /\ \A id \in 1 .. MaxClients : multilinks[id] \in 0 .. Len(children)
<1>1. Len(children) \in Nat
  BY DEF TypeOK
<1>2. multilinks \in [1 .. MaxClients -> 0 .. Len(children)]
  BY DEF TypeOK
<1> QED BY <1>1, <1>2

\* One connection changes.
LEMMA OneChanges ==
    ASSUME TypeOK, NEW k \in DOMAIN conns, NEW m \in Connection,
           conns' = [conns EXCEPT ![k] = m]
    PROVE  /\ conns' \in Seq(Connection) /\ DOMAIN conns' = DOMAIN conns
           /\ conns'[k] = m
           /\ \A j \in DOMAIN conns : j # k => conns'[j] = conns[j]
BY DEF TypeOK

\* The fields of a connection that decide who uses its address stay, and so
\* does what is known of the addresses.
Stays(j) ==
    /\ conns'[j].addr = conns[j].addr /\ conns'[j].client = conns[j].client
    /\ conns'[j].c = "closed" <=> conns[j].c = "closed"

LEMMA AddressesSame ==
    ASSUME Addresses, DOMAIN conns' = DOMAIN conns, \A j \in DOMAIN conns : Stays(j),
           client_up' = client_up, client_id' = client_id,
           running_links' = running_links, timers' = timers
    PROVE  Addresses'
<1>1. \A j \in DOMAIN conns : Mine(j)' <=> Mine(j)
  BY DEF Mine, Stays
<1>2. \A a \in Addrs : Active(a)' = Active(a)
  BY <1>1 DEF Active, Stays
<1>3. Tried' = Tried
  <2>1. {j \in DOMAIN conns : Mine(j)}' = {j \in DOMAIN conns : Mine(j)}
    BY <1>1
  <2> DEFINE M == {j \in DOMAIN conns : Mine(j)}
  <2>2. Tried = {conns[k].addr : k \in M} /\ Tried' = {conns'[k].addr : k \in M}
    BY <2>1 DEF Tried
  <2>3. \A k \in M : conns'[k].addr = conns[k].addr
    BY DEF Stays
  <2> QED BY <2>2, <2>3
<1> QED BY <1>2, <1>3 DEF Addresses, OneLinkPerAddress, NoForgottenAddress

LEMMA PacketsTail ==
    ASSUME NEW s \in Seq(Message), s # << >>, NEW i \in 1 .. 2, OnlyPackets(s, i)
    PROVE  Tail(s) \in Seq(Message) /\ OnlyPackets(Tail(s), 1)
BY DEF OnlyPackets

LEMMA PacketsAppend ==
    ASSUME NEW s \in Seq(Message), NEW i \in 1 .. 2, OnlyPackets(s, i)
    PROVE  Append(s, Packet) \in Seq(Message) /\ OnlyPackets(Append(s, Packet), i)
BY Messages DEF OnlyPackets

-----------------------------------------------------------------------------
(* A step that changes one connection and no address.                      *)

LEMMA OneConnectionSteps ==
    ASSUME Inv, NEW k \in DOMAIN conns, NEW m \in Connection,
           conns' = [conns EXCEPT ![k] = m], HandoverOrder(m),
           m.addr = conns[k].addr, m.client = conns[k].client, m.child = conns[k].child,
           m.c = "closed" <=> conns[k].c = "closed", m.c = "linked" => conns[k].c = "linked",
           UNCHANGED <<client, server>>, breaks' \in 0 .. MaxBreaks
    PROVE  Inv'
<1>0. TypeOK /\ ProcessesKnown /\ OneInstance /\ Orderly /\ Addresses
  BY DEF Inv
<1>1. /\ conns' \in Seq(Connection) /\ DOMAIN conns' = DOMAIN conns
      /\ conns'[k] = m
      /\ \A j \in DOMAIN conns : j # k => conns'[j] = conns[j]
  BY <1>0, OneChanges
<1>2. TypeOK'
  BY <1>0, <1>1 DEF TypeOK, client, server
<1>3. \A j \in DOMAIN conns :
        /\ Stays(j) /\ conns'[j].child = conns[j].child
        /\ conns'[j].c = "linked" => conns[j].c = "linked"
        /\ HandoverOrder(conns'[j])
  BY <1>0, <1>1 DEF Stays, Orderly
<1>4. Addresses'
  <2>1. client_up' = client_up /\ client_id' = client_id
    BY DEF client
  <2>2. running_links' = running_links /\ timers' = timers
    BY DEF client
  <2> QED BY <1>0, <1>1, <1>3, <2>1, <2>2, AddressesSame
<1>5. \A j \in DOMAIN conns : Mine(j)' <=> Mine(j)
  BY <1>3 DEF Mine, Stays, client
<1>6. ProcessesKnown'
  BY <1>0, <1>1, <1>3, <1>5 DEF ProcessesKnown, Stays, client, server
<1>7. OneInstance'
  BY <1>0, <1>1, <1>3 DEF OneInstance, Stays, client, server
<1>8. Orderly'
  BY <1>1, <1>3 DEF Orderly
<1> QED BY <1>2, <1>4, <1>6, <1>7, <1>8 DEF Inv

LEMMA ConnectedStep ==
    ASSUME Inv, NEW k \in DOMAIN conns, Connected(k)
    PROVE  Inv'
<1> DEFINE n == conns[k]
           m == [conns[k] EXCEPT !.c = "welcome", !.s = "backlog", !.up = TRUE]
<1>0. TypeOK /\ n \in Connection /\ HandoverOrder(n) /\ n.c = "connecting"
  BY ConnType DEF Inv, Orderly, Connected
<1>1. conns' = [conns EXCEPT ![k] = m]
  BY DEF Connected
<1>2. m \in Connection
  BY <1>0 DEF Connection
<1>3. HandoverOrder(m)
  BY <1>0 DEF HandoverOrder, Connection
<1>4. m.addr = n.addr /\ m.client = n.client /\ m.child = n.child /\ m.c = "welcome"
  BY <1>0 DEF Connection
<1>5. UNCHANGED <<client, server>> /\ breaks' \in 0 .. MaxBreaks
  BY <1>0 DEF Connected, TypeOK
<1> HIDE DEF m
<1> QED BY <1>0, <1>1, <1>2, <1>3, <1>4, <1>5, OneConnectionSteps

LEMMA WelcomeWrittenStep ==
    ASSUME Inv, NEW k \in DOMAIN conns, WelcomeWritten(k)
    PROVE  Inv'
<1> DEFINE n == conns[k]
           m == [conns[k] EXCEPT !.c = "reading", !.s = "reading", !.welcome = TRUE]
<1>0. TypeOK /\ n \in Connection /\ HandoverOrder(n) /\ n.c = "welcome" /\ n.s = "backlog"
  BY ConnType DEF Inv, Orderly, WelcomeWritten
<1>1. conns' = [conns EXCEPT ![k] = m]
  BY DEF WelcomeWritten
<1>2. m \in Connection
  BY <1>0 DEF Connection
<1>3. HandoverOrder(m)
  BY <1>0 DEF HandoverOrder, Connection
<1>4. m.addr = n.addr /\ m.client = n.client /\ m.child = n.child /\ m.c = "reading"
  BY <1>0 DEF Connection
<1>5. UNCHANGED <<client, server>> /\ breaks' \in 0 .. MaxBreaks
  BY <1>0 DEF WelcomeWritten, TypeOK
<1> HIDE DEF m
<1> QED BY <1>0, <1>1, <1>2, <1>3, <1>4, <1>5, OneConnectionSteps

LEMMA LinkReadsStep ==
    ASSUME Inv, NEW k \in DOMAIN conns, LinkReads(k)
    PROVE  Inv'
<1> DEFINE n == conns[k]
           m == [conns[k] EXCEPT !.to_client = Tail(@), !.got = TRUE]
<1>0. TypeOK /\ n \in Connection /\ HandoverOrder(n) /\ n.c = "linked" /\ n.to_client # << >>
  BY ConnType DEF Inv, Orderly, LinkReads
<1>1. conns' = [conns EXCEPT ![k] = m]
  BY DEF LinkReads
<1>a. n.to_client \in Seq(Message) /\ OnlyPackets(n.to_client, 1)
  BY <1>0, Fields DEF HandoverOrder
<1>b. Tail(n.to_client) \in Seq(Message) /\ OnlyPackets(Tail(n.to_client), 1)
  BY <1>0, <1>a, PacketsTail
<1>2. m \in Connection
  BY <1>0, <1>b DEF Connection
<1>3. HandoverOrder(m)
  BY <1>0, <1>b DEF HandoverOrder, Connection
<1>4. m.addr = n.addr /\ m.client = n.client /\ m.child = n.child /\ m.c = n.c
  BY <1>0 DEF Connection
<1>5. UNCHANGED <<client, server>> /\ breaks' \in 0 .. MaxBreaks
  BY <1>0 DEF LinkReads, TypeOK
<1> HIDE DEF m
<1> QED BY <1>0, <1>1, <1>2, <1>3, <1>4, <1>5, OneConnectionSteps

LEMMA ChildAddsLinkStep ==
    ASSUME Inv, NEW k \in DOMAIN conns, ChildAddsLink(k)
    PROVE  Inv'
<1> DEFINE n == conns[k]
           m == [conns[k] EXCEPT !.request = FALSE, !.from_child = <<Ok, Packet>>]
<1>0. TypeOK /\ n \in Connection /\ HandoverOrder(n) /\ n.request
  BY ConnType DEF Inv, Orderly, ChildAddsLink
<1>1. conns' = [conns EXCEPT ![k] = m]
  BY DEF ChildAddsLink
<1>a. n.s = "waiting" /\ <<Ok, Packet>> \in Seq(Message)
  BY <1>0, Messages DEF HandoverOrder
<1>2. m \in Connection
  BY <1>0, <1>a DEF Connection
<1>3. HandoverOrder(m)
  BY <1>0, <1>a DEF HandoverOrder, Connection
<1>4. m.addr = n.addr /\ m.client = n.client /\ m.child = n.child /\ m.c = n.c
  BY <1>0 DEF Connection
<1>5. UNCHANGED <<client, server>> /\ breaks' \in 0 .. MaxBreaks
  BY <1>0 DEF ChildAddsLink, TypeOK
<1> HIDE DEF m
<1> QED BY <1>0, <1>1, <1>2, <1>3, <1>4, <1>5, OneConnectionSteps

LEMMA ServerOkStep ==
    ASSUME Inv, NEW k \in DOMAIN conns, ServerOk(k)
    PROVE  Inv'
<1> DEFINE n == conns[k]
           m == [conns[k] EXCEPT !.s = "piped", !.from_child = Tail(@)]
<1>0. TypeOK /\ n \in Connection /\ HandoverOrder(n) /\ n.s = "waiting" /\ n.from_child # << >>
  BY ConnType DEF Inv, Orderly, ServerOk
<1>a. n.from_child = <<Ok, Packet>>
  BY <1>0 DEF HandoverOrder
<1>b. Head(n.from_child) = Ok /\ Tail(n.from_child) = <<Packet>>
  BY <1>a
<1>c. <<Packet>> \in Seq(Message) /\ OnlyPackets(<<Packet>>, 1)
  BY Messages DEF OnlyPackets
<1>1. conns' = [conns EXCEPT ![k] = m]
  BY <1>b DEF ServerOk
<1>2. m \in Connection
  BY <1>0, <1>b, <1>c DEF Connection
<1>3. HandoverOrder(m)
  BY <1>0, <1>b, <1>c DEF HandoverOrder, Connection
<1>4. m.addr = n.addr /\ m.client = n.client /\ m.child = n.child /\ m.c = n.c
  BY <1>0 DEF Connection
<1>5. UNCHANGED <<client, server>> /\ breaks' \in 0 .. MaxBreaks
  BY <1>0, <1>b DEF ServerOk, TypeOK
<1> HIDE DEF m
<1> QED BY <1>0, <1>1, <1>2, <1>3, <1>4, <1>5, OneConnectionSteps

LEMMA PipeToClientStep ==
    ASSUME Inv, NEW k \in DOMAIN conns, PipeToClient(k)
    PROVE  Inv'
<1> DEFINE n == conns[k]
           t == IF n.up THEN Append(n.to_client, Head(n.from_child)) ELSE n.to_client
           m == [conns[k] EXCEPT !.from_child = Tail(@), !.to_client = t]
<1>0. TypeOK /\ n \in Connection /\ HandoverOrder(n) /\ n.s = "piped" /\ n.from_child # << >>
  BY ConnType DEF Inv, Orderly, PipeToClient
<1>1. conns' = [conns EXCEPT ![k] = m]
  BY DEF PipeToClient
<1>a. /\ n.from_child \in Seq(Message) /\ n.to_client \in Seq(Message)
      /\ OnlyPackets(n.from_child, 1) /\ n.child # 0
  BY <1>0, Fields DEF HandoverOrder
<1>b. Head(n.from_child) = Packet
  BY <1>0, <1>a DEF OnlyPackets
<1>c. Tail(n.from_child) \in Seq(Message) /\ OnlyPackets(Tail(n.from_child), 1)
  BY <1>0, <1>a, PacketsTail
<1>d. t \in Seq(Message)
  BY <1>a, <1>b, Messages
<1>e. n.c \in {"reading", "linked", "closed"}
  BY <1>0, Fields DEF HandoverOrder
<1>f. n.c = "linked" => OnlyPackets(t, 1)
  BY <1>0, <1>a, <1>b, PacketsAppend DEF HandoverOrder
<1>g. n.c = "reading" /\ t # << >> => Head(t) = Id(n.child) /\ OnlyPackets(t, 2)
  <2> SUFFICES ASSUME n.c = "reading", t # << >>
               PROVE  Head(t) = Id(n.child) /\ OnlyPackets(t, 2)
    OBVIOUS
  <2>1. n.to_client # << >>
    BY <1>0, <1>a DEF HandoverOrder
  <2>2. Head(n.to_client) = Id(n.child) /\ OnlyPackets(n.to_client, 2)
    BY <1>0, <2>1 DEF HandoverOrder
  <2>3. OnlyPackets(t, 2)
    BY <1>a, <1>b, <2>2, PacketsAppend
  <2>4. Head(t) = Head(n.to_client)
    BY <1>a, <1>b, <2>1, Messages
  <2> QED BY <2>2, <2>3, <2>4
<1>h. n.up => t # << >>
  <2>1. Len(Append(n.to_client, Packet)) = Len(n.to_client) + 1
    BY <1>a, Messages
  <2>2. Len(n.to_client) \in Nat /\ Len(<< >>) = 0
    BY <1>a
  <2>3. Append(n.to_client, Packet) # << >>
    BY <2>1, <2>2, SMTT(30)
  <2> QED BY <1>b, <2>3
<1> HIDE DEF t
<1>2. m \in Connection
  BY <1>0, <1>c, <1>d DEF Connection
<1>i. /\ m.c = n.c /\ m.s = "piped" /\ m.child = n.child /\ m.up = n.up
      /\ m.request = n.request /\ m.from_child = Tail(n.from_child) /\ m.to_client = t
      /\ m.addr = n.addr /\ m.client = n.client
  BY <1>0 DEF Connection
<1>3. HandoverOrder(m)
  BY <1>0, <1>a, <1>c, <1>e, <1>f, <1>g, <1>h, <1>i DEF HandoverOrder
<1>5. UNCHANGED <<client, server>> /\ breaks' \in 0 .. MaxBreaks
  BY <1>0 DEF PipeToClient, TypeOK
<1> HIDE DEF m
<1> QED BY <1>0, <1>1, <1>2, <1>3, <1>i, <1>5, OneConnectionSteps

LEMMA BreakStep ==
    ASSUME Inv, NEW k \in DOMAIN conns, Break(k)
    PROVE  Inv'
<1>1. PICK lost \in BOOLEAN :
        conns' = [conns EXCEPT ![k].up = FALSE, ![k].welcome = @ /\ ~lost,
                               ![k].to_client = IF lost THEN << >> ELSE @]
  BY DEF Break
<1> DEFINE n == conns[k]
           t == IF lost THEN << >> ELSE n.to_client
           w == n.welcome /\ ~lost
           m == [conns[k] EXCEPT !.up = FALSE, !.welcome = w, !.to_client = t]
<1>0. TypeOK /\ n \in Connection /\ HandoverOrder(n)
  BY ConnType DEF Inv, Orderly
<1>2. conns' = [conns EXCEPT ![k] = m]
  BY <1>1
<1>a. t \in Seq(Message) /\ w \in BOOLEAN /\ t \in {<< >>, n.to_client}
  BY <1>0, Fields
<1> HIDE DEF t, w
<1>3. m \in Connection
  BY <1>0, <1>a DEF Connection
<1>4. /\ m.c = n.c /\ m.s = n.s /\ m.child = n.child /\ m.up = FALSE
      /\ m.request = n.request /\ m.from_child = n.from_child /\ m.to_client = t
      /\ m.addr = n.addr /\ m.client = n.client
  BY <1>0 DEF Connection
<1>b. OnlyPackets(<< >>, 1)
  BY DEF OnlyPackets
<1>5. HandoverOrder(m)
  BY <1>0, <1>a, <1>b, <1>4 DEF HandoverOrder
<1>6. UNCHANGED <<client, server>> /\ breaks' \in 0 .. MaxBreaks
  BY <1>0, SessionAssumption DEF Break, TypeOK
<1> HIDE DEF m
<1> QED BY <1>0, <1>2, <1>3, <1>4, <1>5, <1>6, OneConnectionSteps

-----------------------------------------------------------------------------
(* The other steps of the handshake, and of the server and its children.   *)

LEMMA InstanceReadStep ==
    ASSUME Inv, NEW k \in DOMAIN conns, InstanceRead(k)
    PROVE  Inv'
<1> DEFINE n == conns[k]
           m == [conns[k] EXCEPT !.c = "linked", !.to_client = Tail(@)]
<1>0. TypeOK /\ ProcessesKnown /\ OneInstance /\ Orderly /\ Addresses
  BY DEF Inv
<1>a. n \in Connection /\ HandoverOrder(n) /\ n.c = "reading" /\ n.to_client # << >>
  BY <1>0, ConnType DEF Orderly, InstanceRead
<1>b. /\ n.child # 0 /\ n.child \in Nat /\ n.to_client \in Seq(Message)
      /\ Head(n.to_client) = Id(n.child) /\ OnlyPackets(n.to_client, 2)
  BY <1>a, Fields DEF HandoverOrder
<1>c. Tail(n.to_client) \in Seq(Message) /\ OnlyPackets(Tail(n.to_client), 1)
  BY <1>a, <1>b, PacketsTail
<1>d. /\ conns' = [conns EXCEPT ![k] = m] /\ instance_id' = n.child /\ instance_id \in {0, n.child}
      /\ client_up' = client_up /\ client_id' = client_id
      /\ running_links' = running_links /\ timers' = timers
      /\ UNCHANGED <<server, breaks>>
  BY <1>b, Messages DEF InstanceRead, SameInstance
<1>e. m \in Connection
  BY <1>a, <1>c DEF Connection
<1>f. /\ m.c = "linked" /\ m.s = n.s /\ m.child = n.child /\ m.up = n.up
      /\ m.request = n.request /\ m.from_child = n.from_child
      /\ m.to_client = Tail(n.to_client)
      /\ m.addr = n.addr /\ m.client = n.client
  BY <1>a DEF Connection
<1>g. HandoverOrder(m)
  BY <1>a, <1>b, <1>c, <1>f DEF HandoverOrder
<1> HIDE DEF m
<1>1. /\ conns' \in Seq(Connection) /\ DOMAIN conns' = DOMAIN conns
      /\ conns'[k] = m
      /\ \A j \in DOMAIN conns : j # k => conns'[j] = conns[j]
  BY <1>0, <1>d, <1>e, OneChanges
<1>2. TypeOK'
  <2>1. n.child \in 0 .. Len(children)
    BY <1>0, <1>b DEF ProcessesKnown, TypeOK
  <2> QED BY <1>0, <1>1, <1>d, <2>1 DEF TypeOK, server
<1>3. \A j \in DOMAIN conns : Stays(j) /\ conns'[j].child = conns[j].child
  BY <1>1, <1>a, <1>f DEF Stays
<1>4. Addresses'
  BY <1>0, <1>1, <1>3, <1>d, AddressesSame
<1>5. \A j \in DOMAIN conns : Mine(j)' <=> Mine(j)
  BY <1>3, <1>d DEF Mine, Stays
<1>6. ProcessesKnown'
  BY <1>0, <1>1, <1>3, <1>5, <1>d DEF ProcessesKnown, Stays, server
<1>7. OneInstance'
  <2>1. \A j \in DOMAIN conns : conns[j].c = "linked" => conns[j].child # 0
    BY <1>0 DEF Orderly, HandoverOrder
  <2>2. \A j \in DOMAIN conns : conns'[j].c = "linked" => conns'[j].child = n.child
    BY <1>0, <1>1, <1>d, <1>f, <2>1 DEF OneInstance
  <2> QED BY <1>0, <1>1, <1>3, <1>d, <2>2 DEF OneInstance, Stays, server
<1>8. Orderly'
  BY <1>0, <1>1, <1>g DEF Orderly
<1> QED BY <1>2, <1>4, <1>6, <1>7, <1>8 DEF Inv

\* What the end of the server leaves of a connection.
Cut(n) ==
    IF n.s = "none" THEN n
    ELSE [n EXCEPT !.s = "gone", !.up = FALSE, !.welcome = FALSE,
                   !.request = FALSE, !.from_child = << >>]

LEMMA CutConnection ==
    ASSUME NEW n \in Connection, HandoverOrder(n)
    PROVE  /\ Cut(n) \in Connection /\ HandoverOrder(Cut(n))
           /\ Cut(n).addr = n.addr /\ Cut(n).client = n.client
           /\ Cut(n).child = n.child /\ Cut(n).c = n.c
<1>1. CASE n.s = "none"
  BY <1>1 DEF Cut
<1>2. CASE n.s # "none"
  <2> DEFINE m == Cut(n)
  <2>1. m = [n EXCEPT !.s = "gone", !.up = FALSE, !.welcome = FALSE,
                      !.request = FALSE, !.from_child = << >>]
    BY <1>2 DEF Cut
  <2> HIDE DEF m
  <2>a. << >> \in Seq(Message)
    OBVIOUS
  <2>2. m \in Connection
    BY <2>1, <2>a DEF Connection
  <2>3. /\ m.addr = n.addr /\ m.client = n.client /\ m.child = n.child /\ m.c = n.c
        /\ m.s = "gone" /\ ~m.up /\ ~m.request /\ m.from_child = << >>
        /\ m.to_client = n.to_client
    BY <2>1 DEF Connection
  <2>4. HandoverOrder(m)
    BY <1>2, <2>3 DEF HandoverOrder
  <2> QED BY <2>2, <2>3, <2>4 DEF m
<1> QED BY <1>1, <1>2

LEMMA ServerEndsStep ==
    ASSUME Inv, ServerEnds
    PROVE  Inv'
<1>0. TypeOK /\ ProcessesKnown /\ OneInstance /\ Orderly /\ Addresses
  BY DEF Inv
<1>a. /\ conns' = [k \in DOMAIN conns |-> Cut(conns[k])]
      /\ server_up' = FALSE /\ spinning' = FALSE /\ multilinks' = [id \in 1 .. MaxClients |-> 0]
      /\ server_start' = server_start /\ children' = children /\ breaks' = breaks
      /\ client_up' = client_up /\ client_id' = client_id /\ instance_id' = instance_id
      /\ running_links' = running_links /\ timers' = timers
  BY DEF ServerEnds, Cut, client
<1>1. \A k \in DOMAIN conns :
        /\ Cut(conns[k]) \in Connection /\ HandoverOrder(Cut(conns[k]))
        /\ Cut(conns[k]).addr = conns[k].addr /\ Cut(conns[k]).client = conns[k].client
        /\ Cut(conns[k]).child = conns[k].child /\ Cut(conns[k]).c = conns[k].c
  BY <1>0, ConnType, CutConnection DEF Orderly
<1>2. /\ conns' \in Seq(Connection) /\ DOMAIN conns' = DOMAIN conns
      /\ \A k \in DOMAIN conns : conns'[k] = Cut(conns[k])
  BY <1>0, <1>1, <1>a, ConnType
<1>3. \A k \in DOMAIN conns :
        /\ Stays(k) /\ conns'[k].child = conns[k].child /\ conns'[k].c = conns[k].c
        /\ HandoverOrder(conns'[k])
  BY <1>1, <1>2 DEF Stays
<1>4. TypeOK'
  <2>1. Len(children) \in Nat
    BY <1>0 DEF TypeOK
  <2>2. multilinks' \in [1 .. MaxClients -> 0 .. Len(children)]
    BY <1>a, <2>1
  <2> QED BY <1>0, <1>2, <1>a, <2>2 DEF TypeOK
<1>5. Addresses'
  BY <1>0, <1>2, <1>3, <1>a, AddressesSame
<1>6. \A k \in DOMAIN conns : Mine(k)' <=> Mine(k)
  BY <1>3, <1>a DEF Mine, Stays
<1>7. ProcessesKnown'
  BY <1>0, <1>2, <1>3, <1>6, <1>a DEF ProcessesKnown, Stays
<1>8. OneInstance'
  BY <1>0, <1>2, <1>3, <1>a DEF OneInstance, Stays
<1>9. Orderly'
  BY <1>2, <1>3 DEF Orderly
<1> QED BY <1>4, <1>5, <1>7, <1>8, <1>9 DEF Inv

LEMMA ServerWelcomeStep ==
    ASSUME Inv, NEW k \in DOMAIN conns, ServerWelcome(k)
    PROVE  Inv'
<1> DEFINE n == conns[k]
           found == GetOrCreate(n.client)
           i == found.child
           table == found.table
<1>0. TypeOK /\ ProcessesKnown /\ OneInstance /\ Orderly /\ Addresses
  BY DEF Inv
<1>1. CASE ~table[i].up
  BY <1>1, ServerEndsStep DEF ServerWelcome
<1>2. CASE table[i].up
  <2> DEFINE m == [n EXCEPT !.welcome = FALSE, !.s = "waiting", !.child = i,
                            !.request = TRUE, !.to_client = <<Id(i)>>]
  <2>a. n \in Connection /\ HandoverOrder(n) /\ n.s = "reading" /\ server_up
    BY <1>0, ConnType DEF Orderly, ServerWelcome, Serving
  <2>b. /\ n.client \in 1 .. MaxClients /\ n.child = 0 /\ n.to_client = << >>
        /\ n.from_child = << >> /\ n.c \in {"reading", "closed"}
    BY <2>a, Fields DEF HandoverOrder
  <2>c. /\ HandedOver(k, i) /\ multilinks' = [multilinks EXCEPT ![n.client] = i]
        /\ children' = table
        /\ UNCHANGED <<client, server_up, server_start, spinning, breaks>>
    BY <1>2 DEF ServerWelcome
  <2>d. /\ table \in Seq([client : 1 .. MaxClients, server : 1 .. MaxServers, up : BOOLEAN])
        /\ i \in 1 .. Len(table) /\ Len(children) <= Len(table) /\ Len(table) \in Nat
        /\ table[i].client = n.client
        /\ \A j \in 1 .. Len(children) : table[j] = children[j]
    <3> DEFINE c == [client |-> n.client, server |-> server_start, up |-> TRUE]
    <3>a. /\ multilinks[n.client] \in 0 .. Len(children) /\ Len(children) \in Nat
          /\ children \in Seq([client : 1 .. MaxClients, server : 1 .. MaxServers, up : BOOLEAN])
          /\ server_start \in 1 .. MaxServers
      BY <1>0, <2>a, <2>b DEF TypeOK, ProcessesKnown
    <3>1. CASE multilinks[n.client] # 0
      <4>1. i = multilinks[n.client] /\ table = children
        BY <3>1 DEF GetOrCreate, Found
      <4> HIDE DEF i, table, found
      <4> QED BY <1>0, <2>b, <3>a, <3>1, <4>1 DEF ProcessesKnown
    <3>2. CASE multilinks[n.client] = 0
      <4>1. i = Len(children) + 1 /\ table = Append(children, c)
        BY <3>2 DEF GetOrCreate, Found
      <4>2. c \in [client : 1 .. MaxClients, server : 1 .. MaxServers, up : BOOLEAN] /\ c.client = n.client
        BY <2>b, <3>a
      <4> HIDE DEF i, table, found, c
      <4> QED BY <3>a, <4>1, <4>2
    <3> QED BY <3>1, <3>2, <3>a
  <2> HIDE DEF i, table, found
  <2>f. i \in Nat /\ Append(n.to_client, Id(i)) = <<Id(i)>> /\ <<Id(i)>> \in Seq(Message)
    BY <2>b, <2>d, Messages
  <2>e. conns' = [conns EXCEPT ![k] = m]
    BY <2>c, <2>f DEF HandedOver
  <2>g. m \in Connection
    BY <2>a, <2>f DEF Connection
  <2>h. /\ m.addr = n.addr /\ m.client = n.client /\ m.child = i /\ m.c = n.c /\ m.s = "waiting"
        /\ m.up = n.up /\ m.from_child = << >> /\ m.to_client = <<Id(i)>>
    BY <2>a, <2>b, <2>f DEF Connection
  <2>i. Head(<<Id(i)>>) = Id(i) /\ OnlyPackets(<<Id(i)>>, 2) /\ <<Id(i)>> # << >>
    BY DEF OnlyPackets
  <2>j. HandoverOrder(m)
    BY <2>b, <2>d, <2>h, <2>i DEF HandoverOrder
  <2> HIDE DEF m
  <2>1. /\ conns' \in Seq(Connection) /\ DOMAIN conns' = DOMAIN conns
        /\ conns'[k] = m
        /\ \A j \in DOMAIN conns : j # k => conns'[j] = conns[j]
    BY <1>0, <2>e, <2>g, OneChanges
  <2>2. TypeOK'
    <3>1. 0 .. Len(children) \subseteq 0 .. Len(table) /\ i \in 0 .. Len(table)
      BY <1>0, <2>d, ServerType
    <3>2. multilinks' \in [1 .. MaxClients -> 0 .. Len(table)]
      <4>1. multilinks \in [1 .. MaxClients -> 0 .. Len(table)]
        BY <1>0, <3>1 DEF TypeOK
      <4> QED BY <2>c, <3>1, <4>1
    <3> QED BY <1>0, <2>1, <2>c, <2>d, <3>1, <3>2 DEF TypeOK, client
  <2>3. \A j \in DOMAIN conns : Stays(j)
    BY <2>1, <2>h DEF Stays
  <2>4. Addresses'
    <3>1. client_up' = client_up /\ client_id' = client_id
      BY <2>c DEF client
    <3>2. running_links' = running_links /\ timers' = timers
      BY <2>c DEF client
    <3> QED BY <1>0, <2>1, <2>3, <3>1, <3>2, AddressesSame
  <2>5. \A j \in DOMAIN conns : Mine(j)' <=> Mine(j)
    BY <2>3, <2>c DEF Mine, Stays, client
  <2>6. \A j \in DOMAIN conns : conns[j].child \in 0 .. Len(children)
    BY <1>0, ConnType, Fields DEF ProcessesKnown, TypeOK
  <2>7. ProcessesKnown'
    <3>1. (client_up => client_id > 0)' /\ (server_up => server_start > 0)'
      BY <1>0, <2>c DEF ProcessesKnown, client
    <3>2. \A id \in 1 .. MaxClients : multilinks'[id] # 0 => table[multilinks'[id]].client = id
      <4>1. \A id \in 1 .. MaxClients :
              multilinks[id] # 0 => multilinks[id] \in 1 .. Len(children)
        BY <1>0, ServerType
      <4>2. multilinks'[n.client] = i /\ \A id \in 1 .. MaxClients :
              id # n.client => multilinks'[id] = multilinks[id]
        BY <1>0, <2>b, <2>c, ServerType
      <4> QED BY <1>0, <2>d, <4>1, <4>2 DEF ProcessesKnown
    <3>3. \A j \in DOMAIN conns : conns'[j].child <= Len(table)
      <4>1. Len(children) \in Nat
        BY <1>0, ServerType
      <4>2. conns'[k].child <= Len(table)
        BY <2>1, <2>d, <2>h
      <4>3. \A j \in DOMAIN conns : conns[j].child <= Len(table)
        BY <2>6, <2>d, <4>1
      <4> QED BY <2>1, <4>2, <4>3
    <3>4. \A j \in DOMAIN conns :
            /\ conns'[j].client <= client_id
            /\ ~Mine(j) => conns'[j].c = "closed"
      BY <1>0, <2>3 DEF ProcessesKnown, Stays
    <3>5. client_id' = client_id
      BY <2>c DEF client
    <3> QED BY <2>1, <2>5, <2>c, <3>1, <3>2, <3>3, <3>4, <3>5 DEF ProcessesKnown
  <2>8. OneInstance'
    <3>1. \A j \in DOMAIN conns : conns'[j].child # 0 => table[conns'[j].child].client = conns'[j].client
      <4>1. \A j \in DOMAIN conns : conns[j].child # 0 => conns[j].child \in 1 .. Len(children)
        BY <1>0, <2>6, ServerType
      <4>2. conns'[k].child = i /\ conns'[k].client = n.client
        BY <2>1, <2>h
      <4>3. table[conns'[k].child].client = conns'[k].client
        BY <2>d, <4>2
      <4>4. \A j \in DOMAIN conns : conns[j].child # 0 => table[conns[j].child].client = conns[j].client
        <5>1. \A j \in DOMAIN conns : conns[j].child # 0 => table[conns[j].child] = children[conns[j].child]
          BY <2>d, <4>1
        <5> QED BY <1>0, <5>1 DEF OneInstance
      <4> QED BY <2>1, <4>3, <4>4
    <3>2. \A j \in DOMAIN conns : conns'[j].c = "linked" => instance_id = conns'[j].child
      BY <1>0, <2>1, <2>b, <2>h DEF OneInstance
    <3>3. instance_id' = instance_id
      BY <2>c DEF client
    <3> QED BY <2>1, <2>c, <3>1, <3>2, <3>3 DEF OneInstance
  <2>9. Orderly'
    BY <1>0, <2>1, <2>j DEF Orderly
  <2> QED BY <2>2, <2>4, <2>7, <2>8, <2>9 DEF Inv
<1> QED BY <1>1, <1>2

\* No connection changes.
LEMMA OnlyProcessesChange ==
    ASSUME Inv, TypeOK', UNCHANGED <<client, multilinks, conns>>,
           server_up' => server_start' > 0, Len(children') = Len(children),
           \A i \in 1 .. Len(children) : children'[i].client = children[i].client
    PROVE  Inv'
<1>0. TypeOK /\ ProcessesKnown /\ OneInstance /\ Orderly /\ Addresses
  BY DEF Inv
<1>1. /\ client_up' = client_up /\ client_id' = client_id /\ instance_id' = instance_id
      /\ running_links' = running_links /\ timers' = timers
      /\ conns' = conns /\ multilinks' = multilinks
  BY DEF client
<1>2. Addresses'
  BY <1>0, <1>1, AddressesSame DEF Stays
<1>3. \A k \in DOMAIN conns : Mine(k)' <=> Mine(k)
  BY <1>1 DEF Mine
<1>4. \A k \in DOMAIN conns : conns[k].child # 0 => conns[k].child \in 1 .. Len(children)
  BY <1>0, ConnType, Fields DEF ProcessesKnown, TypeOK
<1>5. \A id \in 1 .. MaxClients : multilinks[id] # 0 => multilinks[id] \in 1 .. Len(children)
  BY <1>0, ServerType
<1>6. ProcessesKnown'
  BY <1>0, <1>1, <1>3, <1>5 DEF ProcessesKnown
<1>7. OneInstance'
  BY <1>0, <1>1, <1>4 DEF OneInstance
<1>8. Orderly'
  BY <1>0, <1>1 DEF Orderly
<1> QED BY <1>2, <1>6, <1>7, <1>8 DEF Inv

LEMMA ServerStartStep ==
    ASSUME Inv, ServerStart
    PROVE  Inv'
<1>0. TypeOK
  BY DEF Inv
<1>1. TypeOK' /\ server_start' > 0
  BY <1>0, SessionAssumption DEF TypeOK, ServerStart, client
<1>2. UNCHANGED <<client, multilinks, conns>> /\ children' = children
  BY DEF ServerStart
<1> QED BY <1>1, <1>2, OnlyProcessesChange

LEMMA ChildStopsStep ==
    ASSUME Inv, NEW i \in Instances, ChildStops(i)
    PROVE  Inv'
<1> DEFINE Child == [client : 1 .. MaxClients, server : 1 .. MaxServers, up : BOOLEAN]
<1>0. TypeOK /\ ProcessesKnown
  BY DEF Inv
<1>1. children \in Seq(Child) /\ i \in 1 .. Len(children)
  BY <1>0 DEF TypeOK, Instances
<1>2. children' = [children EXCEPT ![i] = [children[i] EXCEPT !.up = FALSE]]
  BY DEF ChildStops
<1>3. /\ [children[i] EXCEPT !.up = FALSE] \in Child
      /\ [children[i] EXCEPT !.up = FALSE].client = children[i].client
  <2>1. children[i] \in Child
    <3> HIDE DEF Child
    <3> QED BY <1>1
  <2> QED BY <2>1
<1>4. /\ children' \in Seq(Child) /\ Len(children') = Len(children)
      /\ \A j \in 1 .. Len(children) : children'[j].client = children[j].client
  <2> DEFINE m == [children[i] EXCEPT !.up = FALSE]
  <2> HIDE DEF m, Child
  <2> QED BY <1>1, <1>2, <1>3 DEF m
<1>5. breaks' \in 0 .. MaxBreaks /\ spinning' \in BOOLEAN
  <2>1. breaks' \in 0 .. MaxBreaks
    BY <1>0, SessionAssumption DEF TypeOK, ChildStops
  <2>2. spinning' \in BOOLEAN
    BY <1>0 DEF TypeOK, ChildStops
  <2> QED BY <2>1, <2>2
<1>6. UNCHANGED <<client, server_up, server_start, multilinks, conns>>
  BY DEF ChildStops
<1>7. TypeOK'
  BY <1>0, <1>4, <1>5, <1>6 DEF TypeOK, client
<1>8. server_up' => server_start' > 0
  BY <1>0, <1>6 DEF ProcessesKnown
<1>9. UNCHANGED <<client, multilinks, conns>>
  BY <1>6
<1> QED BY <1>4, <1>7, <1>8, <1>9, OnlyProcessesChange

-----------------------------------------------------------------------------
(* Addresses.                                                              *)

\* running_links and the connections agree on address a.
Agrees(a) ==
    \/ running_links[a] = 0 /\ Active(a) = {}
    \/ running_links[a] = 1 /\ \E k \in DOMAIN conns : Active(a) = {k}

Remembered(a) == running_links[a] > 0 \/ timers[a] > 0

LEMMA OneActive ==
    ASSUME TypeOK
    PROVE  OneLinkPerAddress <=> \A a \in Addrs : Agrees(a)
<1>1. \A a \in Addrs : running_links[a] \in Nat
  BY DEF TypeOK
<1>2. \A a \in Addrs : IsFiniteSet(Active(a))
  <2>1. IsFiniteSet(1 .. Len(conns))
    BY ConnType, FS_Interval
  <2>2. \A a \in Addrs : Active(a) \in SUBSET (1 .. Len(conns))
    BY ConnType DEF Active
  <2> QED BY <2>1, <2>2, FS_Subset
<1>3. \A a \in Addrs : Cardinality(Active(a)) = 0 <=> Active(a) = {}
  BY <1>2, FS_EmptySet
<1>4. \A a \in Addrs : Cardinality(Active(a)) = 1 <=> \E k \in DOMAIN conns : Active(a) = {k}
  <2>1. \A a \in Addrs : Cardinality(Active(a)) = 1 <=> \E k : Active(a) = {k}
    BY <1>2, FS_Singleton
  <2>2. \A a \in Addrs : \A k : Active(a) = {k} => k \in DOMAIN conns
    BY DEF Active
  <2> QED BY <2>1, <2>2
<1> QED BY <1>1, <1>3, <1>4 DEF OneLinkPerAddress, Agrees

LEMMA OneActiveNext ==
    TypeOK' => (OneLinkPerAddress' <=> (\A a \in Addrs : Agrees(a))')
BY OneActive, PTL

LEMMA NoneForgotten ==
    NoForgottenAddress <=>
        (client_up => /\ \A a \in Static[client_id] : Remembered(a)
                      /\ \A k \in DOMAIN conns : Mine(k) => Remembered(conns[k].addr))
<1>1. \A a : a \in Tried <=> \E k \in DOMAIN conns : Mine(k) /\ a = conns[k].addr
  BY DEF Tried
<1> QED BY <1>1 DEF NoForgottenAddress, Remembered

LEMMA NoneForgottenNext ==
    NoForgottenAddress' <=>
        (client_up => /\ \A a \in Static[client_id] : Remembered(a)
                      /\ \A k \in DOMAIN conns : Mine(k) => Remembered(conns[k].addr))'
BY NoneForgotten, PTL

\* An attempt or a link of this client is closed.
LEMMA LinkClosedStep ==
    ASSUME Inv, NEW k \in DOMAIN conns, NEW m \in Connection,
           conns' = [conns EXCEPT ![k] = m], HandoverOrder(m),
           m.addr = conns[k].addr, m.client = conns[k].client, m.child = conns[k].child,
           m.c = "closed", conns[k].c # "closed", Mine(k), LinkClosed(k),
           UNCHANGED <<client_up, client_id, instance_id, server, breaks>>
    PROVE  Inv'
<1> DEFINE a == conns[k].addr
<1>0. TypeOK /\ ProcessesKnown /\ OneInstance /\ Orderly /\ Addresses
  BY DEF Inv
<1>1. /\ conns' \in Seq(Connection) /\ DOMAIN conns' = DOMAIN conns
      /\ conns'[k] = m
      /\ \A j \in DOMAIN conns : j # k => conns'[j] = conns[j]
  BY <1>0, OneChanges
<1>2. a \in Addrs /\ running_links \in [Addrs -> Nat] /\ timers \in [Addrs -> Nat]
  BY <1>0, ConnType, Fields DEF TypeOK
<1>3. /\ running_links' = [running_links EXCEPT ![a] = IF @ > 0 THEN @ - 1 ELSE 0]
      /\ timers' = [timers EXCEPT ![a] = @ + 1]
  BY DEF LinkClosed
<1>4. /\ running_links' \in [Addrs -> Nat] /\ timers' \in [Addrs -> Nat]
      /\ timers'[a] > 0
      /\ \A b \in Addrs : b # a => running_links'[b] = running_links[b] /\ timers'[b] = timers[b]
  BY <1>2, <1>3
<1>5. TypeOK'
  BY <1>0, <1>1, <1>4 DEF TypeOK, server
<1>6. \A j \in DOMAIN conns :
        /\ conns'[j].addr = conns[j].addr /\ conns'[j].client = conns[j].client
        /\ conns'[j].child = conns[j].child
        /\ conns'[j].c = IF j = k THEN "closed" ELSE conns[j].c
        /\ HandoverOrder(conns'[j])
  BY <1>0, <1>1 DEF Orderly
<1>7. \A j \in DOMAIN conns : Mine(j)' <=> Mine(j)
  BY <1>6 DEF Mine
<1>8. OneLinkPerAddress'
  <2>1. \A b \in Addrs : Agrees(b)
    BY <1>0, OneActive DEF Addresses
  <2>2. k \in Active(a)
    BY DEF Active
  <2>3. Active(a) = {k} /\ running_links[a] = 1
    BY <1>2, <2>1, <2>2 DEF Agrees
  <2>4. \A b \in Addrs : Active(b)' = Active(b) \ {k}
    BY <1>1, <1>6, <1>7 DEF Active
  <2>5. \A b \in Addrs : b # a => k \notin Active(b)
    BY DEF Active
  <2>6. Agrees(a)'
    <3>1. Active(a)' = {}
      BY <1>2, <2>3, <2>4, <1>1, <1>6 DEF Active
    <3>2. running_links'[a] = 0
      BY <1>2, <1>3, <2>3
    <3>3. conns'[k].addr = a
      BY <1>6
    <3> QED BY <3>1, <3>2, <3>3 DEF Agrees
  <2>7. \A b \in Addrs : b # a => Agrees(b)'
    <3> SUFFICES ASSUME NEW b \in Addrs, b # a
                 PROVE  Agrees(b)'
      OBVIOUS
    <3>1. Active(b)' = Active(b)
      BY <2>4, <2>5
    <3>2. running_links'[b] = running_links[b]
      BY <1>4
    <3>3. Agrees(b)
      BY <2>1
    <3> QED BY <1>1, <3>1, <3>2, <3>3 DEF Agrees
  <2>8. (\A b \in Addrs : Agrees(b))'
    <3>1. conns'[k].addr = a
      BY <1>6
    <3> QED BY <2>6, <2>7, <3>1
  <2> QED BY <1>5, <2>8, OneActiveNext
<1>9. NoForgottenAddress'
  <2>1. \A b \in Addrs : Remembered(b) => Remembered(b)'
    BY <1>4 DEF Remembered
  <2>2. client_up => /\ \A b \in Static[client_id] : Remembered(b)
                     /\ \A j \in DOMAIN conns : Mine(j) => Remembered(conns[j].addr)
    BY <1>0, NoneForgotten DEF Addresses
  <2>3. client_up => Static[client_id] \subseteq Addrs
    BY <1>0, SessionAssumption DEF TypeOK, ProcessesKnown
  <2>4. \A j \in DOMAIN conns : conns[j].addr \in Addrs
    BY <1>0, ConnType, Fields
  <2>5. client_up' = client_up /\ client_id' = client_id
    OBVIOUS
  <2>6. client_up' => \A b \in Static[client_id]' : Remembered(b)'
    BY <2>1, <2>2, <2>3, <2>5
  <2>7. client_up' => \A j \in DOMAIN conns' : Mine(j)' => Remembered(conns[j].addr)'
    BY <1>1, <1>6, <1>7, <2>1, <2>2, <2>4, <2>5 DEF Remembered
  <2> QED BY <2>6, <2>7, NoneForgottenNext
<1>10. ProcessesKnown'
  BY <1>0, <1>1, <1>6, <1>7 DEF ProcessesKnown, server
<1>11. OneInstance'
  BY <1>0, <1>1, <1>6 DEF OneInstance, server
<1>12. Orderly'
  BY <1>1, <1>6 DEF Orderly
<1> QED BY <1>5, <1>8, <1>9, <1>10, <1>11, <1>12 DEF Inv, Addresses

LEMMA ConnectFailsStep ==
    ASSUME Inv, NEW k \in DOMAIN conns, ConnectFails(k)
    PROVE  Inv'
<1> DEFINE n == conns[k]
           m == [conns[k] EXCEPT !.c = "closed"]
<1>0. n \in Connection /\ HandoverOrder(n) /\ n.c = "connecting"
  BY ConnType DEF Inv, Orderly, ConnectFails
<1>1. conns' = [conns EXCEPT ![k] = m]
  BY DEF ConnectFails
<1>2. m \in Connection
  BY <1>0 DEF Connection
<1>3. HandoverOrder(m)
  BY <1>0 DEF HandoverOrder, Connection
<1>4. m.addr = n.addr /\ m.client = n.client /\ m.child = n.child /\ m.c = "closed"
  BY <1>0 DEF Connection
<1>5. Mine(k) /\ LinkClosed(k) /\ UNCHANGED <<client_up, client_id, instance_id, server, breaks>>
  BY DEF ConnectFails
<1> HIDE DEF m
<1> QED BY <1>0, <1>1, <1>2, <1>3, <1>4, <1>5, LinkClosedStep

LEMMA LinkTimesOutStep ==
    ASSUME Inv, NEW k \in DOMAIN conns, LinkTimesOut(k)
    PROVE  Inv'
<1> DEFINE n == conns[k]
           m == [conns[k] EXCEPT !.c = "closed", !.up = FALSE, !.to_client = << >>]
<1>0. n \in Connection /\ HandoverOrder(n) /\ n.c = "linked"
  BY ConnType DEF Inv, Orderly, LinkTimesOut
<1>1. conns' = [conns EXCEPT ![k] = m]
  BY DEF LinkTimesOut
<1>a. << >> \in Seq(Message)
  OBVIOUS
<1>2. m \in Connection
  BY <1>0, <1>a DEF Connection
<1>3. HandoverOrder(m)
  BY <1>0 DEF HandoverOrder, Connection
<1>4. m.addr = n.addr /\ m.client = n.client /\ m.child = n.child /\ m.c = "closed"
  BY <1>0 DEF Connection
<1>5. Mine(k) /\ LinkClosed(k) /\ UNCHANGED <<client_up, client_id, instance_id, server, breaks>>
  BY DEF LinkTimesOut
<1> HIDE DEF m
<1> QED BY <1>0, <1>1, <1>2, <1>3, <1>4, <1>5, LinkClosedStep

\* A connection that NewConn makes: c is "closed" or "connecting".
Fresh(a, id, c) == [
    addr |-> a, client |-> id, c |-> c, s |-> "none",
    up |-> FALSE, welcome |-> FALSE, child |-> 0, request |-> FALSE,
    from_child |-> << >>, to_client |-> << >>, got |-> FALSE]

LEMMA NewConnection ==
    ASSUME NEW a \in Addrs, NEW id \in 1 .. MaxClients, NEW c \in {"closed", "connecting"}
    PROVE  /\ Fresh(a, id, c) \in Connection /\ HandoverOrder(Fresh(a, id, c))
           /\ Fresh(a, id, c).addr = a /\ Fresh(a, id, c).client = id
           /\ Fresh(a, id, c).child = 0 /\ Fresh(a, id, c).c = c
<1> DEFINE n == Fresh(a, id, c)
<1>1. << >> \in Seq(Message)
  OBVIOUS
<1>2. n \in Connection
  BY <1>1 DEF Fresh, Connection
<1>3. /\ n.addr = a /\ n.client = id /\ n.child = 0 /\ n.s = "none" /\ n.up = FALSE
      /\ n.request = FALSE /\ n.from_child = << >> /\ n.to_client = << >> /\ n.c = c
  BY DEF Fresh
<1> HIDE DEF n
<1>4. HandoverOrder(n)
  BY <1>3 DEF HandoverOrder
<1> QED BY <1>2, <1>3, <1>4 DEF n

LEMMA AddBindAddressStep ==
    ASSUME Inv, NEW a \in Addrs, NEW pending \in Nat, client_up, AddBindAddress(a, pending),
           UNCHANGED <<client_up, client_id, instance_id, server, breaks>>
    PROVE  Inv'
<1>0. TypeOK /\ ProcessesKnown /\ OneInstance /\ Orderly /\ Addresses
  BY DEF Inv
<1>a. running_links \in [Addrs -> Nat] /\ timers \in [Addrs -> Nat]
  BY <1>0 DEF TypeOK
<1>b. \A b \in Addrs : Agrees(b)
  BY <1>0, OneActive DEF Addresses
<1>c. /\ \A b \in Static[client_id] : Remembered(b)
      /\ \A k \in DOMAIN conns : Mine(k) => Remembered(conns[k].addr)
  BY <1>0, NoneForgotten DEF Addresses
<1>d. client_id \in 1 .. MaxClients /\ Static[client_id] \subseteq Addrs
  <2>1. client_id \in 1 .. MaxClients
    BY <1>0, SessionAssumption DEF TypeOK, ProcessesKnown
  <2> QED BY <2>1, SessionAssumption
<1>e. \A k \in DOMAIN conns : conns[k].addr \in Addrs
  BY <1>0, ConnType, Fields
<1>1. CASE /\ running_links[a] > 0 /\ timers' = [timers EXCEPT ![a] = pending]
           /\ UNCHANGED <<running_links, conns>>
  <2>1. timers' \in [Addrs -> Nat] /\ \A b \in Addrs : b # a => timers'[b] = timers[b]
    BY <1>a, <1>1
  <2>2. TypeOK'
    BY <1>0, <1>1, <2>1 DEF TypeOK, server
  <2>3. \A k \in DOMAIN conns : Mine(k)' <=> Mine(k)
    BY <1>1 DEF Mine
  <2>4. OneLinkPerAddress'
    BY <1>0, <1>1, <2>3 DEF Addresses, OneLinkPerAddress, Active
  <2>5. \A b \in Addrs : Remembered(b) => Remembered(b)'
    BY <1>1, <2>1 DEF Remembered
  <2>6. NoForgottenAddress'
    <3>1. \A b \in Static[client_id]' : Remembered(b)'
      BY <1>c, <1>d, <2>5
    <3>2. \A k \in DOMAIN conns' : Mine(k)' => Remembered(conns[k].addr)'
      BY <1>1, <1>c, <1>e, <2>3, <2>5 DEF Remembered
    <3> QED BY <3>1, <3>2, NoneForgottenNext
  <2>7. ProcessesKnown'
    BY <1>0, <1>1, <2>3 DEF ProcessesKnown, server
  <2>8. OneInstance' /\ Orderly'
    BY <1>0, <1>1 DEF OneInstance, Orderly, server
  <2> QED BY <2>2, <2>4, <2>6, <2>7, <2>8 DEF Inv, Addresses
<1>2. ASSUME running_links[a] = 0, NEW failed \in BOOLEAN,
             conns' = Append(conns, NewConn(a, client_id, failed)),
             running_links' = [running_links EXCEPT ![a] = IF failed THEN 0 ELSE 1],
             timers' = [timers EXCEPT ![a] = IF failed THEN pending + 1 ELSE pending]
      PROVE  Inv'
  <2> DEFINE m == NewConn(a, client_id, failed)
  <2>a. PICK K : K = Len(conns) + 1
    OBVIOUS
  <2>1. /\ m \in Connection /\ HandoverOrder(m)
        /\ m.addr = a /\ m.client = client_id /\ m.child = 0
        /\ m.c = IF failed THEN "closed" ELSE "connecting"
    <3> DEFINE c == IF failed THEN "closed" ELSE "connecting"
    <3>1. m = Fresh(a, client_id, c)
      BY DEF NewConn, Fresh
    <3>2. c \in {"closed", "connecting"}
      OBVIOUS
    <3> HIDE DEF m, c
    <3>3. m.c = c /\ m \in Connection /\ HandoverOrder(m)
          /\ m.addr = a /\ m.client = client_id /\ m.child = 0
      BY <1>d, <3>1, <3>2, NewConnection
    <3> QED BY <3>3 DEF c
  <2>2. conns' = Append(conns, m) /\ conns \in Seq(Connection)
    BY <1>0, <1>2 DEF TypeOK
  <2> HIDE DEF m
  <2>3. /\ conns' \in Seq(Connection) /\ DOMAIN conns' = DOMAIN conns \cup {K}
        /\ K \notin DOMAIN conns
        /\ conns'[K] = m /\ \A k \in DOMAIN conns : conns'[k] = conns[k]
    BY <2>1, <2>2, <2>a
  <2>4. /\ running_links' \in [Addrs -> Nat] /\ timers' \in [Addrs -> Nat]
        /\ \A b \in Addrs : b # a => running_links'[b] = running_links[b] /\ timers'[b] = timers[b]
        /\ running_links'[a] = IF failed THEN 0 ELSE 1
        /\ timers'[a] = IF failed THEN pending + 1 ELSE pending
    BY <1>2, <1>a
  <2>5. TypeOK'
    BY <1>0, <2>3, <2>4 DEF TypeOK, server
  <2>6. (\A k \in DOMAIN conns : Mine(k)' <=> Mine(k)) /\ Mine(K)'
    BY <2>1, <2>3 DEF Mine
  <2>7. OneLinkPerAddress'
    <3>1. \A b \in Addrs : b # a => Active(b)' = Active(b)
      BY <2>1, <2>3, <2>6 DEF Active
    <3>2. Active(a) = {}
      BY <1>2, <1>b DEF Agrees
    <3>3. Active(a)' = IF failed THEN {} ELSE {K}
      BY <2>1, <2>3, <2>6, <3>2 DEF Active
    <3>4. Agrees(a)'
      BY <2>3, <2>4, <3>3 DEF Agrees
    <3>5. ASSUME NEW b \in Addrs, b # a
          PROVE  Agrees(b)'
      <4>1. Active(b)' = Active(b) /\ running_links'[b] = running_links[b] /\ Agrees(b)
        BY <1>b, <2>4, <3>1, <3>5
      <4> QED BY <2>3, <4>1 DEF Agrees
    <3>6. (\A b \in Addrs : Agrees(b))'
      BY <3>4, <3>5
    <3> QED BY <2>5, <3>6, OneActiveNext
  <2>8. NoForgottenAddress'
    <3>1. \A b \in Addrs : Remembered(b) => Remembered(b)'
      BY <2>4 DEF Remembered
    <3>2. Remembered(a)'
      BY <2>4 DEF Remembered
    <3>3. \A b \in Static[client_id]' : Remembered(b)'
      BY <1>c, <1>d, <3>1
    <3>4. \A k \in DOMAIN conns' : Mine(k)' => Remembered(conns[k].addr)'
      BY <1>c, <1>e, <2>1, <2>3, <2>6, <3>1, <3>2 DEF Remembered
    <3> QED BY <3>3, <3>4, NoneForgottenNext
  <2>9. ProcessesKnown'
    <3>1. Len(children) \in Nat /\ 0 <= Len(children) /\ client_id <= client_id
      BY <1>0, <1>d, ServerType
    <3>2. \A k \in DOMAIN conns' :
            /\ conns'[k].client <= client_id
            /\ ~Mine(k)' => conns'[k].c = "closed"
            /\ conns'[k].child <= Len(children)
      BY <1>0, <2>1, <2>3, <2>6, <3>1 DEF ProcessesKnown
    <3> QED BY <1>0, <3>2 DEF ProcessesKnown, server
  <2>10. OneInstance'
    BY <1>0, <2>1, <2>3 DEF OneInstance, server
  <2>11. Orderly'
    BY <1>0, <2>1, <2>3 DEF Orderly
  <2> QED BY <2>5, <2>7, <2>8, <2>9, <2>10, <2>11 DEF Inv, Addresses
<1> QED BY <1>1, <1>2 DEF AddBindAddress

\* What the end of the client leaves of a connection.
Closed(n) == [n EXCEPT !.c = "closed", !.up = FALSE, !.to_client = << >>]

LEMMA ClientEndsStep ==
    ASSUME Inv, client_up, ClientEnds
    PROVE  Inv'
<1>0. TypeOK /\ ProcessesKnown /\ OneInstance /\ Orderly /\ Addresses
  BY DEF Inv
<1>a. /\ conns' = [k \in DOMAIN conns |->
                     IF conns[k].client = client_id THEN Closed(conns[k]) ELSE conns[k]]
      /\ client_up' = FALSE /\ client_id' = client_id /\ instance_id' = 0
      /\ running_links' = [a \in Addrs |-> 0] /\ timers' = [a \in Addrs |-> 0]
      /\ server_up' = server_up /\ server_start' = server_start /\ spinning' = spinning
      /\ multilinks' = multilinks /\ children' = children /\ breaks' = breaks
  BY DEF ClientEnds, Closed, server
<1>1. ASSUME NEW n \in Connection, HandoverOrder(n)
      PROVE  /\ Closed(n) \in Connection /\ HandoverOrder(Closed(n))
             /\ Closed(n).addr = n.addr /\ Closed(n).client = n.client
             /\ Closed(n).child = n.child /\ Closed(n).c = "closed"
  <2> DEFINE m == [n EXCEPT !.c = "closed", !.up = FALSE, !.to_client = << >>]
  <2>a. << >> \in Seq(Message)
    OBVIOUS
  <2>1. m \in Connection
    BY <2>a DEF Connection
  <2>2. /\ m.addr = n.addr /\ m.client = n.client /\ m.child = n.child /\ m.s = n.s
        /\ m.c = "closed" /\ m.up = FALSE /\ m.to_client = << >> /\ m.request = n.request
        /\ m.from_child = n.from_child
    BY DEF Connection
  <2>3. m = Closed(n)
    BY DEF Closed
  <2> HIDE DEF m
  <2>4. HandoverOrder(m)
    BY <1>1, <2>2 DEF HandoverOrder
  <2> QED BY <2>1, <2>2, <2>3, <2>4
<1>2. \A k \in DOMAIN conns : conns[k] \in Connection /\ HandoverOrder(conns[k])
  BY <1>0, ConnType DEF Orderly
<1>3. \A k \in DOMAIN conns : conns[k].client # client_id => conns[k].c = "closed"
  BY <1>0 DEF ProcessesKnown, Mine
<1>4. DOMAIN conns' = DOMAIN conns /\ \A k \in DOMAIN conns :
        /\ conns'[k] \in Connection /\ HandoverOrder(conns'[k])
        /\ conns'[k].client = conns[k].client /\ conns'[k].child = conns[k].child
        /\ conns'[k].c = "closed"
  BY <1>1, <1>2, <1>3, <1>a
<1>5. TypeOK'
  <2>1. conns' \in Seq(Connection)
    BY <1>0, <1>4, <1>a, ConnType
  <2>2. 0 \in 0 .. Len(children) /\ running_links' \in [Addrs -> Nat] /\ timers' \in [Addrs -> Nat]
    BY <1>0, <1>a, ServerType
  <2> QED BY <1>0, <1>a, <2>1, <2>2 DEF TypeOK
<1>6. OneLinkPerAddress'
  <2>1. \A a \in Addrs : Active(a)' = {} /\ running_links'[a] = 0
    BY <1>a DEF Active, Mine
  <2>2. (\A a \in Addrs : Agrees(a))'
    BY <2>1 DEF Agrees
  <2> QED BY <1>5, <2>2, OneActiveNext
<1>7. NoForgottenAddress'
  BY <1>a DEF NoForgottenAddress
<1>8. ProcessesKnown'
  BY <1>0, <1>4, <1>a DEF ProcessesKnown
<1>9. OneInstance'
  BY <1>0, <1>4, <1>a DEF OneInstance
<1>10. Orderly'
  BY <1>4 DEF Orderly
<1> QED BY <1>5, <1>6, <1>7, <1>8, <1>9, <1>10 DEF Inv, Addresses

\* SetToSeq lists every element of a finite set, each in one place.
LEMMA Listed ==
    ASSUME NEW S, IsFiniteSet(S)
    PROVE  /\ Cardinality(S) \in Nat
           /\ SetToSeq(S) \in [1 .. Cardinality(S) -> S]
           /\ \A i, j \in 1 .. Cardinality(S) : SetToSeq(S)[i] = SetToSeq(S)[j] => i = j
           /\ \A x \in S : \E i \in 1 .. Cardinality(S) : SetToSeq(S)[i] = x
<1> DEFINE D == 1 .. Cardinality(S)
           f == SetToSeq(S)
<1>1. Cardinality(S) \in Nat /\ ExistsBijection(D, S)
  BY FS_CardinalityType
<1>2. \E g \in [D -> S] : IsInjective(g)
  BY <1>1 DEF ExistsBijection, Bijection, Injection
<1>3. f \in [D -> S] /\ IsInjective(f)
  BY <1>2 DEF SetToSeq
<1> HIDE DEF f
<1>4. f \in Injection(D, S) /\ \A i, j \in D : f[i] = f[j] => i = j
  BY <1>3 DEF Injection, IsInjective
<1>5. IsFiniteSet(D) /\ Cardinality(D) = Cardinality(S)
  <2>1. 1 \in Int /\ Cardinality(S) \in Int
    BY <1>1
  <2>2. /\ IsFiniteSet(1 .. Cardinality(S))
        /\ Cardinality(1 .. Cardinality(S)) = IF 1 > Cardinality(S) THEN 0 ELSE Cardinality(S) - 1 + 1
    BY <2>1, FS_Interval
  <2> QED BY <1>1, <2>2
<1>6. f \in Surjection(D, S)
  BY <1>4, <1>5, FS_Injection
<1>7. \A x \in S : \E i \in D : f[i] = x
  BY <1>6 DEF Surjection
<1> QED BY <1>1, <1>3, <1>4, <1>7 DEF f

LEMMA ClientStartStep ==
    ASSUME Inv, ClientStart
    PROVE  Inv'
<1>0. TypeOK /\ ProcessesKnown /\ OneInstance /\ Orderly /\ Addresses
  BY DEF Inv
<1> DEFINE id == client_id + 1
           A == Static[id]
<1>2. PICK F \in SUBSET A :
        /\ running_links' = [a \in Addrs |-> IF a \in A \ F THEN 1 ELSE 0]
        /\ timers' = [a \in Addrs |-> IF a \in F THEN 1 ELSE 0]
        /\ conns' = conns \o SetToSeq({NewConn(a, id, a \in F) : a \in A})
  BY Zenon DEF ClientStart
<1>3. /\ ~client_up /\ client_up' = TRUE /\ client_id' = id /\ instance_id' = instance_id
      /\ server_up' = server_up /\ server_start' = server_start /\ spinning' = spinning
      /\ multilinks' = multilinks /\ children' = children /\ breaks' = breaks
  BY DEF ClientStart, server
<1>4. client_id \in 0 .. MaxClients /\ id \in 1 .. MaxClients /\ client_id < id
  BY <1>0, SessionAssumption DEF TypeOK, ClientStart
<1>5. A \subseteq Addrs /\ IsFiniteSet(A)
  <2>1. A \in SUBSET Addrs /\ IsFiniteSet(Addrs)
    BY <1>4, SessionAssumption
  <2> QED BY <2>1, FS_Subset
<1> DEFINE N(a) == NewConn(a, id, a \in F)
           S == {N(a) : a \in A}
           q == SetToSeq(S)
<1>6. \A a \in A :
        /\ N(a) \in Connection /\ HandoverOrder(N(a))
        /\ N(a).addr = a /\ N(a).client = id /\ N(a).child = 0
        /\ N(a).c = IF a \in F THEN "closed" ELSE "connecting"
  <2> SUFFICES ASSUME NEW a \in A
               PROVE  /\ N(a) \in Connection /\ HandoverOrder(N(a))
                      /\ N(a).addr = a /\ N(a).client = id /\ N(a).child = 0
                      /\ N(a).c = IF a \in F THEN "closed" ELSE "connecting"
    OBVIOUS
  <2> DEFINE c == IF a \in F THEN "closed" ELSE "connecting"
  <2>1. N(a) = Fresh(a, id, c)
    BY DEF NewConn, Fresh
  <2>2. a \in Addrs /\ c \in {"closed", "connecting"}
    BY <1>5
  <2> HIDE DEF N, c
  <2>3. N(a).c = c /\ N(a) \in Connection /\ HandoverOrder(N(a))
        /\ N(a).addr = a /\ N(a).client = id /\ N(a).child = 0
    BY <1>4, <2>1, <2>2, NewConnection
  <2> QED BY <2>3 DEF c
<1>7. conns' = conns \o q
  BY <1>2
<1> HIDE DEF N
<1>8. IsFiniteSet(S) /\ S \subseteq Connection
  <2>1. [a \in A |-> N(a)] \in Surjection(A, S)
    BY DEF Surjection
  <2>2. IsFiniteSet(S)
    <3> HIDE DEF S
    <3> QED BY <1>5, <2>1, FS_Surjection
  <2> QED BY <1>6, <2>2
<1>9. PICK c \in Nat :
        /\ q \in [1 .. c -> S]
        /\ \A i, j \in 1 .. c : q[i] = q[j] => i = j
        /\ \A x \in S : \E i \in 1 .. c : q[i] = x
  <2> DEFINE d == Cardinality(S)
  <2> HIDE DEF S
  <2>1. /\ d \in Nat
        /\ q \in [1 .. d -> S]
        /\ \A i, j \in 1 .. d : q[i] = q[j] => i = j
        /\ \A x \in S : \E i \in 1 .. d : q[i] = x
    BY <1>8, Listed, Zenon
  <2> HIDE DEF q, d
  <2> QED BY <2>1
<1> HIDE DEF q
<1>10. PICK L \in Nat : L = Len(conns) /\ DOMAIN conns = 1 .. L
  BY <1>0, ConnType
<1>11. /\ conns' \in Seq(Connection) /\ DOMAIN conns' = 1 .. (L + c)
       /\ \A k \in 1 .. L : conns'[k] = conns[k]
       /\ \A i \in 1 .. c : conns'[L + i] = q[i]
  <2>1. q \in Seq(Connection) /\ Len(q) = c
    BY <1>8, <1>9
  <2>2. conns \in Seq(Connection)
    BY <1>0 DEF TypeOK
  <2>3. /\ conns \o q \in Seq(Connection) /\ Len(conns \o q) = L + c
        /\ \A k \in 1 .. L + c : (conns \o q)[k] = IF k <= L THEN conns[k] ELSE q[k - L]
    BY <1>10, <2>1, <2>2, ConcatProperties
  <2>4. DOMAIN conns' = 1 .. L + c
    BY <1>7, <2>3
  <2>5. \A k \in 1 .. L : k \in 1 .. L + c /\ k <= L
    OBVIOUS
  <2>6. \A i \in 1 .. c : L + i \in 1 .. L + c /\ ~(L + i <= L) /\ (L + i) - L = i
    OBVIOUS
  <2>7. \A k \in 1 .. L : conns'[k] = conns[k]
    BY <1>7, <2>3, <2>5
  <2>8. \A i \in 1 .. c : conns'[L + i] = q[i]
    <3> SUFFICES ASSUME NEW i \in 1 .. c
                 PROVE  conns'[L + i] = q[i]
      OBVIOUS
    <3>1. L + i \in 1 .. L + c /\ ~(L + i <= L) /\ (L + i) - L = i
      BY <2>6
    <3>2. (conns \o q)[L + i] = IF L + i <= L THEN conns[L + i] ELSE q[(L + i) - L]
      BY <2>3, <3>1
    <3> QED BY <1>7, <3>1, <3>2
  <2> QED BY <1>7, <2>3, <2>4, <2>7, <2>8
<1>12. \A k \in 1 .. L + c : k \in 1 .. L \/ \E i \in 1 .. c : k = L + i
  <2> SUFFICES ASSUME NEW k \in 1 .. L + c, k \notin 1 .. L
               PROVE  \E i \in 1 .. c : k = L + i
    OBVIOUS
  <2>1. k - L \in 1 .. c /\ k = L + (k - L)
    OBVIOUS
  <2> QED BY <2>1
<1> HIDE DEF id, A, S
<1>13. \A k \in 1 .. L : /\ ~Mine(k)' /\ conns[k].c = "closed" /\ HandoverOrder(conns[k])
                         /\ conns[k].client <= client_id /\ conns[k].child <= Len(children)
  <2>1. \A k \in 1 .. L : conns[k].client \in 1 .. MaxClients /\ conns[k].client <= client_id
    BY <1>0, <1>10, ConnType, Fields DEF ProcessesKnown
  <2>2. \A k \in 1 .. L : conns[k].client # id
    BY <1>4, <2>1
  <2>3. \A k \in 1 .. L : ~Mine(k)'
    BY <1>3, <1>11, <2>2 DEF Mine
  <2> QED BY <1>0, <1>3, <1>10, <2>1, <2>3 DEF ProcessesKnown, Mine, Orderly
<1>14. \A i \in 1 .. c : \E a \in A : q[i] = N(a)
  BY <1>9 DEF S
<1>15. \A a \in A : \E i \in 1 .. c : q[i] = N(a)
  BY <1>9 DEF S
<1>16. \A i \in 1 .. c : /\ conns'[L + i].client = id /\ conns'[L + i].child = 0
                          /\ conns'[L + i].c # "linked" /\ HandoverOrder(conns'[L + i])
  BY <1>6, <1>11, <1>14
<1>17. \A i \in 1 .. c : Mine(L + i)'
  <2>1. \A i \in 1 .. c : conns'[L + i].client = client_id' /\ client_up'
    BY <1>3, <1>16
  <2> QED BY <2>1, Zenon DEF Mine
<1>18. \A i \in 1 .. c : L + i \in 1 .. L + c
  OBVIOUS
<1>19. TypeOK'
  <2>1. running_links' \in [Addrs -> Nat] /\ timers' \in [Addrs -> Nat]
    BY <1>2
  <2>2. client_id' \in 0 .. MaxClients
    BY <1>3, <1>4
  <2> QED BY <1>0, <1>3, <1>11, <2>1, <2>2 DEF TypeOK
<1>20. OneLinkPerAddress'
  <2>1. ASSUME NEW b \in Addrs, NEW k \in Active(b)'
        PROVE  \E i \in 1 .. c : k = L + i /\ q[i] = N(b) /\ b \in A \ F
    <3>1. k \in 1 .. L + c /\ Mine(k)' /\ conns'[k].addr = b /\ conns'[k].c # "closed"
      BY <1>11, <2>1 DEF Active
    <3>2. PICK i \in 1 .. c : k = L + i
      BY <1>12, <1>13, <3>1
    <3>3. PICK a \in A : q[i] = N(a)
      BY <1>14
    <3> QED BY <1>6, <1>11, <3>1, <3>2, <3>3
  <2>2. ASSUME NEW b \in Addrs, b \in A \ F
        PROVE  Agrees(b)'
    <3>1. PICK i \in 1 .. c : q[i] = N(b)
      BY <1>15, <2>2
    <3>2. L + i \in Active(b)'
      BY <1>6, <1>11, <1>17, <1>18, <2>2, <3>1 DEF Active
    <3>3. \A k \in Active(b)' : k = L + i
      BY <1>9, <2>1, <3>1
    <3>4. Active(b)' = {L + i} /\ L + i \in DOMAIN conns'
      BY <1>11, <1>18, <3>2, <3>3
    <3>5. running_links'[b] = 1
      BY <1>2, <2>2
    <3> QED BY <3>4, <3>5 DEF Agrees
  <2>3. ASSUME NEW b \in Addrs, b \notin A \ F
        PROVE  Agrees(b)'
    <3>1. Active(b)' = {}
      BY <2>1, <2>3
    <3>2. running_links'[b] = 0
      BY <1>2, <2>3
    <3> QED BY <3>1, <3>2 DEF Agrees
  <2>4. (\A b \in Addrs : Agrees(b))'
    BY <2>2, <2>3
  <2> QED BY <1>19, <2>4, OneActiveNext
<1>21. NoForgottenAddress'
  <2>1. \A b \in A : Remembered(b)'
    BY <1>2, <1>5 DEF Remembered
  <2>2. Static[client_id]' = A
    BY <1>3 DEF A
  <2>3. ASSUME NEW k \in DOMAIN conns', Mine(k)'
        PROVE  conns'[k].addr \in A
    <3>1. PICK i \in 1 .. c : k = L + i
      BY <1>11, <1>12, <1>13, <2>3
    <3>2. PICK a \in A : q[i] = N(a)
      BY <1>14
    <3>3. conns'[k] = N(a)
      BY <1>11, <3>1, <3>2
    <3> QED BY <1>6, <3>3
  <2>4. \A k \in DOMAIN conns' : Mine(k)' => Remembered(conns[k].addr)'
    BY <2>1, <2>3 DEF Remembered
  <2> QED BY <2>1, <2>2, <2>4, NoneForgottenNext
<1>22. ProcessesKnown'
  <2>1. Len(children) \in Nat /\ id > 0 /\ id <= id
    BY <1>0, <1>4, ServerType
  <2>2. \A k \in 1 .. L : conns[k].client <= id
    <3>1. \A k \in 1 .. L : conns[k].client \in 1 .. MaxClients
      BY <1>0, <1>10, ConnType, Fields
    <3> QED BY <1>4, <1>13, <3>1
  <2>3. ASSUME NEW k \in DOMAIN conns'
        PROVE  /\ conns'[k].client <= id /\ conns'[k].child <= Len(children)
               /\ ~Mine(k)' => conns'[k].c = "closed"
    <3>1. CASE k \in 1 .. L
      BY <1>11, <1>13, <2>2, <3>1
    <3>2. CASE \E i \in 1 .. c : k = L + i
      <4>1. PICK i \in 1 .. c : k = L + i
        BY <3>2
      <4>2. Mine(k)' /\ conns'[k].client = id /\ conns'[k].child = 0
        BY <1>17, <1>16, <4>1
      <4> QED BY <2>1, <4>2
    <3> QED BY <1>11, <1>12, <3>1, <3>2
  <2> QED BY <1>0, <1>3, <2>1, <2>3 DEF ProcessesKnown
<1>23. OneInstance'
  <2>1. ASSUME NEW k \in DOMAIN conns'
        PROVE  /\ conns'[k].child # 0 => children[conns'[k].child].client = conns'[k].client
               /\ conns'[k].c # "linked"
    <3>1. CASE k \in 1 .. L
      BY <1>0, <1>10, <1>11, <1>13, <3>1 DEF OneInstance
    <3>2. CASE \E i \in 1 .. c : k = L + i
      BY <1>16, <3>2
    <3> QED BY <1>11, <1>12, <3>1, <3>2
  <2> QED BY <1>3, <2>1 DEF OneInstance
<1>24. Orderly'
  BY <1>11, <1>12, <1>13, <1>16 DEF Orderly
<1> QED BY <1>19, <1>20, <1>21, <1>22, <1>23, <1>24 DEF Inv, Addresses

-----------------------------------------------------------------------------
(* The theorems.                                                           *)

LEMMA InitInv == Init => Inv
<1> SUFFICES ASSUME Init
             PROVE  Inv
  OBVIOUS
<1>1. conns = << >> /\ DOMAIN conns = {} /\ children = << >> /\ Len(children) = 0
  BY DEF Init
<1>2. TypeOK
  <2>1. /\ 0 \in 0 .. MaxClients /\ 0 \in 0 .. MaxServers /\ 0 \in 0 .. MaxBreaks
        /\ 0 \in 0 .. Len(children)
    BY <1>1, SessionAssumption
  <2>2. multilinks \in [1 .. MaxClients -> 0 .. Len(children)]
    BY <2>1 DEF Init
  <2>3. running_links \in [Addrs -> Nat] /\ timers \in [Addrs -> Nat]
    BY DEF Init
  <2>4. /\ children \in Seq([client : 1 .. MaxClients, server : 1 .. MaxServers, up : BOOLEAN])
        /\ conns \in Seq(Connection)
    BY <1>1
  <2> QED BY <2>1, <2>2, <2>3, <2>4 DEF Init, TypeOK
<1>3. OneLinkPerAddress
  <2>1. \A a \in Addrs : Agrees(a)
    BY <1>1 DEF Agrees, Active, Init
  <2> QED BY <1>2, <2>1, OneActive
<1>4. NoForgottenAddress
  BY DEF Init, NoForgottenAddress
<1>5. ProcessesKnown
  BY <1>1 DEF Init, ProcessesKnown
<1>6. OneInstance /\ Orderly
  BY <1>1 DEF OneInstance, Orderly
<1> QED BY <1>2, <1>3, <1>4, <1>5, <1>6 DEF Inv, Addresses

LEMMA NextInv == Inv /\ [Next]_vars => Inv'
<1> SUFFICES ASSUME Inv, [Next]_vars
             PROVE  Inv'
  OBVIOUS
<1>0. TypeOK
  BY DEF Inv
<1>1. CASE ClientStart
  BY <1>1, ClientStartStep
<1>2. CASE ClientStops
  BY <1>2, ClientEndsStep DEF ClientStops
<1>3. CASE ServerStart
  BY <1>3, ServerStartStep
<1>4. CASE ServerStops
  BY <1>4, ServerEndsStep DEF ServerStops
<1>5. ASSUME NEW a \in Addrs, TimerFires(a)
      PROVE  Inv'
  <2>1. timers[a] - 1 \in Nat
    BY <1>0, <1>5 DEF TypeOK, TimerFires
  <2>2. /\ client_up /\ AddBindAddress(a, timers[a] - 1)
        /\ UNCHANGED <<client_up, client_id, instance_id, server, breaks>>
    BY <1>5 DEF TimerFires
  <2> QED BY <2>1, <2>2, AddBindAddressStep
<1>6. ASSUME NEW a \in Addrs, ReloadNm(a)
      PROVE  Inv'
  <2>1. timers[a] \in Nat
    BY <1>0, <1>6 DEF TypeOK
  <2>2. /\ client_up /\ AddBindAddress(a, timers[a])
        /\ UNCHANGED <<client_up, client_id, instance_id, server, breaks>>
    BY <1>6 DEF ReloadNm
  <2> QED BY <2>1, <2>2, AddBindAddressStep
<1>7. ASSUME NEW i \in Instances, ChildStops(i)
      PROVE  Inv'
  BY <1>7, ChildStopsStep
<1>8. ASSUME NEW k \in DOMAIN conns,
             \/ Connected(k) \/ ConnectFails(k) \/ WelcomeWritten(k)
             \/ InstanceRead(k) \/ AbortInstance(k) \/ LinkReads(k) \/ LinkTimesOut(k)
             \/ ServerWelcome(k) \/ ServerOk(k) \/ PipeToClient(k)
             \/ ChildAddsLink(k) \/ Break(k)
      PROVE  Inv'
  <2>1. CASE AbortInstance(k)
    BY <2>1, ClientEndsStep DEF AbortInstance, Mine
  <2> QED BY <1>8, <2>1, ConnectedStep, ConnectFailsStep, WelcomeWrittenStep, InstanceReadStep,
             LinkReadsStep, LinkTimesOutStep, ServerWelcomeStep, ServerOkStep,
             PipeToClientStep, ChildAddsLinkStep, BreakStep
<1>9. CASE UNCHANGED vars
  <2>1. /\ UNCHANGED <<client, multilinks, conns>> /\ children' = children
        /\ server_up' = server_up /\ server_start' = server_start
    BY <1>9 DEF vars, server
  <2>2. TypeOK'
    BY <1>0, <1>9 DEF TypeOK, vars, client, server
  <2>3. server_up' => server_start' > 0
    BY <2>1 DEF Inv, ProcessesKnown
  <2> QED BY <2>1, <2>2, <2>3, OnlyProcessesChange
<1> QED BY <1>1, <1>2, <1>3, <1>4, <1>5, <1>6, <1>7, <1>8, <1>9 DEF Next

LEMMA SessionInvariant == Spec => []Inv
BY InitInv, NextInv, PTL DEF Spec

\* However clients, servers and children come and go, running_links counts
\* what is under way, no address has two links, no process is confused with
\* another, and the streams of every connection carry the handover's bytes in
\* their order (app/client.cpp, app/server.cpp, app/server_child.cpp).
THEOREM SessionSafe == Spec => []SessionInv
<1>1. Inv => SessionInv
  BY DEF Inv, SessionInv, Orderly, Addresses
<1> QED BY <1>1, SessionInvariant, PTL

\* Client::instance_id and Server::multilinks keep sessions apart: the links
\* of a client process lead to one child, whose links are this client's.
THEOREM SessionOneInstance == Spec => []OneInstance
<1>1. Inv => OneInstance
  BY DEF Inv
<1> QED BY <1>1, SessionInvariant, PTL

\* While the client runs, an attempt or a link that ends leaves its address
\* with a timer (Client::link_closed, add_bind_address).
THEOREM SessionNoForgottenAddress == Spec => []NoForgottenAddress
<1>1. Inv => NoForgottenAddress
  BY DEF Inv, Addresses
<1> QED BY <1>1, SessionInvariant, PTL

\* The raw reads and writes of the handshake and the packets that follow them
\* on the same streams are never taken for each other.
THEOREM SessionHandover == Spec => []HandoverInOrder
<1>1. Inv => HandoverInOrder
  <2> SUFFICES ASSUME Inv, NEW k \in DOMAIN conns
               PROVE  LET n == conns[k]
                      IN /\ n.to_client # << >> /\ n.c \in {"welcome", "reading"} =>
                              Head(n.to_client) = Id(n.child)
                         /\ n.from_child # << >> /\ n.s = "waiting" => Head(n.from_child) = Ok
                         /\ n.c = "linked" => \A j \in DOMAIN n.to_client : n.to_client[j] = Packet
    BY DEF HandoverInOrder
  <2> DEFINE n == conns[k]
  <2>1. HandoverOrder(n) /\ n.to_client \in Seq(Message)
    BY ConnType, Fields DEF Inv, Orderly
  <2>2. Head(<<Ok, Packet>>) = Ok
    OBVIOUS
  <2> QED BY <2>1, <2>2 DEF HandoverOrder, OnlyPackets
<1> QED BY <1>1, SessionInvariant, PTL

=============================================================================
