------------------------------ MODULE Session ------------------------------
(***************************************************************************)
(* How links come to be and come back: the Client (app/client.cpp), the    *)
(* Server with its ProcessHandlers (app/server.cpp), the server_child that *)
(* each client gets (app/server_child.cpp, app/rpc.cpp), and the           *)
(* connections between them (libreactor/tcp.cpp, unix_socket.cpp,          *)
(* ioutil.cpp).                                                            *)
(*                                                                         *)
(* A Client keeps one TLS connection per local address.  It writes its id, *)
(* the server finds or starts the child of that id, connects to it over a  *)
(* Unix socket, writes the child's instance id back, waits for the child's *)
(* "ok" and joins the two streams; what follows on either stream belongs   *)
(* to the Links at its ends.  Nothing is caught above the handlers: an     *)
(* exception ends the process.  Futures of ioutil never fail, so a         *)
(* handshake whose connection breaks waits forever.                        *)
(*                                                                         *)
(* Processes that stop, connections that break and links that time out     *)
(* are the environment.  A child of the server is known by its number,     *)
(* which stands for the random instance id; a client by its incarnation.   *)
(***************************************************************************)
EXTENDS Integers, Sequences, FiniteSets, SequencesExt

CONSTANTS
    Addrs,       \* the local addresses there are
    Static,      \* the addresses that a start of the client is given (--static)
    MaxConns,    \* bound: calls of TCP::connect
    MaxClients,  \* bound: starts of the client process
    MaxServers,  \* bound: starts of the server process
    MaxBreaks    \* bound: connections that break by themselves

ASSUME SessionAssumption ==
    /\ IsFiniteSet(Addrs)
    /\ {MaxConns, MaxClients, MaxServers, MaxBreaks} \subseteq Nat
    /\ Static \in [1 .. MaxClients -> SUBSET Addrs]

VARIABLES
    client_up,      \* the client process runs
    client_id,      \* Client::client_id: which start of the client this is
    instance_id,    \* Client::instance_id, 0 for ""
    running_links,  \* Client::running_links: how often an address is in it
    timers,         \* pending calls of add_bind_address for an address
    server_up,      \* the server process runs
    server_start,   \* which start of the server this is
    spinning,       \* the server is in its SIGCHLD handler, see Processes
    multilinks,     \* Server::multilinks: the child of a client, 0 if none
    children,       \* the children that were started
    conns,          \* the connections that were begun
    breaks          \* connections broken so far

client == <<client_up, client_id, instance_id, running_links, timers>>
server == <<server_up, server_start, spinning, multilinks, children>>
vars == <<client, server, conns, breaks>>

Instances == 1 .. Len(children)

\* What the streams carry: an instance id, the child's answer, and packets of
\* the links.
Message == [type : {"id", "ok", "packet"}, child : Nat]

Id(i) == [type |-> "id", child |-> i]
Ok == [type |-> "ok", child |-> 0]
Packet == [type |-> "packet", child |-> 0]

\* c is where the client is with a connection, s where the server is; the
\* fields after them are what is under way in it.
Connection == [
    addr : Addrs,
    client : 1 .. MaxClients,
    c : {"connecting", "welcome", "reading", "linked", "closed"},
    s : {"none", "backlog", "reading", "waiting", "piped", "gone"},
    up : BOOLEAN,               \* the TCP connection works
    welcome : BOOLEAN,          \* the client's id, on its way to the server
    child : Nat,                \* the child it was handed to, 0 before
    request : BOOLEAN,          \* add-link, on its way to the child
    from_child : Seq(Message),
    to_client : Seq(Message),
    got : BOOLEAN]              \* the client's Link has read a packet

TypeOK ==
    /\ client_up \in BOOLEAN /\ client_id \in 0 .. MaxClients
    /\ instance_id \in 0 .. Len(children)
    /\ running_links \in [Addrs -> Nat] /\ timers \in [Addrs -> Nat]
    /\ server_up \in BOOLEAN /\ server_start \in 0 .. MaxServers
    /\ spinning \in BOOLEAN
    /\ multilinks \in [1 .. MaxClients -> 0 .. Len(children)]
    /\ children \in Seq([client : 1 .. MaxClients, server : 1 .. MaxServers, up : BOOLEAN])
    /\ conns \in Seq(Connection)
    /\ breaks \in 0 .. MaxBreaks

Init ==
    /\ client_up = FALSE /\ client_id = 0 /\ instance_id = 0
    /\ running_links = [a \in Addrs |-> 0] /\ timers = [a \in Addrs |-> 0]
    /\ server_up = FALSE /\ server_start = 0 /\ spinning = FALSE
    /\ multilinks = [id \in 1 .. MaxClients |-> 0]
    /\ children = << >> /\ conns = << >> /\ breaks = 0

-----------------------------------------------------------------------------
(* The client.                                                             *)

\* TCP::connect from address a, which is under way or has failed at once.
NewConn(a, id, failed) == [
    addr |-> a, client |-> id,
    c |-> IF failed THEN "closed" ELSE "connecting", s |-> "none",
    up |-> FALSE, welcome |-> FALSE, child |-> 0, request |-> FALSE,
    from_child |-> << >>, to_client |-> << >>, got |-> FALSE]

\* main and on_init: a new client binds to its static addresses; for those in
\* F this fails at once and link_closed sets the timer.
ClientStart ==
    LET id == client_id + 1
    IN /\ ~client_up /\ client_id < MaxClients
       /\ Len(conns) + Cardinality(Static[id]) <= MaxConns
       /\ client_up' = TRUE /\ client_id' = id
       /\ \E F \in SUBSET Static[id] :
            /\ running_links' = [a \in Addrs |-> IF a \in Static[id] \ F THEN 1 ELSE 0]
            /\ timers' = [a \in Addrs |-> IF a \in F THEN 1 ELSE 0]
            /\ conns' = conns \o SetToSeq({NewConn(a, id, a \in F) : a \in Static[id]})
       /\ UNCHANGED <<instance_id, server, breaks>>

\* The process ends, and with it its connections.
ClientEnds ==
    /\ client_up' = FALSE /\ instance_id' = 0
    /\ running_links' = [a \in Addrs |-> 0] /\ timers' = [a \in Addrs |-> 0]
    /\ conns' = [k \in DOMAIN conns |->
           IF conns[k].client = client_id
           THEN [conns[k] EXCEPT !.c = "closed", !.up = FALSE, !.to_client = << >>]
           ELSE conns[k]]
    /\ UNCHANGED <<client_id, server, breaks>>

\* Faulty LinkClosed: sets no timer.
LinkClosedForGood(k) ==
    LET a == conns[k].addr
    IN /\ running_links' = [running_links EXCEPT ![a] = IF @ > 0 THEN @ - 1 ELSE 0]
       /\ timers' = timers

\* Client::link_closed: takes one entry of the address out of running_links
\* and sets a timer of two seconds.
LinkClosed(k) ==
    LET a == conns[k].addr
    IN /\ running_links' = [running_links EXCEPT ![a] = IF @ > 0 THEN @ - 1 ELSE 0]
       /\ timers' = [timers EXCEPT ![a] = @ + 1]

\* Faulty AddBindAddress: does not look at running_links.
AddAgain(a, pending) ==
    /\ Len(conns) < MaxConns
    /\ conns' = Append(conns, NewConn(a, client_id, FALSE))
    /\ running_links' = [running_links EXCEPT ![a] = @ + 1]
    /\ timers' = [timers EXCEPT ![a] = pending]

\* Client::add_bind_address, with `pending' timers left for the address.
AddBindAddress(a, pending) ==
    \/ /\ running_links[a] > 0
       /\ timers' = [timers EXCEPT ![a] = pending]
       /\ UNCHANGED <<running_links, conns>>
    \/ /\ running_links[a] = 0
       /\ Len(conns) < MaxConns
       /\ \E failed \in BOOLEAN :
            /\ conns' = Append(conns, NewConn(a, client_id, failed))
            /\ running_links' = [running_links EXCEPT ![a] = IF failed THEN 0 ELSE 1]
            /\ timers' = [timers EXCEPT ![a] = IF failed THEN pending + 1 ELSE pending]

\* The timer of link_closed.
TimerFires(a) ==
    /\ client_up /\ timers[a] > 0
    /\ AddBindAddress(a, timers[a] - 1)
    /\ UNCHANGED <<client_up, client_id, instance_id, server, breaks>>

\* Client::reload_nm, on SIGUSR1, for an address that is not running.
ReloadNm(a) ==
    /\ client_up /\ running_links[a] = 0
    /\ AddBindAddress(a, timers[a])
    /\ UNCHANGED <<client_up, client_id, instance_id, server, breaks>>

\* The server's reactor runs.
Serving == server_up /\ ~spinning

Mine(k) == client_up /\ conns[k].client = client_id

\* TCP::connect: the socket is writable and has no error, so the TLS
\* handshake and the writing of the welcome begin.
Connected(k) ==
    /\ Mine(k) /\ conns[k].c = "connecting"
    /\ server_up
    /\ conns' = [conns EXCEPT ![k].c = "welcome", ![k].s = "backlog", ![k].up = TRUE]
    /\ UNCHANGED <<client, server, breaks>>

\* TCP::connect: the socket reports an error.
ConnectFails(k) ==
    /\ Mine(k) /\ conns[k].c = "connecting"
    /\ conns' = [conns EXCEPT ![k].c = "closed"]
    /\ LinkClosed(k)
    /\ UNCHANGED <<client_up, client_id, instance_id, server, breaks>>

\* TCP::listen accepts the connection, and the TLS handshake takes both
\* sides: then ioutil::write is done with the welcome, ioutil::read waits for
\* the instance id, and the server waits for the welcome.
WelcomeWritten(k) ==
    /\ Mine(k) /\ conns[k].c = "welcome" /\ conns[k].up
    /\ Serving /\ conns[k].s = "backlog"
    /\ conns' = [conns EXCEPT ![k].c = "reading", ![k].s = "reading", ![k].welcome = TRUE]
    /\ UNCHANGED <<client, server, breaks>>

\* Faulty SameInstance: instance ids are not compared.
AnyInstance(i) == TRUE

\* The instance that this client has links to, if there is any.
SameInstance(i) == instance_id \in {0, i}

\* The instance id is there: the stream becomes a link.
InstanceRead(k) ==
    /\ Mine(k) /\ conns[k].c = "reading" /\ conns[k].to_client # << >>
    /\ SameInstance(Head(conns[k].to_client).child)
    /\ instance_id' = Head(conns[k].to_client).child
    /\ conns' = [conns EXCEPT ![k].c = "linked", ![k].to_client = Tail(@)]
    /\ UNCHANGED <<client_up, client_id, running_links, timers, server, breaks>>

\* Client::abort_instance: on_init binds the port, or opens the tun device,
\* that this process still holds, and the exception ends it.
AbortInstance(k) ==
    /\ Mine(k) /\ conns[k].c = "reading" /\ conns[k].to_client # << >>
    /\ ~SameInstance(Head(conns[k].to_client).child)
    /\ ClientEnds

\* The Link reads a packet.
LinkReads(k) ==
    /\ Mine(k) /\ conns[k].c = "linked" /\ conns[k].to_client # << >>
    /\ conns' = [conns EXCEPT ![k].to_client = Tail(@), ![k].got = TRUE]
    /\ UNCHANGED <<client, server, breaks>>

\* The Link has timed out: Multilink destroys it, which closes the stream,
\* and calls its on_close.
LinkTimesOut(k) ==
    /\ Mine(k) /\ conns[k].c = "linked"
    /\ conns' = [conns EXCEPT ![k].c = "closed", ![k].up = FALSE, ![k].to_client = << >>]
    /\ LinkClosed(k)
    /\ UNCHANGED <<client_up, client_id, instance_id, server, breaks>>

-----------------------------------------------------------------------------
(* The server and its children.                                            *)

\* The process ends, and with it its connections; what it had written to a
\* client may still be read.
ServerEnds ==
    /\ server_up' = FALSE /\ spinning' = FALSE
    /\ multilinks' = [id \in 1 .. MaxClients |-> 0]
    /\ conns' = [k \in DOMAIN conns |->
           IF conns[k].s = "none" THEN conns[k]
           ELSE [conns[k] EXCEPT !.s = "gone", !.up = FALSE, !.welcome = FALSE,
                                 !.request = FALSE, !.from_child = << >>]]
    /\ UNCHANGED <<client, server_start, children, breaks>>

\* Server::get_or_create finds the child of a client id, 0 if it has none.
Found(id) == multilinks[id]

\* The child that a connection is handed to, and the new table.
GetOrCreate(id) ==
    IF Found(id) # 0
    THEN [child |-> Found(id), table |-> children]
    ELSE [child |-> Len(children) + 1,
          table |-> Append(children, [client |-> id, server |-> server_start, up |-> TRUE])]

\* Faulty HandedOver: the child is not asked.
HandedOverSilently(k, i) ==
    conns' = [conns EXCEPT ![k].welcome = FALSE, ![k].s = "waiting", ![k].child = i,
                           ![k].to_client = Append(@, Id(i))]

\* Faulty HandedOver: the child's answer is not waited for.
HandedOverAtOnce(k, i) ==
    conns' = [conns EXCEPT ![k].welcome = FALSE, ![k].s = "piped", ![k].child = i,
                           ![k].request = TRUE, ![k].to_client = Append(@, Id(i))]

\* ProcessHandler::add_link: asks the child to add the link, writes the
\* instance id to the client and waits for the child's "ok".
HandedOver(k, i) ==
    conns' = [conns EXCEPT ![k].welcome = FALSE, ![k].s = "waiting", ![k].child = i,
                           ![k].request = TRUE, ![k].to_client = Append(@, Id(i))]

\* The server has read a welcome.  A child that does not run any more
\* refuses the connection, since nothing takes it out of multilinks, and the
\* exception ends the server.
ServerWelcome(k) ==
    /\ Serving /\ conns[k].s = "reading" /\ conns[k].welcome
    /\ LET found == GetOrCreate(conns[k].client)
       IN IF found.table[found.child].up
          THEN /\ HandedOver(k, found.child)
               /\ multilinks' = [multilinks EXCEPT ![conns[k].client] = found.child]
               /\ children' = found.table
               /\ UNCHANGED <<client, server_up, server_start, spinning, breaks>>
          ELSE ServerEnds

\* server_child's callback: writes "ok" and adds the link, whose first ping
\* follows.
ChildAddsLink(k) ==
    /\ conns[k].request /\ children[conns[k].child].up
    /\ conns' = [conns EXCEPT ![k].request = FALSE,
                              ![k].from_child = <<Ok, Packet>>]
    /\ UNCHANGED <<client, server, breaks>>

\* The server has read the child's answer: anything but "ok" ends it, and
\* after "ok" the streams are joined.
ServerOk(k) ==
    /\ Serving /\ conns[k].s = "waiting" /\ conns[k].from_child # << >>
    /\ IF Head(conns[k].from_child) = Ok
       THEN /\ conns' = [conns EXCEPT ![k].s = "piped", ![k].from_child = Tail(@)]
            /\ UNCHANGED <<client, server, breaks>>
       ELSE ServerEnds

\* The Piper moves on what the child has sent; a broken connection drops it.
PipeToClient(k) ==
    /\ Serving /\ conns[k].s = "piped" /\ conns[k].from_child # << >>
    /\ conns' = [conns EXCEPT ![k].from_child = Tail(@),
           ![k].to_client = IF conns[k].up THEN Append(@, Head(conns[k].from_child)) ELSE @]
    /\ UNCHANGED <<client, server, breaks>>

-----------------------------------------------------------------------------
(* The environment.                                                        *)

ServerStart ==
    /\ ~server_up /\ server_start < MaxServers
    /\ server_up' = TRUE /\ server_start' = server_start + 1
    /\ UNCHANGED <<client, spinning, multilinks, children, conns, breaks>>

ServerStops == server_up /\ server_start < MaxServers /\ ServerEnds

ClientStops == client_up /\ client_id < MaxClients /\ ClientEnds

\* A child ends.  The handler of SIGCHLD returns only when the server has no
\* child left that runs.
ChildStops(i) ==
    /\ breaks < MaxBreaks /\ breaks' = breaks + 1
    /\ children[i].up
    /\ children' = [children EXCEPT ![i].up = FALSE]
    /\ spinning' = IF server_up /\ children[i].server = server_start
                   THEN \E j \in Instances \ {i} :
                            children[j].up /\ children[j].server = server_start
                   ELSE spinning
    /\ UNCHANGED <<client, server_up, server_start, multilinks, conns>>

\* A connection breaks; what was under way may be lost.
Break(k) ==
    /\ breaks < MaxBreaks /\ breaks' = breaks + 1
    /\ conns[k].up
    /\ \E lost \in BOOLEAN :
         conns' = [conns EXCEPT ![k].up = FALSE,
                                ![k].welcome = @ /\ ~lost,
                                ![k].to_client = IF lost THEN << >> ELSE @]
    /\ UNCHANGED <<client, server>>

-----------------------------------------------------------------------------

Next ==
    \/ ClientStart \/ ClientStops \/ ServerStart \/ ServerStops
    \/ \E a \in Addrs : TimerFires(a) \/ ReloadNm(a)
    \/ \E i \in Instances : ChildStops(i)
    \/ \E k \in DOMAIN conns :
         \/ Connected(k) \/ ConnectFails(k) \/ WelcomeWritten(k)
         \/ InstanceRead(k) \/ AbortInstance(k) \/ LinkReads(k) \/ LinkTimesOut(k)
         \/ ServerWelcome(k) \/ ServerOk(k) \/ PipeToClient(k)
         \/ ChildAddsLink(k) \/ Break(k)

Spec == Init /\ [][Next]_vars

\* What a process does with a connection when its descriptor is ready.
Handles(k) ==
    /\ k \in DOMAIN conns
    /\ \/ Connected(k) \/ WelcomeWritten(k) \/ InstanceRead(k) \/ AbortInstance(k)
       \/ LinkReads(k) \/ ServerWelcome(k) \/ ServerOk(k)
       \/ PipeToClient(k) \/ ChildAddsLink(k)

\* The reactors of the three programs run; the environment need not do
\* anything, except that a connect is answered.
FairSpec ==
    /\ Spec
    /\ \A k \in 1 .. MaxConns :
         WF_vars(Handles(k)) /\ WF_vars(k \in DOMAIN conns /\ ConnectFails(k))

-----------------------------------------------------------------------------
(* Properties.                                                             *)

\* All links of a client process lead to one child, and that child has links
\* from this client only, although servers, children and clients come and go
\* while handshakes are under way: packets of two sessions never mix.
OneInstance ==
    \A k \in DOMAIN conns :
        /\ conns[k].child # 0 => children[conns[k].child].client = conns[k].client
        /\ conns[k].c = "linked" => instance_id = conns[k].child

\* The attempts and links of this client from address a.
Active(a) ==
    {k \in DOMAIN conns : Mine(k) /\ conns[k].addr = a /\ conns[k].c # "closed"}

\* The addresses this client has ever tried.
Tried == {conns[k].addr : k \in {j \in DOMAIN conns : Mine(j)}}

\* running_links says what is really under way, and an address never has two
\* links or attempts, however timers, reloads and closing links interleave.
OneLinkPerAddress ==
    \A a \in Addrs : running_links[a] = Cardinality(Active(a)) /\ running_links[a] <= 1

\* While the client runs, an address that it was given or has ever tried is
\* connected, being connected, or has a timer that will connect it again.  An
\* attempt that broke during the handshake counts as being connected for ever,
\* as it does for running_links.
NoForgottenAddress ==
    client_up => \A a \in Static[client_id] \cup Tried :
                     running_links[a] > 0 \/ timers[a] > 0

\* The bytes of the handover and those of the links are never taken for each
\* other: the instance id is what the client reads first, the child's "ok"
\* what the server reads first, and a link reads packets only.
HandoverInOrder ==
    \A k \in DOMAIN conns :
        LET n == conns[k]
        IN /\ n.to_client # << >> /\ n.c \in {"welcome", "reading"} =>
                Head(n.to_client) = Id(n.child)
           /\ n.from_child # << >> /\ n.s = "waiting" => Head(n.from_child) = Ok
           /\ n.c = "linked" => \A j \in DOMAIN n.to_client : n.to_client[j] = Packet

\* Something has happened to connection k, its server or its child.
Disturbed(k) ==
    \/ conns[k].c = "closed"
    \/ conns[k].c # "connecting" /\ ~(conns[k].up /\ Serving)
    \/ conns[k].child # 0 /\ ~children[conns[k].child].up

\* An attempt that nothing disturbs becomes a link over which the child's
\* packets arrive.
EventuallyLinked ==
    \A k \in 1 .. MaxConns :
        (k \in DOMAIN conns) ~> (k \in DOMAIN conns /\ (conns[k].got \/ Disturbed(k)))

\* Nothing refers to a process that was never started, and the server has the
\* right child for each client.
ProcessesKnown ==
    /\ client_up => client_id > 0
    /\ server_up => server_start > 0
    /\ \A id \in 1 .. MaxClients :
          multilinks[id] # 0 => children[multilinks[id]].client = id
    /\ \A k \in DOMAIN conns :
          /\ conns[k].client <= client_id
          /\ ~Mine(k) => conns[k].c = "closed"
          /\ conns[k].child <= Len(children)

\* From place `first' on, s has packets only.
OnlyPackets(s, first) == \A j \in first .. Len(s) : s[j] = Packet

\* Until the welcome is read, nothing else is on the streams of connection n.
\* Then the child's answer follows its request, packets follow the answer, and
\* at the client the instance id is in front of all packets for as long as the
\* connection works.
HandoverOrder(n) ==
    /\ n.c = "connecting" => n.s = "none"
    /\ n.c = "welcome" => n.s \in {"backlog", "gone"}
    /\ n.s \in {"none", "backlog", "reading"} \/ n.c \in {"connecting", "welcome"} =>
          n.child = 0 /\ n.to_client = << >> /\ n.from_child = << >> /\ ~n.request
    /\ n.s \in {"waiting", "piped"} => n.child # 0
    /\ n.request => n.s = "waiting" /\ n.from_child = << >>
    /\ n.s = "waiting" => n.from_child \in {<< >>, <<Ok, Packet>>}
    /\ n.s = "piped" => OnlyPackets(n.from_child, 1)
    /\ n.s = "gone" => n.from_child = << >> /\ ~n.up
    /\ n.c = "reading" /\ n.child # 0 /\ n.up => n.to_client # << >>
    /\ n.c = "reading" /\ n.to_client # << >> =>
          n.child # 0 /\ Head(n.to_client) = Id(n.child) /\ OnlyPackets(n.to_client, 2)
    /\ n.c = "linked" => n.child # 0 /\ OnlyPackets(n.to_client, 1)

\* With the types and OneLinkPerAddress: where processes and connections are.
SessionInv ==
    /\ TypeOK /\ ProcessesKnown
    /\ \A k \in DOMAIN conns : HandoverOrder(conns[k])
    /\ OneLinkPerAddress

=============================================================================
