----------------------------- MODULE EchoServers -----------------------------
(***************************************************************************)
(* The echo servers of the networking labs with the emulated clients: the   *)
(* iterative one (lab-2) accepts one connection at a time and uses blocking *)
(* calls; the multiplexing one (lab-3) waits in select() for all of them    *)
(* and uses non-blocking calls, for which "not now" is an error.            *)
(***************************************************************************)
EXTENDS EchoClients, SequencesExt

CONSTANTS
    Programs,           \* which of the two servers may run
    Descriptors,        \* the numbers the process may have for connections
    TransferBuffer,     \* kTransferBufferSize
    Nobody

ASSUME ServerAssumption ==
    /\ Programs \subseteq {"iterative", "select"}
    /\ Descriptors \subseteq Nat \ {0}
    /\ TransferBuffer \in Nat \ {0}
    /\ Nobody \notin Clients

listenfd == 0

VARIABLES
    program,
    spc,                \* accept, talk (iterative); select, accept, serve (select)
    connections,        \* the ConnectionData the server holds
    owner,              \* the client at the other end of a descriptor
    readfds, writefds,  \* what select() has left in the sets
    position            \* of the loop over the connections

serverVars == <<program, spc, connections, owner, readfds, writefds, position>>
vars == <<socketVars, clientVars, serverVars>>

ServerInit ==
    /\ program \in Programs
    /\ spc = IF program = "select" THEN "select" ELSE "accept"
    /\ connections = <<>>
    /\ owner = [d \in Descriptors |-> Nobody]
    /\ readfds = {} /\ writefds = {}
    /\ position = 1

Init == SocketInit /\ ClientInit /\ ServerInit

Peer(cd) == owner[cd.sock]

\* The kernel gives the lowest number that is free.
Lowest(d) ==
    /\ owner[d] = Nobody
    /\ \A e \in Descriptors : owner[e] = Nobody => d <= e

\* accept() and the new ConnectionData.
Accept(d) ==
    /\ Lowest(d) /\ listening # <<>>
    /\ owner' = [owner EXCEPT ![d] = Head(listening)]
    /\ listening' = Tail(listening)
    /\ connections' = Append(connections,
           [sock |-> d, state |-> "receiving", buffer |-> <<>>, offset |-> 0])
    /\ UNCHANGED <<link, up, down, clientEnd, serverEnd>>

\* A mutation of the end of a connection: it is not closed.
EraseOnly(k) ==
    /\ connections' = RemoveAt(connections, k)
    /\ UNCHANGED <<socketVars, owner>>

\* close() and erase().
Close(k) ==
    LET i == Peer(connections[k])
    IN  /\ serverEnd' = [serverEnd EXCEPT ![i] = "closed"]
        /\ up' = [up EXCEPT ![i] = <<>>]
        /\ owner' = [owner EXCEPT ![connections[k].sock] = Nobody]
        /\ connections' = RemoveAt(connections, k)
        /\ UNCHANGED <<link, listening, down, clientEnd>>

\* They go to the start of the buffer, and the next thing is to send.
Received(cd, bytes) ==
    [cd EXCEPT !.buffer = bytes \o cd.buffer, !.offset = 0, !.state = "sending"]

\* process_client_recv: the bytes that have come, as many as the buffer takes; false
\* at the end, on an error, and when a non-blocking socket has nothing.
ReceiveSome(k) ==
    LET i == Peer(connections[k])
    IN  /\ up[i] # <<>>
        /\ \E n \in 1 .. Least(Len(up[i]), TransferBuffer) :
               /\ up' = [up EXCEPT ![i] = Without(@, n)]
               /\ connections' = [connections EXCEPT ![k] = Received(@, First(up[i], n))]
        /\ UNCHANGED <<link, listening, down, clientEnd, serverEnd, owner>>

ReceiveFails(k) == up[Peer(connections[k])] = <<>> /\ Close(k)

Unsent(cd) == Without(cd.buffer, cd.offset)

\* A mutation of a send: what was not sent is forgotten.
AfterPartialSend(cd, n) ==
    [cd EXCEPT !.state = "receiving", !.buffer = <<>>, !.offset = 0]

\* Another: the next send starts at the beginning again.
AfterSendAgain(cd, n) ==
    IF n = Len(Unsent(cd))
    THEN [cd EXCEPT !.state = "receiving", !.buffer = <<>>, !.offset = 0]
    ELSE cd

\* Another: the size of the buffer is kept.
AfterSendKept(cd, n) ==
    IF n = Len(Unsent(cd))
    THEN [cd EXCEPT !.state = "receiving", !.offset = 0]
    ELSE [cd EXCEPT !.offset = @ + n]

\* n bytes are sent; when it was all, the next thing is to receive.
AfterSend(cd, n) ==
    IF n = Len(Unsent(cd))
    THEN [cd EXCEPT !.state = "receiving", !.buffer = <<>>, !.offset = 0]
    ELSE [cd EXCEPT !.offset = @ + n]

\* process_client_send: what there is space for.
SendSome(k) ==
    LET cd == connections[k]  i == Peer(cd)
    IN  /\ clientEnd[i] = "open"
        /\ \E n \in 1 .. Least(Len(Unsent(cd)), DownSpace - Len(down[i])) :
               /\ down' = [down EXCEPT ![i] = @ \o First(Unsent(cd), n)]
               /\ connections' = [connections EXCEPT ![k] = AfterSend(cd, n)]
        /\ UNCHANGED <<link, listening, up, clientEnd, serverEnd, owner>>

\* To a client that has closed: it is answered with a reset, at once or later.
SendInVain(k) ==
    LET cd == connections[k]  i == Peer(cd)
    IN  /\ clientEnd[i] = "closed"
        /\ connections' = [connections EXCEPT ![k] = AfterSend(cd, Len(Unsent(cd)))]
        /\ clientEnd' = [clientEnd EXCEPT ![i] = "reset"]
        /\ up' = [up EXCEPT ![i] = <<>>]
        /\ UNCHANGED <<link, listening, down, serverEnd, owner>>

\* A mutation of the failure: it is not handled.
SendFailsUnseen(k) ==
    /\ clientEnd[Peer(connections[k])] = "reset"
    /\ UNCHANGED <<socketVars, connections, owner>>

\* false: the connection is reset, or a non-blocking socket has no space.
SendFails(k) ==
    LET i == Peer(connections[k])
    IN  /\ \/ clientEnd[i] = "reset"
           \/ clientEnd[i] = "open" /\ Len(down[i]) = DownSpace
        /\ Close(k)

----------------------------------------------------------------------------
(* The iterative server: calls that wait *)

IterativeAccept ==
    /\ program = "iterative" /\ spc = "accept"
    /\ \E d \in Descriptors : Accept(d)
    /\ spc' = "talk"
    /\ UNCHANGED <<clientVars, program, readfds, writefds, position>>

IterativeReceive ==
    /\ program = "iterative" /\ spc = "talk"
    /\ connections[1].state = "receiving"
    /\ ServerReadable(Peer(connections[1]))
    /\ \/ ReceiveSome(1) /\ UNCHANGED spc
       \/ ReceiveFails(1) /\ spc' = "accept"
    /\ UNCHANGED <<clientVars, program, readfds, writefds, position>>

IterativeSend ==
    /\ program = "iterative" /\ spc = "talk"
    /\ connections[1].state = "sending"
    /\ ServerWritable(Peer(connections[1]))
    /\ \/ (SendSome(1) \/ SendInVain(1)) /\ UNCHANGED spc
       \/ SendFails(1) /\ spc' = "accept"
    /\ UNCHANGED <<clientVars, program, readfds, writefds, position>>

----------------------------------------------------------------------------
(* The multiplexing server: select() and one pass over the connections *)

\* A mutation of the wait: the sets stay as they were filled.
SelectAtOnce ==
    /\ program = "select" /\ spc = "select"
    /\ LET held == ToSet(connections)
       IN  /\ readfds' = {cd.sock : cd \in {c \in held : c.state = "receiving"}}
                         \cup (IF listening = <<>> THEN {} ELSE {listenfd})
           /\ writefds' = {cd.sock : cd \in {c \in held : c.state = "sending"}}
    /\ spc' = "accept"
    /\ position' = 1
    /\ UNCHANGED <<socketVars, clientVars, program, connections, owner>>

\* select() leaves in the sets what is ready; after its timeout they are empty.
Select ==
    /\ program = "select" /\ spc = "select"
    /\ LET held == ToSet(connections)
       IN  /\ readfds' = {cd.sock : cd \in {c \in held :
                              c.state = "receiving" /\ ServerReadable(Peer(c))}}
                         \cup (IF listening = <<>> THEN {} ELSE {listenfd})
           /\ writefds' = {cd.sock : cd \in {c \in held :
                              c.state = "sending" /\ ServerWritable(Peer(c))}}
    /\ spc' = "accept"
    /\ position' = 1
    /\ UNCHANGED <<socketVars, clientVars, program, connections, owner>>

\* One connection is accepted before the others are served.  If the process has no
\* number left, the loop starts again.
SelectAccept ==
    /\ program = "select" /\ spc = "accept"
    /\ IF listenfd \notin readfds
       THEN spc' = "serve" /\ UNCHANGED <<socketVars, connections, owner>>
       ELSE \/ (\E d \in Descriptors : Accept(d)) /\ spc' = "serve"
            \/ /\ \A d \in Descriptors : owner[d] # Nobody
               /\ spc' = "select"
               /\ UNCHANGED <<socketVars, connections, owner>>
    /\ UNCHANGED <<clientVars, program, readfds, writefds, position>>

Serving(k) ==
    /\ program = "select" /\ spc = "serve"
    /\ k = position /\ k \in DOMAIN connections

\* A mutation of the second test: what was just received is sent back at once.
SendsAtOnce(cd) == cd.state = "sending"

\* The test before a receive, and before a send.
Receives(cd) == cd.sock \in readfds /\ cd.state = "receiving"
Sends(cd)    == cd.sock \in writefds /\ cd.state = "sending"

\* Readable: received.  The test for a send follows.
ServeReceive(k) ==
    /\ Serving(k) /\ Receives(connections[k])
    /\ readfds' = readfds \ {connections[k].sock}
    /\ ReceiveSome(k) \/ ReceiveFails(k)
    /\ UNCHANGED <<clientVars, program, spc, writefds, position>>

\* Writable: sent, and on to the next; an erased one is followed by the next.
ServeSend(k) ==
    /\ Serving(k) /\ ~ Receives(connections[k]) /\ Sends(connections[k])
    /\ \/ (SendSome(k) \/ SendInVain(k)) /\ position' = k + 1
       \/ SendFails(k) /\ UNCHANGED position
    /\ UNCHANGED <<clientVars, program, spc, readfds, writefds>>

ServeNothing(k) ==
    /\ Serving(k) /\ ~ Receives(connections[k]) /\ ~ Sends(connections[k])
    /\ position' = k + 1
    /\ UNCHANGED <<socketVars, clientVars, program, spc, connections, owner, readfds, writefds>>

PassEnds ==
    /\ program = "select" /\ spc = "serve" /\ position > Len(connections)
    /\ spc' = "select"
    /\ readfds' = {} /\ writefds' = {} /\ position' = 1
    /\ UNCHANGED <<socketVars, clientVars, program, connections, owner>>

ServerStep ==
    \/ IterativeAccept \/ IterativeReceive \/ IterativeSend
    \/ Select \/ SelectAccept \/ PassEnds
    \/ \E k \in 1 .. Len(connections) : ServeReceive(k) \/ ServeSend(k) \/ ServeNothing(k)

Network == (\E i \in Clients : Establish(i) \/ Unanswered(i)) /\ UNCHANGED <<clientVars, serverVars>>

Next ==
    \/ (ClientStep \/ Killed) /\ UNCHANGED serverVars
    \/ Network
    \/ ServerStep

\* Both programs run, and a handshake for which the queue has a place ends.
Fairness ==
    /\ WF_vars(ClientStep /\ UNCHANGED serverVars)
    /\ WF_vars(ServerStep)
    /\ \A i \in Clients : WF_vars(Establish(i) /\ UNCHANGED <<clientVars, serverVars>>)

Spec == Init /\ [][Next]_vars /\ Fairness

----------------------------------------------------------------------------
(* Properties *)

ConnectionData ==
    [sock : Descriptors, state : {"receiving", "sending"},
     buffer : Seq(Bytes), offset : Nat]

SocketsTypeOK ==
    /\ link \in [Clients -> {"none", "handshake", "established", "failed"}]
    /\ listening \in Seq(Clients) /\ Len(listening) <= Backlog
    /\ up \in [Clients -> Seq(Bytes)] /\ down \in [Clients -> Seq(Bytes)]
    /\ \A i \in Clients : Len(up[i]) <= UpSpace /\ Len(down[i]) <= DownSpace
    /\ clientEnd \in [Clients -> {"open", "closed", "reset"}]
    /\ serverEnd \in [Clients -> {"open", "closed"}]

ClientsTypeOK ==
    /\ cpc \in {"opening", "select", "events", "done", "killed"}
    /\ nextToOpen \in Nat
    /\ events \subseteq Clients
    /\ state \in [Clients -> {"connecting", "sending", "receiving", "dead"}]
    /\ buffer \in [Clients -> Seq(Bytes)]
    /\ \A i \in Clients : state[i] = "receiving" => Len(buffer[i]) < Length[i]
    /\ repeatsLeft \in [Clients -> 0 .. Repeats - 1]

\* A connection that receives has an empty buffer, one that sends something to send:
\* the buffer never takes more than kTransferBufferSize bytes.
ConnectionsTypeOK ==
    /\ connections \in Seq(ConnectionData)
    /\ \A k \in DOMAIN connections :
           LET cd == connections[k]
           IN  /\ Len(cd.buffer) <= TransferBuffer
               /\ cd.state = "receiving" => cd.buffer = <<>> /\ cd.offset = 0
               /\ cd.state = "sending" => cd.offset < Len(cd.buffer)

ServerTypeOK ==
    /\ program \in Programs
    /\ spc \in IF program = "select" THEN {"select", "accept", "serve"}
                                     ELSE {"accept", "talk"}
    /\ ConnectionsTypeOK
    /\ owner \in [Descriptors -> Clients \cup {Nobody}]
    /\ readfds \subseteq Descriptors \cup {listenfd} /\ writefds \subseteq Descriptors
    /\ position \in Nat \ {0}

\* Types and bounds of every variable; the partly filled buffers of both programs.
TypeOK == SocketsTypeOK /\ ClientsTypeOK /\ ServerTypeOK

\* The connections the server holds are those it has accepted and not closed: no two
\* share a descriptor, no open descriptor is forgotten, and no descriptor that is
\* used again stands for its former client.
DescriptorsHeld ==
    /\ \A j, k \in DOMAIN connections :
           connections[j].sock = connections[k].sock => j = k
    /\ \A d \in Descriptors :
           owner[d] # Nobody <=> \E k \in DOMAIN connections : connections[k].sock = d
    /\ \A d, e \in Descriptors : owner[d] = owner[e] /\ owner[d] # Nobody => d = e
    /\ \A d \in Descriptors : owner[d] \in Clients =>
           /\ serverEnd[owner[d]] = "open" /\ link[owner[d]] = "established"
           /\ owner[d] \notin ToSet(listening)

\* The server cuts off no client that is still there, although it takes a socket that
\* is not ready for a broken one.
NobodyCutOff == \A i \in Clients : serverEnd[i] = "closed" => clientEnd[i] # "open"

\* Neither server nor clients find a socket not ready that select() has said is: what
\* the sets say of a connection not yet served holds when its turn comes.
ReadyWhenServed ==
    /\ \A k \in DOMAIN connections : k >= position =>
           /\ connections[k].sock \in readfds =>
                  connections[k].state = "receiving" /\ ServerReadable(Peer(connections[k]))
           /\ connections[k].sock \in writefds /\ connections[k].state = "sending" =>
                  ServerWritable(Peer(connections[k]))
    /\ cpc = "events" => \A i \in events : Ready(i)

HeldFor(i) == {k \in DOMAIN connections : Peer(connections[k]) = i}

InServer(i) ==
    IF HeldFor(i) = {} THEN <<>> ELSE Unsent(connections[CHOOSE k \in HeldFor(i) : TRUE])

\* What client i has sent and not received, in the order in which it comes back.
OnTheWay(i) ==
    IF state[i] = "dead" THEN <<>> ELSE down[i] \o InServer(i) \o up[i]

Heard(i) == IF state[i] = "receiving" THEN Len(buffer[i]) ELSE 0
Said(i)  == IF state[i] = "receiving" THEN Length[i] ELSE Length[i] - Len(buffer[i])

\* Each client gets back its own message, in order, whatever the sizes of the pieces
\* ("message mismatch!" is never printed): between what it has heard and what it has
\* said, the rest is on its way.
EchoedInOrder ==
    \A i \in Clients :
        /\ state[i] = "receiving" => buffer[i] = First(Message(i), Heard(i))
        /\ state[i] \in {"sending", "receiving"} =>
               OnTheWay(i) = SubSeq(Message(i), Heard(i) + 1, Said(i))

Service == INSTANCE EchoService WITH
    pipe <- [i \in Clients |-> OnTheWay(i)],
    gone <- {i \in Clients : state[i] = "dead"}

\* Both servers, with these clients, are an echo service.
ImplementsService == Service!ServiceSpec

\* The clients end, unless they are killed: partial sends and receives, and waiting
\* for others at the iterative server, stop nobody for ever.
ClientsFinish == <>(cpc \in {"done", "killed"})

\* A connection whose client has gone is closed by the server in the end, whether it
\* still had something to send or not, or was not yet accepted.
ConnectionsForgotten ==
    \A i \in Clients :
        (clientEnd[i] # "open" /\ link[i] = "established") ~> serverEnd[i] = "closed"

=============================================================================
