------------------------------- MODULE Sockets -------------------------------
(***************************************************************************)
(* The TCP connections between the clients and the server of the networking *)
(* labs, as the programs see them: the kernel's queue of the listening      *)
(* socket, and for each connection what is on its way up to the server and  *)
(* down to the client and who has closed his end.  External: modelled from  *)
(* the calls the programs make and the results they handle.                 *)
(***************************************************************************)
EXTENDS Integers, Sequences

CONSTANTS
    numClients,
    UpSpace, DownSpace, \* how much a connection holds in each direction
    Backlog,            \* kServerBacklog
    Length              \* of each client's message, at most 255 bytes

Clients == 1 .. numClients

ASSUME SocketAssumption ==
    /\ numClients \in Nat
    /\ UpSpace \in Nat \ {0} /\ DownSpace \in Nat \ {0} /\ Backlog \in Nat \ {0}
    /\ Length \in [Clients -> Nat \ {0}]

\* The kernel holds more than a message of kConnectionBufferSize bytes, so a client
\* that sends all of it before it receives is not stuck for ever.
ASSUME SpaceForAMessage ==
    \A i \in Clients : Length[i] <= UpSpace + DownSpace + 1

\* A byte of the message of client i.
Bytes == Clients \X Nat

Message(i) == [p \in 1 .. Length[i] |-> <<i, p>>]

VARIABLES
    link,           \* none, handshake, established, failed
    listening,      \* connections that wait for accept
    up, down,
    clientEnd,      \* open, closed or reset
    serverEnd       \* open or closed

socketVars == <<link, listening, up, down, clientEnd, serverEnd>>

SocketInit ==
    /\ link = [i \in Clients |-> "none"]
    /\ listening = <<>>
    /\ up = [i \in Clients |-> <<>>]
    /\ down = [i \in Clients |-> <<>>]
    /\ clientEnd = [i \in Clients |-> "open"]
    /\ serverEnd = [i \in Clients |-> "open"]

Least(a, b) == IF a < b THEN a ELSE b

First(s, n)   == SubSeq(s, 1, n)
Without(s, n) == SubSeq(s, n + 1, Len(s))

\* The handshake of client i ends; while the queue is full its SYN is sent again.
Establish(i) ==
    /\ link[i] = "handshake" /\ Len(listening) < Backlog
    /\ link' = [link EXCEPT ![i] = "established"]
    /\ listening' = Append(listening, i)
    /\ UNCHANGED <<up, down, clientEnd, serverEnd>>

\* It may end unanswered.
Unanswered(i) ==
    /\ link[i] = "handshake" /\ Len(listening) = Backlog
    /\ link' = [link EXCEPT ![i] = "failed"]
    /\ UNCHANGED <<listening, up, down, clientEnd, serverEnd>>

\* What the server may read or write without being kept waiting.
ServerReadable(i) == up[i] # <<>> \/ clientEnd[i] # "open"
ServerWritable(i) == Len(down[i]) < DownSpace \/ clientEnd[i] # "open"

\* The same for the client; a failed connect makes the socket writable.
ClientReadable(i) == down[i] # <<>> \/ serverEnd[i] = "closed"
ClientWritable(i) ==
    \/ link[i] = "failed"
    \/ link[i] = "established"
       /\ (Len(up[i]) < UpSpace \/ serverEnd[i] = "closed")

\* The clients of S close.  One that leaves something unread resets its connection,
\* and what it has sent is lost.
ClientsClose(S) ==
    /\ clientEnd' = [i \in Clients |->
           IF i \notin S THEN clientEnd[i]
           ELSE IF down[i] = <<>> THEN "closed" ELSE "reset"]
    /\ up' = [i \in Clients |-> IF i \in S /\ down[i] # <<>> THEN <<>> ELSE up[i]]
    /\ down' = [i \in Clients |-> IF i \in S THEN <<>> ELSE down[i]]
    /\ link' = [i \in Clients |->
           IF i \in S /\ link[i] = "handshake" THEN "failed" ELSE link[i]]

=============================================================================
