----------------------------- MODULE EchoClients -----------------------------
(***************************************************************************)
(* client-multi.cpp: one thread that emulates several clients over          *)
(* non-blocking sockets.  Each sends its message, receives as many bytes,   *)
(* and does so a number of times.                                           *)
(***************************************************************************)
EXTENDS Sockets

CONSTANT Repeats        \* numRepeats

ASSUME RepeatsAssumption == Repeats \in Nat \ {0}

VARIABLES
    cpc,            \* opening, select, events, done, killed
    nextToOpen,     \* i of the loop that connects
    events,         \* sockets select() has found ready, not yet handled
    state,          \* of each client: ConnectionData.state
    buffer,         \* what it has still to send, or has received
    repeatsLeft

clientVars == <<cpc, nextToOpen, events, state, buffer, repeatsLeft>>

ClientInit ==
    /\ cpc = "opening"
    /\ nextToOpen = 1
    /\ events = {}
    /\ state = [i \in Clients |-> "connecting"]
    /\ buffer = [i \in Clients |-> <<>>]
    /\ repeatsLeft = [i \in Clients |-> Repeats - 1]

Alive == {i \in Clients : state[i] # "dead"}

\* clientsAlive > 0, after the loop in which the clients of S finish.
Loop(S) == IF Alive \ S = {} THEN "done" ELSE "select"

\* connect_to_server_nonblock starts a handshake, or fails and the client is dead.
OpenConnection ==
    /\ cpc = "opening" /\ nextToOpen \in Clients
    /\ nextToOpen' = nextToOpen + 1
    /\ \/ /\ link' = [link EXCEPT ![nextToOpen] = "handshake"]
          /\ UNCHANGED state
       \/ /\ state' = [state EXCEPT ![nextToOpen] = "dead"]
          /\ UNCHANGED link
    /\ UNCHANGED <<cpc, events, buffer, repeatsLeft,
                   listening, up, down, clientEnd, serverEnd>>

AllOpened ==
    /\ cpc = "opening" /\ nextToOpen \notin Clients
    /\ cpc' = Loop({})
    /\ UNCHANGED <<nextToOpen, events, state, buffer, repeatsLeft, socketVars>>

\* In wset while it connects and sends, in rset while it receives.
Ready(i) ==
    \/ state[i] \in {"connecting", "sending"} /\ ClientWritable(i)
    \/ state[i] = "receiving" /\ ClientReadable(i)

\* select() with no timeout.
ClientSelect ==
    /\ cpc = "select"
    /\ events' = {i \in Clients : Ready(i)}
    /\ events' # {}
    /\ cpc' = "events"
    /\ UNCHANGED <<nextToOpen, state, buffer, repeatsLeft, socketVars>>

\* The loop over the clients handles the events in their order.
Turn(i) == cpc = "events" /\ i \in events /\ \A j \in events : i <= j

\* After the last one comes the test of the loop.
Handled(i, S) ==
    /\ events' = events \ {i}
    /\ cpc' = IF events = {i} THEN Loop(S) ELSE "events"
    /\ UNCHANGED nextToOpen

\* The handler returned false.
Finish(i) ==
    /\ state' = [state EXCEPT ![i] = "dead"]
    /\ buffer' = [buffer EXCEPT ![i] = <<>>]
    /\ ClientsClose({i})
    /\ Handled(i, {i})
    /\ UNCHANGED <<repeatsLeft, listening, serverEnd>>

\* A mutation of the send: the whole message is taken for sent.
SentAll(i, rest, n) ==
    /\ state' = [state EXCEPT ![i] = "receiving"]
    /\ buffer' = [buffer EXCEPT ![i] = <<>>]

\* After n bytes of the rest are gone.
Sent(i, rest, n) ==
    /\ state' = [state EXCEPT ![i] = IF n = Len(rest) THEN "receiving" ELSE "sending"]
    /\ buffer' = [buffer EXCEPT ![i] = Without(rest, n)]

\* client_process_send: the first time it asks how the connect ended and makes the
\* message; it sends what there is space for.
ClientSend(i) ==
    /\ Turn(i) /\ state[i] \in {"connecting", "sending"}
    /\ LET rest == IF state[i] = "connecting" THEN Message(i) ELSE buffer[i]
           room == UpSpace - Len(up[i])
       IN  IF link[i] = "failed" \/ serverEnd[i] = "closed" \/ room = 0
           THEN Finish(i)
           ELSE /\ \E n \in 1 .. Least(Len(rest), room) :
                       /\ up' = [up EXCEPT ![i] = @ \o First(rest, n)]
                       /\ Sent(i, rest, n)
                /\ Handled(i, {})
                /\ UNCHANGED <<repeatsLeft, link, listening, down, clientEnd, serverEnd>>

\* The message is back: the next round.
NextRound(i) ==
    /\ state' = [state EXCEPT ![i] = "sending"]
    /\ buffer' = [buffer EXCEPT ![i] = Message(i)]
    /\ repeatsLeft' = [repeatsLeft EXCEPT ![i] = @ - 1]

\* Or the last one is over: the client finishes with nothing left to receive.
LastRound(i) ==
    /\ state' = [state EXCEPT ![i] = "dead"]
    /\ buffer' = [buffer EXCEPT ![i] = <<>>]
    /\ UNCHANGED repeatsLeft

\* client_process_recv of n bytes.
ClientReceive(i) ==
    /\ Turn(i) /\ state[i] = "receiving" /\ down[i] # <<>>
    /\ \E n \in 1 .. Least(Len(down[i]), Length[i] - Len(buffer[i])) :
           LET all  == buffer[i] \o First(down[i], n)
               rest == [down EXCEPT ![i] = Without(@, n)]
               last == Len(all) = Length[i] /\ repeatsLeft[i] = 0
           IN  /\ IF Len(all) < Length[i]
                  THEN /\ buffer' = [buffer EXCEPT ![i] = all]
                       /\ UNCHANGED <<state, repeatsLeft>>
                  ELSE IF last THEN LastRound(i) ELSE NextRound(i)
               /\ IF last
                  THEN /\ clientEnd' = [clientEnd EXCEPT ![i] =
                                            IF rest[i] = <<>> THEN "closed" ELSE "reset"]
                       /\ down' = [down EXCEPT ![i] = <<>>]
                       /\ up' = IF rest[i] = <<>> THEN up ELSE [up EXCEPT ![i] = <<>>]
                  ELSE /\ down' = rest
                       /\ UNCHANGED <<up, clientEnd>>
               /\ Handled(i, IF last THEN {i} ELSE {})
    /\ UNCHANGED <<link, listening, serverEnd>>

\* recv() returned 0 or an error.
ClientLost(i) ==
    /\ Turn(i) /\ state[i] = "receiving" /\ down[i] = <<>>
    /\ Finish(i)

\* The program is killed; the kernel closes its sockets.
Killed ==
    /\ cpc \in {"opening", "select", "events"}
    /\ cpc' = "killed"
    /\ ClientsClose({i \in Alive : link[i] # "none"})
    /\ state' = [i \in Clients |-> "dead"]
    /\ buffer' = [i \in Clients |-> <<>>]
    /\ events' = {}
    /\ UNCHANGED <<nextToOpen, repeatsLeft, listening, serverEnd>>

ClientStep ==
    \/ OpenConnection \/ AllOpened \/ ClientSelect
    \/ \E i \in Clients : ClientSend(i) \/ ClientReceive(i) \/ ClientLost(i)

=============================================================================
