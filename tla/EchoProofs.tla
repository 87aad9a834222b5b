------------------------------ MODULE EchoProofs ------------------------------
(***************************************************************************)
(* Each client hears its own message: what it has heard, what is on its way *)
(* and what it has still to say is the message, whatever the pieces in which *)
(* it is sent and received.                                                 *)
(***************************************************************************)
EXTENDS EchoServersProofs

Got(i)  == IF state[i] = "receiving" THEN buffer[i] ELSE <<>>
Left(i) == CASE state[i] = "connecting" -> Message(i)
             [] state[i] = "sending" -> buffer[i]
             [] OTHER -> <<>>

Whole(a, b, c, d, e) == (((a \o b) \o c) \o d) \o e

Balanced ==
    \A i \in Clients : state[i] # "dead" =>
        Whole(Got(i), down[i], InServer(i), up[i], Left(i)) = Message(i)

\* A client that has not finished has its socket open.
OpenWhileAlive == \A i \in Clients : state[i] # "dead" => clientEnd[i] = "open"

LEMMA Cut ==
    ASSUME NEW S, NEW s \in Seq(S), NEW n \in 0 .. Len(s)
    PROVE  First(s, n) \o Without(s, n) = s
<1>1. Len(s) \in Nat /\ SubSeq(s, 1, Len(s)) = s BY Lengths, SubSeqFull
<1>2. CASE Len(s) = 0
  <2>1. n = 0 /\ s = <<>> BY <1>1, <1>2, Lengths
  <2>2. First(s, n) = <<>> /\ Without(s, n) = <<>>
    <3>1. /\ Len(First(s, n)) = n /\ Len(Without(s, n)) = Len(s) - n
          /\ First(s, n) \in Seq(S) /\ Without(s, n) \in Seq(S)
      BY Pieces
    <3>2. Len(First(s, n)) = 0 /\ Len(Without(s, n)) = 0 BY <1>2, <2>1, <3>1
    <3> QED BY <3>1, <3>2, Lengths
  <2> QED BY <2>1, <2>2, ConcatEmptySeq, EmptySeq
<1>3. CASE Len(s) # 0
  <2>1. 1 \in 1 .. Len(s) + 1 /\ n \in 1 - 1 .. Len(s) /\ Len(s) \in n .. Len(s)
    BY <1>1, <1>3
  <2>2. SubSeq(s, 1, n) \o SubSeq(s, n + 1, Len(s)) = SubSeq(s, 1, Len(s))
    BY <2>1, ConcatAdjacentSubSeq
  <2> QED BY <1>1, <2>2 DEF First, Without
<1> QED BY <1>2, <1>3

LEMMA Regrouped ==
    ASSUME NEW S
    PROVE  \A u, v, w \in Seq(S) : (u \o v) \o w = u \o (v \o w)
BY ConcatAssociative

\* A piece moves from one part to the part before it.
LEMMA Moves ==
    ASSUME NEW S, NEW x \in Seq(S), NEW s \in Seq(S), NEW n \in 0 .. Len(s)
    PROVE  (x \o First(s, n)) \o Without(s, n) = x \o s
<1>1. First(s, n) \in Seq(S) /\ Without(s, n) \in Seq(S) BY Pieces
<1>2. First(s, n) \o Without(s, n) = s BY Cut
<1>3. (x \o First(s, n)) \o Without(s, n) = x \o (First(s, n) \o Without(s, n))
  BY <1>1, Regrouped, SMTT(30)
<1> QED BY <1>2, <1>3

LEMMA WholeType ==
    ASSUME NEW S, NEW a \in Seq(S), NEW b \in Seq(S), NEW c \in Seq(S), NEW d \in Seq(S),
           NEW e \in Seq(S)
    PROVE  /\ Whole(a, b, c, d, e) \in Seq(S)
           /\ Len(Whole(a, b, c, d, e)) = Len(a) + Len(b) + Len(c) + Len(d) + Len(e)
<1>1. a \o b \in Seq(S) /\ Len(a \o b) = Len(a) + Len(b) BY Joined
<1>2. (a \o b) \o c \in Seq(S) /\ Len((a \o b) \o c) = Len(a) + Len(b) + Len(c)
  BY <1>1, Joined
<1>3. /\ ((a \o b) \o c) \o d \in Seq(S)
      /\ Len(((a \o b) \o c) \o d) = Len(a) + Len(b) + Len(c) + Len(d)
  BY <1>2, Joined
<1> QED BY <1>3, Joined DEF Whole

\* A piece of n bytes moves between neighbours and the whole stays what it is.
LEMMA ClientSays ==
    ASSUME NEW S, NEW a \in Seq(S), NEW b \in Seq(S), NEW c \in Seq(S), NEW d \in Seq(S),
           NEW e \in Seq(S), NEW n \in 0 .. Len(e)
    PROVE  Whole(a, b, c, d \o First(e, n), Without(e, n)) = Whole(a, b, c, d, e)
<1> DEFINE x == (a \o b) \o c
<1>1. a \o b \in Seq(S) BY Joined
<1>2. x \in Seq(S) BY <1>1, Joined
<1>3. First(e, n) \in Seq(S) /\ x \o d \in Seq(S)
  <2> HIDE DEF x
  <2> QED BY <1>2, Pieces, Joined
<1>4. x \o (d \o First(e, n)) = (x \o d) \o First(e, n)
  <2> DEFINE p == First(e, n)
  <2>1. x \in Seq(S) /\ p \in Seq(S) BY <1>2, <1>3
  <2> HIDE DEF x, p
  <2>2. (x \o d) \o p = x \o (d \o p) BY <2>1, Regrouped, SMTT(60)
  <2> QED BY <2>2 DEF p
<1>5. ((x \o d) \o First(e, n)) \o Without(e, n) = (x \o d) \o e
  <2> DEFINE z == x \o d
  <2> HIDE DEF x, z
  <2>1. z \in Seq(S) BY <1>3 DEF z
  <2>2. (z \o First(e, n)) \o Without(e, n) = z \o e BY <2>1, Moves
  <2> QED BY <2>2 DEF z
<1> QED BY <1>4, <1>5 DEF Whole

LEMMA ServerHears ==
    ASSUME NEW S, NEW a \in Seq(S), NEW b \in Seq(S), NEW d \in Seq(S),
           NEW e \in Seq(S), NEW n \in 0 .. Len(d)
    PROVE  Whole(a, b, First(d, n), Without(d, n), e) = Whole(a, b, <<>>, d, e)
<1> DEFINE x == a \o b
<1>1. x \in Seq(S) BY Joined
<1>2. (x \o First(d, n)) \o Without(d, n) = x \o d
  <2> HIDE DEF x
  <2> QED BY <1>1, Moves
<1>3. x \o <<>> = x
  <2> HIDE DEF x
  <2> QED BY <1>1, ConcatEmptySeq
<1> QED BY <1>2, <1>3 DEF Whole

LEMMA ServerSays ==
    ASSUME NEW S, NEW a \in Seq(S), NEW b \in Seq(S), NEW c \in Seq(S), NEW d \in Seq(S),
           NEW e \in Seq(S), NEW n \in 0 .. Len(c)
    PROVE  Whole(a, b \o First(c, n), Without(c, n), d, e) = Whole(a, b, c, d, e)
<1>1. First(c, n) \in Seq(S) /\ a \o b \in Seq(S) BY Pieces, Joined
<1>2. (a \o b) \o First(c, n) = a \o (b \o First(c, n)) BY <1>1, Regrouped, SMTT(30)
<1>3. ((a \o b) \o First(c, n)) \o Without(c, n) = (a \o b) \o c
  <2> DEFINE z == a \o b
  <2>1. z \in Seq(S) BY <1>1
  <2> HIDE DEF z
  <2>2. (z \o First(c, n)) \o Without(c, n) = z \o c BY <2>1, Moves
  <2> QED BY <2>2 DEF z
<1> QED BY <1>2, <1>3 DEF Whole

LEMMA ClientHears ==
    ASSUME NEW S, NEW a \in Seq(S), NEW b \in Seq(S), NEW c \in Seq(S), NEW d \in Seq(S),
           NEW e \in Seq(S), NEW n \in 0 .. Len(b)
    PROVE  Whole(a \o First(b, n), Without(b, n), c, d, e) = Whole(a, b, c, d, e)
<1>1. (a \o First(b, n)) \o Without(b, n) = a \o b BY Moves
<1> QED BY <1>1 DEF Whole

LEMMA UnsentType ==
    ASSUME ServerTypeOK, NEW k \in 1 .. Len(connections)
    PROVE  /\ Unsent(connections[k]) \in Seq(Bytes)
           /\ connections[k].state = "receiving" => Unsent(connections[k]) = <<>>
<1> DEFINE cd == connections[k]
<1>1. cd.buffer \in Seq(Bytes) /\ cd.offset \in Nat /\ cd.state \in {"receiving", "sending"}
  BY ConnectionsAre DEF ConnectionData
<1>2. FitsBuffer(cd) BY BuffersFit
<1> HIDE DEF cd
<1>3. Len(cd.buffer) \in Nat BY <1>1, Lengths
<1>4. cd.offset \in 0 .. Len(cd.buffer)
  <2>1. CASE cd.state = "receiving" BY <1>2, <1>3, <2>1, EmptySeq DEF FitsBuffer
  <2>2. CASE cd.state = "sending" BY <1>1, <1>2, <1>3, <2>2 DEF FitsBuffer
  <2> QED BY <1>1, <2>1, <2>2
<1>5. Unsent(cd) \in Seq(Bytes) /\ Len(Unsent(cd)) = Len(cd.buffer) - cd.offset
  BY <1>1, <1>4, Pieces DEF Unsent
<1>6. ASSUME cd.state = "receiving" PROVE Unsent(cd) = <<>>
  <2>1. Len(cd.buffer) = 0 /\ cd.offset = 0 BY <1>2, <1>6, EmptySeq DEF FitsBuffer
  <2>2. Len(Unsent(cd)) = 0 BY <1>5, <2>1
  <2> QED BY <1>5, <2>2, Lengths
<1> QED BY <1>5, <1>6 DEF cd

LEMMA InServerIs ==
    ASSUME ServerTypeOK, Held, NEW i \in Clients
    PROVE  /\ \A k \in 1 .. Len(connections) :
                  Peer(connections[k]) = i => InServer(i) = Unsent(connections[k])
           /\ (\A k \in 1 .. Len(connections) : Peer(connections[k]) # i) => InServer(i) = <<>>
           /\ InServer(i) \in Seq(Bytes)
<1>1. DOMAIN connections = 1 .. Len(connections) BY ConnectionsAre
<1>2. HeldFor(i) = {k \in 1 .. Len(connections) : Peer(connections[k]) = i} BY <1>1 DEF HeldFor
<1>3. ASSUME NEW k \in 1 .. Len(connections), Peer(connections[k]) = i
      PROVE  InServer(i) = Unsent(connections[k])
  <2>1. HeldFor(i) = {k} BY <1>2, <1>3, PeersDiffer DEF Held
  <2>2. (CHOOSE j \in {k} : TRUE) = k OBVIOUS
  <2> QED BY <2>1, <2>2 DEF InServer
<1>4. (\A k \in 1 .. Len(connections) : Peer(connections[k]) # i) => InServer(i) = <<>>
  BY <1>2 DEF InServer
<1>5. InServer(i) \in Seq(Bytes) BY <1>3, <1>4, UnsentType, EmptySeq
<1> QED BY <1>3, <1>4, <1>5

\* The parts of client i.
LEMMA PartsAre ==
    ASSUME IInv, NEW i \in Clients
    PROVE  /\ Got(i) \in Seq(Bytes) /\ down[i] \in Seq(Bytes) /\ InServer(i) \in Seq(Bytes)
           /\ up[i] \in Seq(Bytes) /\ Left(i) \in Seq(Bytes) /\ <<>> \in Seq(Bytes)
<1>1. /\ down[i] \in Seq(Bytes) /\ up[i] \in Seq(Bytes) /\ buffer[i] \in Seq(Bytes)
      /\ Message(i) \in Seq(Bytes) /\ <<>> \in Seq(Bytes)
  BY MessageType, EmptySeq DEF IInv, ClientSide, SocketsTypeOK, ClientsTypeOK
<1>2. InServer(i) \in Seq(Bytes) BY InServerIs DEF IInv, ServerSide
<1> QED BY <1>1, <1>2 DEF Got, Left

----------------------------------------------------------------------------
(* The clients' steps *)

LEMMA NothingMoves ==
    ASSUME NEW i \in Clients, state'[i] = state[i], buffer'[i] = buffer[i],
           down'[i] = down[i], up'[i] = up[i], InServer(i)' = InServer(i),
           state[i] # "dead" => Whole(Got(i), down[i], InServer(i), up[i], Left(i)) = Message(i)
    PROVE  state'[i] # "dead" =>
               Whole(Got(i)', down'[i], InServer(i)', up'[i], Left(i)') = Message(i)
<1>1. Got(i)' = Got(i) BY DEF Got
<1>2. Left(i)' = Left(i) BY DEF Left
<1> QED BY <1>1, <1>2

\* A step at client i.
LEMMA OthersBalanced ==
    ASSUME Balanced, OpenWhileAlive, NEW i \in Clients, UNCHANGED serverVars,
           \A j \in Clients : j # i =>
               /\ state'[j] = state[j] /\ buffer'[j] = buffer[j] /\ down'[j] = down[j]
               /\ up'[j] = up[j] /\ clientEnd'[j] = clientEnd[j],
           state'[i] # "dead" =>
               /\ Whole(Got(i)', down'[i], InServer(i), up'[i], Left(i)') = Message(i)
               /\ clientEnd'[i] = "open"
    PROVE  Balanced' /\ OpenWhileAlive'
<1>1. \A j \in Clients : InServer(j)' = InServer(j)
  BY DEF InServer, HeldFor, Peer, serverVars
<1>2. ASSUME NEW j \in Clients, state'[j] # "dead"
      PROVE  Whole(Got(j)', down'[j], InServer(j)', up'[j], Left(j)') = Message(j)
  <2>1. CASE j = i BY <1>1, <1>2, <2>1
  <2>2. CASE j # i BY <1>1, <1>2, <2>2, NothingMoves DEF Balanced
  <2> QED BY <2>1, <2>2
<1>3. Balanced' BY <1>2 DEF Balanced
<1>4. OpenWhileAlive' BY DEF OpenWhileAlive
<1> QED BY <1>3, <1>4

LEMMA FinishBalances ==
    ASSUME IInv, Balanced, OpenWhileAlive, NEW i \in Clients, Finish(i), UNCHANGED serverVars
    PROVE  Balanced' /\ OpenWhileAlive'
<1> USE DEF IInv, ClientSide
<1>1. state'[i] = "dead" /\ \A j \in Clients : j # i => state'[j] = state[j] /\ buffer'[j] = buffer[j]
  BY DEF Finish, ClientsTypeOK
<1>2. \A j \in Clients : j # i => /\ down'[j] = down[j] /\ up'[j] = up[j]
                                 /\ clientEnd'[j] = clientEnd[j]
  BY DEF Finish, ClientsClose
<1> QED BY <1>1, <1>2, OthersBalanced

\* n bytes of what client i had left are sent.
LEMMA ClientSent ==
    ASSUME IInv, NEW i \in Clients, ClientSend(i), ~ Finish(i)
    PROVE  /\ state[i] # "dead" /\ state'[i] # "dead" /\ Got(i) = <<>> /\ Got(i)' = <<>>
           /\ \E n \in 1 .. Len(Left(i)) :
                  up'[i] = up[i] \o First(Left(i), n) /\ Left(i)' = Without(Left(i), n)
           /\ \A j \in Clients : j # i =>
                  state'[j] = state[j] /\ buffer'[j] = buffer[j] /\ up'[j] = up[j]
           /\ UNCHANGED <<down, clientEnd>>
<1> DEFINE rest == IF state[i] = "connecting" THEN Message(i) ELSE buffer[i]
           room == UpSpace - Len(up[i])
<1>1. SocketsTypeOK /\ ClientsTypeOK /\ state[i] \in {"connecting", "sending"}
  BY DEF ClientSend, IInv, ClientSide
<1>2. /\ \E n \in 1 .. Least(Len(rest), room) :
             up' = [up EXCEPT ![i] = @ \o First(rest, n)] /\ Sent(i, rest, n)
      /\ UNCHANGED <<down, clientEnd>>
  BY DEF ClientSend
<1>3. PICK n \in 1 .. Least(Len(rest), room) :
             up' = [up EXCEPT ![i] = @ \o First(rest, n)] /\ Sent(i, rest, n)
  BY <1>2
<1>4. Got(i) = <<>> /\ Left(i) = rest BY <1>1 DEF Got, Left
<1>5. rest \in Seq(Bytes) /\ up[i] \in Seq(Bytes) BY <1>4, PartsAre
<1> HIDE DEF rest
<1>6. n \in 1 .. Len(rest) /\ Len(rest) \in Nat
  <2>1. Len(rest) \in Nat /\ Len(up[i]) \in Nat /\ UpSpace \in Nat
    BY <1>5, Lengths, SocketAssumption
  <2> QED BY <2>1 DEF Least
<1>7. Got(i)' = <<>> /\ Left(i)' = Without(rest, n) /\ state'[i] # "dead"
  <2>1. buffer'[i] = Without(rest, n)
        /\ state'[i] = IF n = Len(rest) THEN "receiving" ELSE "sending"
    BY <1>1, <1>3 DEF Sent, ClientsTypeOK
  <2>2. Without(rest, n) \in Seq(Bytes) /\ Len(Without(rest, n)) = Len(rest) - n
    BY <1>5, <1>6, Pieces
  <2>3. n = Len(rest) => Without(rest, n) = <<>>
    <3>1. n = Len(rest) => Len(Without(rest, n)) = 0 BY <1>6, <2>2
    <3> QED BY <2>2, <3>1, Lengths
  <2> QED BY <2>1, <2>3 DEF Got, Left
<1>8. up'[i] = up[i] \o First(rest, n) BY <1>1, <1>3 DEF SocketsTypeOK
<1>9. \A j \in Clients : j # i => state'[j] = state[j] /\ buffer'[j] = buffer[j]
  BY <1>1, <1>3 DEF Sent, ClientsTypeOK
<1>10. \A j \in Clients : j # i => up'[j] = up[j] BY <1>1, <1>3 DEF SocketsTypeOK
<1> QED BY <1>1, <1>2, <1>4, <1>6, <1>7, <1>8, <1>9, <1>10

LEMMA SendBalances ==
    ASSUME IInv, Balanced, OpenWhileAlive, NEW i \in Clients, ClientSend(i), UNCHANGED serverVars
    PROVE  Balanced' /\ OpenWhileAlive'
<1>1. CASE Finish(i) BY <1>1, FinishBalances
<1>2. CASE ~ Finish(i)
  <2>1. PICK n \in 1 .. Len(Left(i)) :
               up'[i] = up[i] \o First(Left(i), n) /\ Left(i)' = Without(Left(i), n)
    BY <1>2, ClientSent
  <2>2. /\ state[i] # "dead" /\ Got(i) = <<>> /\ Got(i)' = <<>>
        /\ \A j \in Clients : j # i =>
               state'[j] = state[j] /\ buffer'[j] = buffer[j] /\ up'[j] = up[j]
        /\ down' = down /\ clientEnd' = clientEnd
    BY <1>2, ClientSent
  <2> DEFINE a == Got(i)  b == down[i]  c == InServer(i)  d == up[i]  e == Left(i)
  <2>3. /\ a \in Seq(Bytes) /\ b \in Seq(Bytes) /\ c \in Seq(Bytes) /\ d \in Seq(Bytes)
        /\ e \in Seq(Bytes)
    BY PartsAre
  <2>4. n \in 0 .. Len(e)
    <3>1. Len(e) \in Nat BY <2>3, Lengths
    <3> QED BY <3>1
  <2>5. Whole(a, b, c, d \o First(e, n), Without(e, n)) = Whole(a, b, c, d, e)
    <3> HIDE DEF a, b, c, d, e
    <3> QED BY <2>3, <2>4, ClientSays
  <2>6. Whole(a, b, c, d, e) = Message(i) BY <2>2 DEF Balanced
  <2>7. Whole(Got(i)', down'[i], InServer(i), up'[i], Left(i)') = Message(i)
    BY <2>1, <2>2, <2>5, <2>6
  <2> QED BY <2>2, <2>7, OthersBalanced DEF OpenWhileAlive
<1> QED BY <1>1, <1>2

LEMMA ReceiveBalances ==
    ASSUME IInv, Balanced, OpenWhileAlive, NEW i \in Clients, ClientReceive(i),
           UNCHANGED serverVars
    PROVE  Balanced' /\ OpenWhileAlive'
<1> DEFINE all(n)  == buffer[i] \o First(down[i], n)
           last(n) == Len(all(n)) = Length[i] /\ repeatsLeft[i] = 0
           rest(n) == [down EXCEPT ![i] = Without(@, n)]
<1>1. SocketsTypeOK /\ ClientsTypeOK /\ state[i] = "receiving"
  BY DEF ClientReceive, IInv, ClientSide
<1> HIDE DEF last, rest
<1>2. PICK n \in 1 .. Least(Len(down[i]), Length[i] - Len(buffer[i])) :
          /\ IF Len(all(n)) < Length[i]
             THEN /\ buffer' = [buffer EXCEPT ![i] = all(n)]
                  /\ UNCHANGED <<state, repeatsLeft>>
             ELSE IF last(n) THEN LastRound(i) ELSE NextRound(i)
          /\ IF last(n)
             THEN /\ clientEnd' = [clientEnd EXCEPT ![i] =
                                       IF rest(n)[i] = <<>> THEN "closed" ELSE "reset"]
                  /\ down' = [down EXCEPT ![i] = <<>>]
                  /\ up' = IF rest(n)[i] = <<>> THEN up ELSE [up EXCEPT ![i] = <<>>]
             ELSE /\ down' = rest(n)
                  /\ UNCHANGED <<up, clientEnd>>
  BY DEF ClientReceive, last, rest
<1> DEFINE a == Got(i)  b == down[i]  c == InServer(i)  d == up[i]  e == Left(i)
           q == Without(b, n)
<1>3. /\ a \in Seq(Bytes) /\ b \in Seq(Bytes) /\ c \in Seq(Bytes) /\ d \in Seq(Bytes)
      /\ e \in Seq(Bytes) /\ e = <<>> /\ a = buffer[i]
  BY <1>1, PartsAre DEF Got, Left
<1>4. Message(i) \in Seq(Bytes) /\ Len(Message(i)) = Length[i] /\ Length[i] \in Nat
  BY MessageType
<1>5. Len(a) \in Nat /\ Len(b) \in Nat /\ Len(c) \in Nat /\ Len(d) \in Nat BY <1>3, Lengths
<1>6. n \in Nat /\ n \in 0 .. Len(b) /\ n <= Length[i] - Len(a)
  BY <1>2, <1>3, <1>4, <1>5 DEF Least
<1>7. /\ First(b, n) \in Seq(Bytes) /\ Len(First(b, n)) = n
      /\ q \in Seq(Bytes) /\ Len(q) = Len(b) - n
  BY <1>3, <1>6, Pieces
<1>8. all(n) \in Seq(Bytes) /\ Len(all(n)) = Len(a) + n
  <2>1. all(n) = a \o First(b, n) BY <1>3
  <2> HIDE DEF a, all
  <2> QED BY <1>3, <1>7, <2>1, Joined
<1>9. Whole(a, b, c, d, e) = Message(i) BY <1>1 DEF Balanced
<1>10. Whole(all(n), q, c, d, e) = Message(i)
  <2>1. all(n) = a \o First(b, n) BY <1>3
  <2>2. Whole(a \o First(b, n), q, c, d, e) = Whole(a, b, c, d, e)
    <3>1. /\ a \in Seq(Bytes) /\ b \in Seq(Bytes) /\ c \in Seq(Bytes)
          /\ d \in Seq(Bytes) /\ e \in Seq(Bytes)
      BY <1>3
    <3> HIDE DEF a, b, c, d, e
    <3> QED BY <3>1, <1>6, ClientHears
  <2> QED BY <1>9, <2>1, <2>2
<1>11. /\ \A j \in Clients : j # i => /\ state'[j] = state[j] /\ buffer'[j] = buffer[j]
                                       /\ down'[j] = down[j] /\ up'[j] = up[j]
                                       /\ clientEnd'[j] = clientEnd[j]
       /\ ~ last(n) => clientEnd' = clientEnd /\ up' = up /\ down'[i] = q
  <2>1. \A j \in Clients : j # i => state'[j] = state[j] /\ buffer'[j] = buffer[j]
    BY <1>1, <1>2 DEF LastRound, NextRound, ClientsTypeOK
  <2>2. \A j \in Clients : j # i => down'[j] = down[j] BY <1>1, <1>2 DEF rest, SocketsTypeOK
  <2>3. \A j \in Clients : j # i => up'[j] = up[j] /\ clientEnd'[j] = clientEnd[j]
    BY <1>1, <1>2 DEF SocketsTypeOK
  <2>4. ~ last(n) => clientEnd' = clientEnd /\ up' = up /\ down'[i] = q
    BY <1>1, <1>2 DEF rest, SocketsTypeOK
  <2> QED BY <2>1, <2>2, <2>3, <2>4
<1>12. clientEnd[i] = "open" BY <1>1 DEF OpenWhileAlive
<1>13. CASE Len(all(n)) < Length[i]
  <2>1. ~ last(n) BY <1>4, <1>8, <1>13 DEF last
  <2>2. state' = state /\ buffer'[i] = all(n) BY <1>1, <1>2, <1>13 DEF ClientsTypeOK
  <2>3. Got(i)' = all(n) /\ Left(i)' = e BY <1>1, <1>3, <2>2 DEF Got, Left
  <2>4. Whole(Got(i)', down'[i], InServer(i), up'[i], Left(i)') = Message(i)
    BY <1>10, <1>11, <2>1, <2>3
  <2> QED BY <1>11, <1>12, <2>1, <2>4, OthersBalanced
<1>14. CASE ~ (Len(all(n)) < Length[i]) /\ ~ last(n)
  <2>1. NextRound(i) BY <1>2, <1>14
  <2>2. state'[i] = "sending" /\ buffer'[i] = Message(i)
    BY <1>1, <2>1 DEF NextRound, ClientsTypeOK
  <2>3. Got(i)' = <<>> /\ Left(i)' = Message(i) BY <2>2 DEF Got, Left
  <2>4. Len(all(n)) + Len(q) + Len(c) + Len(d) + Len(e) = Length[i]
    <3>1. /\ all(n) \in Seq(Bytes) /\ q \in Seq(Bytes) /\ c \in Seq(Bytes)
          /\ d \in Seq(Bytes) /\ e \in Seq(Bytes)
      BY <1>3, <1>7, <1>8
    <3> HIDE DEF all, q, c, d, e
    <3>2. Len(Whole(all(n), q, c, d, e)) = Len(all(n)) + Len(q) + Len(c) + Len(d) + Len(e)
      BY <3>1, WholeType
    <3> QED BY <1>4, <1>10, <3>2
  <2>5. Len(q) = 0 /\ Len(c) = 0 /\ Len(d) = 0
    <3>1. Len(q) \in Nat /\ Len(e) = 0 /\ Len(all(n)) \in Nat BY <1>3, <1>7, <1>8, Lengths
    <3> HIDE DEF q, c, d, e, all
    <3> QED BY <1>4, <1>5, <1>14, <2>4, <3>1
  <2>6. q = <<>> /\ c = <<>> /\ d = <<>> BY <1>3, <1>7, <2>5, Lengths
  <2>7. Whole(<<>>, <<>>, <<>>, <<>>, Message(i)) = Message(i)
    <3>1. <<>> \o <<>> = <<>> BY EmptySeq, ConcatEmptySeq
    <3>2. <<>> \o Message(i) = Message(i) BY <1>4, ConcatEmptySeq
    <3> QED BY <3>1, <3>2 DEF Whole
  <2>8. Whole(Got(i)', down'[i], InServer(i), up'[i], Left(i)') = Message(i)
    BY <1>11, <1>14, <2>3, <2>6, <2>7
  <2> QED BY <1>11, <1>12, <1>14, <2>8, OthersBalanced
<1>15. CASE ~ (Len(all(n)) < Length[i]) /\ last(n)
  <2>1. state'[i] = "dead" BY <1>1, <1>2, <1>15 DEF LastRound, ClientsTypeOK
  <2> QED BY <1>11, <2>1, OthersBalanced
<1> QED BY <1>13, <1>14, <1>15

\* Clients that a step kills, or does nothing to.
LEMMA StaysBalanced ==
    ASSUME Balanced, OpenWhileAlive,
           \A j \in Clients : state'[j] # "dead" =>
               /\ state'[j] = state[j] /\ buffer'[j] = buffer[j] /\ down'[j] = down[j]
               /\ up'[j] = up[j] /\ clientEnd'[j] = clientEnd[j] /\ InServer(j)' = InServer(j)
    PROVE  Balanced' /\ OpenWhileAlive'
<1>1. ASSUME NEW j \in Clients, state'[j] # "dead"
      PROVE  Whole(Got(j)', down'[j], InServer(j)', up'[j], Left(j)') = Message(j)
  BY <1>1, NothingMoves DEF Balanced
<1>2. Balanced' BY <1>1 DEF Balanced
<1>3. OpenWhileAlive' BY DEF OpenWhileAlive
<1> QED BY <1>2, <1>3

LEMMA ClientsBalance ==
    ASSUME IInv, Balanced, OpenWhileAlive, ClientStep \/ Killed, UNCHANGED serverVars
    PROVE  Balanced' /\ OpenWhileAlive'
<1>1. \A j \in Clients : InServer(j)' = InServer(j)
  BY DEF InServer, HeldFor, Peer, serverVars
<1>2. ClientsTypeOK BY DEF IInv, ClientSide
<1>3. CASE OpenConnection
  BY <1>1, <1>2, <1>3, StaysBalanced DEF OpenConnection, ClientsTypeOK
<1>4. CASE AllOpened \/ ClientSelect
  BY <1>1, <1>4, StaysBalanced DEF AllOpened, ClientSelect, socketVars
<1>5. CASE Killed BY <1>5, StaysBalanced DEF Killed
<1>6. ASSUME NEW i \in Clients, ClientSend(i) \/ ClientReceive(i) \/ ClientLost(i)
      PROVE  Balanced' /\ OpenWhileAlive'
  BY <1>6, SendBalances, ReceiveBalances, FinishBalances DEF ClientLost
<1> QED BY <1>3, <1>4, <1>5, <1>6 DEF ClientStep

----------------------------------------------------------------------------
(* The server's steps *)

\* What the server holds for each client.
ServerParts ==
    \A i \in Clients :
        /\ \A k \in 1 .. Len(connections) :
               Peer(connections[k]) = i => InServer(i) = Unsent(connections[k])
        /\ (\A k \in 1 .. Len(connections) : Peer(connections[k]) # i) => InServer(i) = <<>>

LEMMA ServerPartsAre == IInv => ServerParts
<1> SUFFICES ASSUME IInv PROVE ServerParts OBVIOUS
<1> QED BY InServerIs DEF IInv, ServerSide, ServerParts

\* Each connection of a client is still there, and no new one.
LEMMA InServerStays ==
    ASSUME ServerParts, ServerParts', NEW i \in Clients,
           \A k \in 1 .. Len(connections) : Peer(connections[k]) = i =>
               \E m \in 1 .. Len(connections') :
                   connections'[m] = connections[k] /\ owner'[connections[k].sock] = i,
           \A m \in 1 .. Len(connections') : owner'[connections'[m].sock] = i =>
               \E k \in 1 .. Len(connections) : Peer(connections[k]) = i
    PROVE  InServer(i)' = InServer(i)
<1>1. CASE \A k \in 1 .. Len(connections) : Peer(connections[k]) # i
  <2>1. InServer(i) = <<>> BY <1>1 DEF ServerParts
  <2>2. \A m \in 1 .. Len(connections') : owner'[connections'[m].sock] # i BY <1>1
  <2>3. InServer(i)' = <<>> BY <2>2 DEF ServerParts, Peer
  <2> QED BY <2>1, <2>3
<1>2. ASSUME NEW k \in 1 .. Len(connections), Peer(connections[k]) = i
      PROVE  InServer(i)' = InServer(i)
  <2>1. PICK m \in 1 .. Len(connections') :
            connections'[m] = connections[k] /\ owner'[connections[k].sock] = i
    BY <1>2
  <2>2. InServer(i) = Unsent(connections[k]) BY <1>2 DEF ServerParts
  <2>3. InServer(i)' = Unsent(connections'[m]) BY <2>1 DEF ServerParts, Peer, Unsent
  <2> QED BY <2>1, <2>2, <2>3
<1> QED BY <1>1, <1>2

LEMMA AcceptBalances ==
    ASSUME IInv, ServerParts', Balanced, OpenWhileAlive, NEW d \in Descriptors, Accept(d),
           UNCHANGED clientVars
    PROVE  Balanced' /\ OpenWhileAlive'
<1> USE DEF IInv, ClientSide, ServerSide
<1> DEFINE L == Len(connections)
<1>0. PICK h \in Clients : h = Head(listening) BY HeadAndTail, ListeningIs DEF Accept
<1>1. ServerParts BY ServerPartsAre
<1>2. L \in Nat BY ConnectionsAre
<1>3. /\ Len(connections') = L + 1
      /\ \A k \in 1 .. L : connections'[k] = connections[k]
                           /\ owner'[connections[k].sock] = owner[connections[k].sock]
      /\ \A k \in 1 .. L : connections[k].sock # d
  BY AcceptKeeps
<1>4. /\ owner'[d] = h
      /\ \A k \in 1 .. L : Peer(connections[k]) # h
  <2>1. listening # <<>> /\ owner' = [owner EXCEPT ![d] = h] BY <1>0 DEF Accept
  <2>2. h = listening[1] /\ 1 \in 1 .. Len(listening)
    BY <1>0, <2>1, HeadAndTail, ListeningIs, Lengths
  <2>3. ASSUME NEW k \in 1 .. L, Peer(connections[k]) = h PROVE FALSE
    BY <2>2, <2>3, PeerIsClient DEF Held, OwnersAccepted
  <2>4. owner'[d] = h BY <2>1 DEF ServerTypeOK
  <2> QED BY <2>2, <2>3, <2>4
<1>5. LET cd == [sock |-> d, state |-> "receiving", buffer |-> <<>>, offset |-> 0]
      IN  cd \in ConnectionData /\ connections' = Append(connections, cd)
  BY EmptySeq DEF Accept, ConnectionData
<1> DEFINE cd == [sock |-> d, state |-> "receiving", buffer |-> <<>>, offset |-> 0]
<1>6. connections'[L + 1] = cd
  <2>1. connections \in Seq(ConnectionData) BY ConnectionsAre
  <2> HIDE DEF cd
  <2> QED BY <1>5, <2>1, Appended DEF cd
<1>7. InServer(h)' = <<>> /\ InServer(h) = <<>>
  <2>1. Unsent(cd) = <<>>
    <3>1. Len(<<>>) = 0 BY EmptySeq
    <3>2. SubSeq(<<>>, 0 + 1, 0) = <<>> BY SubSeqEmpty
    <3> QED BY <3>1, <3>2 DEF Unsent, Without
  <2>2. InServer(h)' = Unsent(cd)
    <3>1. connections'[L + 1].sock = d /\ L + 1 \in 1 .. Len(connections') BY <1>2, <1>3, <1>6
    <3>2. Unsent(connections'[L + 1]) = Unsent(cd) BY <1>6
    <3>3. owner'[connections'[L + 1].sock] = h BY <1>4, <3>1
    <3>4. \A i \in Clients : \A k \in 1 .. Len(connections') :
              owner'[connections'[k].sock] = i => InServer(i)' = Unsent(connections'[k])
      BY DEF ServerParts, Peer, Unsent
    <3>5. InServer(h)' = Unsent(connections'[L + 1]) BY <3>1, <3>3, <3>4
    <3> QED BY <3>2, <3>5
  <2>3. InServer(h) = <<>> BY <1>1, <1>4 DEF ServerParts
  <2> QED BY <2>1, <2>2, <2>3
<1>8. ASSUME NEW j \in Clients, j # h PROVE InServer(j)' = InServer(j)
  <2>1. ASSUME NEW k \in 1 .. L, Peer(connections[k]) = j
        PROVE  k \in 1 .. Len(connections') /\ connections'[k] = connections[k]
               /\ owner'[connections[k].sock] = j
    BY <1>2, <1>3, <2>1 DEF Peer
  <2>2. ASSUME NEW m \in 1 .. Len(connections'), owner'[connections'[m].sock] = j
        PROVE  m \in 1 .. L /\ Peer(connections[m]) = j
    <3>1. m # L + 1 BY <1>4, <1>6, <1>8, <2>2
    <3> QED BY <1>2, <1>3, <2>2, <3>1 DEF Peer
  <2> QED BY <1>1, <2>1, <2>2, InServerStays
<1>9. ASSUME NEW j \in Clients PROVE InServer(j)' = InServer(j)
  <2>1. CASE j = h BY <1>7, <2>1
  <2>2. CASE j # h BY <1>8, <2>2
  <2> QED BY <2>1, <2>2
<1> QED BY <1>9, StaysBalanced DEF Accept, clientVars

\* The connection is erased of a client that has gone.
LEMMA CloseBalances ==
    ASSUME IInv, ServerParts', Balanced, OpenWhileAlive, NEW k \in 1 .. Len(connections),
           Close(k), clientEnd[Peer(connections[k])] # "open", UNCHANGED clientVars
    PROVE  Balanced' /\ OpenWhileAlive'
<1> USE DEF IInv, ClientSide, ServerSide
<1> DEFINE L == Len(connections)
<1>1. PICK i \in Clients : i = Peer(connections[k]) BY PeerIsClient DEF Held
<1>2. L \in Nat /\ ServerParts BY ConnectionsAre, ServerPartsAre
<1>3. /\ Len(connections') = L - 1
      /\ \A j \in 1 .. Len(connections') :
             LET m == IF j < k THEN j ELSE j + 1
             IN  /\ m \in 1 .. L /\ m # k
                 /\ connections'[j] = connections[m]
                 /\ owner'[connections[m].sock] = owner[connections[m].sock]
      /\ \A j \in Clients : j # i => up'[j] = up[j]
  BY <1>1, CloseKeeps
<1>4. ASSUME NEW j \in Clients, j # i PROVE InServer(j)' = InServer(j)
  <2>1. ASSUME NEW l \in 1 .. L, Peer(connections[l]) = j
        PROVE  \E m \in 1 .. Len(connections') :
                   connections'[m] = connections[l] /\ owner'[connections[l].sock] = j
    <3>1. l # k BY <1>1, <1>4, <2>1
    <3> DEFINE m == IF l < k THEN l ELSE l - 1
    <3>2. m \in 1 .. Len(connections') /\ l = IF m < k THEN m ELSE m + 1 BY <1>2, <1>3, <3>1
    <3> HIDE DEF m
    <3>3. connections'[m] = connections[l] /\ owner'[connections[l].sock] = owner[connections[l].sock]
      BY <1>3, <3>2
    <3> QED BY <2>1, <3>2, <3>3 DEF Peer
  <2>2. ASSUME NEW m \in 1 .. Len(connections'), owner'[connections'[m].sock] = j
        PROVE  \E l \in 1 .. L : Peer(connections[l]) = j
    <3> DEFINE l == IF m < k THEN m ELSE m + 1
    <3>1. /\ l \in 1 .. L /\ connections'[m] = connections[l]
          /\ owner'[connections[l].sock] = owner[connections[l].sock]
      BY <1>3
    <3> HIDE DEF l
    <3> QED BY <2>2, <3>1 DEF Peer
  <2> QED BY <1>2, <2>1, <2>2, InServerStays
<1>5. state[i] = "dead" BY <1>1 DEF OpenWhileAlive
<1>6. state' = state /\ buffer' = buffer /\ down' = down /\ clientEnd' = clientEnd
  BY DEF Close, clientVars
<1> QED BY <1>3, <1>4, <1>5, <1>6, StaysBalanced

\* A step with connection k of client i: the others' are what they were.
LEMMA OthersKept ==
    ASSUME IInv, ServerParts', NEW k \in 1 .. Len(connections), NEW i \in Clients,
           i = Peer(connections[k]), owner' = owner, Len(connections') = Len(connections),
           connections'[k].sock = connections[k].sock,
           \A j \in 1 .. Len(connections) : j # k => connections'[j] = connections[j]
    PROVE  /\ \A j \in Clients : j # i => InServer(j)' = InServer(j)
           /\ InServer(i)' = Unsent(connections'[k]) /\ InServer(i) = Unsent(connections[k])
<1>1. ServerParts BY ServerPartsAre
<1>2. ASSUME NEW j \in Clients, j # i PROVE InServer(j)' = InServer(j)
  <2>1. \A l \in 1 .. Len(connections) : Peer(connections[l]) = j =>
            connections'[l] = connections[l] /\ owner'[connections[l].sock] = j
    BY <1>2 DEF Peer
  <2>2. \A m \in 1 .. Len(connections') : owner'[connections'[m].sock] = j =>
            Peer(connections[m]) = j
    BY <1>2 DEF Peer
  <2> QED BY <1>1, <2>1, <2>2, InServerStays
<1>3. InServer(i)' = Unsent(connections'[k])
  <2>1. owner'[connections'[k].sock] = i BY DEF Peer
  <2>2. \A l \in 1 .. Len(connections') :
            owner'[connections'[l].sock] = i => InServer(i)' = Unsent(connections'[l])
    BY DEF ServerParts, Peer, Unsent
  <2> QED BY <2>1, <2>2
<1>4. InServer(i) = Unsent(connections[k]) BY <1>1 DEF ServerParts
<1> QED BY <1>2, <1>3, <1>4

LEMMA ServerStepBalances ==
    ASSUME Balanced, OpenWhileAlive, NEW i \in Clients, UNCHANGED clientVars,
           \A j \in Clients : j # i =>
               /\ InServer(j)' = InServer(j) /\ down'[j] = down[j] /\ up'[j] = up[j]
               /\ clientEnd'[j] = clientEnd[j],
           state[i] # "dead" =>
               /\ Whole(Got(i), down'[i], InServer(i)', up'[i], Left(i)) = Message(i)
               /\ clientEnd'[i] = clientEnd[i]
    PROVE  Balanced' /\ OpenWhileAlive'
<1>1. state' = state /\ buffer' = buffer BY DEF clientVars
<1>2. \A j \in Clients : Got(j)' = Got(j) /\ Left(j)' = Left(j) BY <1>1 DEF Got, Left
<1>3. ASSUME NEW j \in Clients, state[j] # "dead"
      PROVE  Whole(Got(j), down'[j], InServer(j)', up'[j], Left(j)) = Message(j)
  <2>1. CASE j = i BY <1>3, <2>1
  <2>2. CASE j # i BY <1>3, <2>2 DEF Balanced
  <2> QED BY <2>1, <2>2
<1>4. Balanced' BY <1>1, <1>2, <1>3 DEF Balanced
<1>5. OpenWhileAlive' BY <1>1 DEF OpenWhileAlive
<1> QED BY <1>4, <1>5

\* What has come is what the server has then to send.
LEMMA ServerReceives ==
    ASSUME IInv, ServerParts', Balanced, OpenWhileAlive, NEW k \in 1 .. Len(connections),
           connections[k].state = "receiving", ReceiveSome(k), UNCHANGED clientVars
    PROVE  Balanced' /\ OpenWhileAlive'
<1> USE DEF IInv, ClientSide, ServerSide
<1>1. PICK i \in Clients : i = Peer(connections[k]) BY PeerIsClient DEF Held
<1>2. /\ Len(connections') = Len(connections) /\ owner' = owner
      /\ down' = down /\ clientEnd' = clientEnd
      /\ connections'[k].sock = connections[k].sock
      /\ \A j \in 1 .. Len(connections) : j # k => connections'[j] = connections[j]
      /\ \A j \in Clients : j # i => up'[j] = up[j]
  BY <1>1, ReceiveKeeps
<1>3. /\ \A j \in Clients : j # i => InServer(j)' = InServer(j)
      /\ InServer(i)' = Unsent(connections'[k]) /\ InServer(i) = Unsent(connections[k])
  BY <1>1, <1>2, OthersKept
<1>4. InServer(i) = <<>> BY <1>3, UnsentType
<1>5. PICK n \in 1 .. Least(Len(up[i]), TransferBuffer) :
          /\ up' = [up EXCEPT ![i] = Without(@, n)]
          /\ connections' = [connections EXCEPT ![k] = Received(@, First(up[i], n))]
  BY <1>1 DEF ReceiveSome
<1> DEFINE a == Got(i)  b == down[i]  d == up[i]  e == Left(i)
<1>6. a \in Seq(Bytes) /\ b \in Seq(Bytes) /\ d \in Seq(Bytes) /\ e \in Seq(Bytes)
  BY PartsAre
<1>7. n \in 0 .. Len(d)
  <2>1. Len(d) \in Nat /\ TransferBuffer \in Nat BY <1>6, Lengths, ServerAssumption
  <2> QED BY <1>5, <2>1 DEF Least
<1>8. First(d, n) \in Seq(Bytes) BY <1>6, <1>7, Pieces
<1>9. Unsent(connections'[k]) = First(d, n)
  <2>1. connections'[k] = Received(connections[k], First(d, n))
    BY <1>5, ConnectionsAre
  <2>2. connections[k] \in ConnectionData /\ connections[k].buffer = <<>>
    BY ConnectionsAre, BuffersFit DEF FitsBuffer
  <2>3. First(d, n) \o <<>> = First(d, n)
    <3> HIDE DEF d
    <3> QED BY <1>8, ConcatEmptySeq
  <2>4. connections'[k].buffer = First(d, n) /\ connections'[k].offset = 0
    BY <2>1, <2>2, <2>3 DEF Received, ConnectionData
  <2>5. Without(First(d, n), 0) = First(d, n)
    <3> DEFINE p == First(d, n)
    <3>1. p \in Seq(Bytes) BY <1>8
    <3> HIDE DEF p
    <3>2. SubSeq(p, 1, Len(p)) = p BY <3>1, SubSeqFull
    <3>3. Without(p, 0) = p BY <3>2 DEF Without
    <3> QED BY <3>3 DEF p
  <2> QED BY <2>4, <2>5 DEF Unsent
<1>10. up'[i] = Without(d, n) BY <1>5 DEF SocketsTypeOK
<1>11. Whole(a, b, First(d, n), Without(d, n), e) = Whole(a, b, <<>>, d, e)
  <2> HIDE DEF a, b, d, e
  <2> QED BY <1>6, <1>7, ServerHears
<1>12. state[i] # "dead" => Whole(a, b, <<>>, d, e) = Message(i) BY <1>4 DEF Balanced
<1>13. state[i] # "dead" =>
           Whole(Got(i), down'[i], InServer(i)', up'[i], Left(i)) = Message(i)
  BY <1>2, <1>3, <1>9, <1>10, <1>11, <1>12
<1> QED BY <1>2, <1>3, <1>13, ServerStepBalances

\* The bytes sent leave the buffer from its offset on.
LEMMA AfterSendUnsent ==
    ASSUME NEW cd \in ConnectionData, FitsBuffer(cd), cd.state = "sending",
           NEW n \in 1 .. Len(Unsent(cd))
    PROVE  Unsent(AfterSend(cd, n)) = Without(Unsent(cd), n)
<1> DEFINE s == cd.buffer  o == cd.offset
<1>1. s \in Seq(Bytes) /\ o \in Nat /\ Len(s) \in Nat /\ o < Len(s)
  BY Lengths DEF ConnectionData, FitsBuffer
<1>2. Unsent(cd) \in Seq(Bytes) /\ Len(Unsent(cd)) = Len(s) - o
  <2>1. o \in 0 .. Len(s) BY <1>1
  <2>2. Without(s, o) \in Seq(Bytes) /\ Len(Without(s, o)) = Len(s) - o
    <3> HIDE DEF s, o
    <3> QED BY <1>1, <2>1, Pieces
  <2> QED BY <2>2 DEF Unsent
<1>3. CASE n = Len(Unsent(cd))
  <2>1. Unsent(AfterSend(cd, n)) = <<>>
    <3>1. Len(<<>>) = 0 BY EmptySeq
    <3>2. SubSeq(<<>>, 0 + 1, 0) = <<>> BY SubSeqEmpty
    <3>3. AfterSend(cd, n).buffer = <<>> /\ AfterSend(cd, n).offset = 0
      BY <1>3 DEF AfterSend, ConnectionData
    <3> QED BY <3>1, <3>2, <3>3 DEF Unsent, Without
  <2>2. Without(Unsent(cd), n) = <<>>
    <3>1. Without(Unsent(cd), n) \in Seq(Bytes) /\ Len(Without(Unsent(cd), n)) = 0
      <4> DEFINE u == Unsent(cd)
      <4>1. u \in Seq(Bytes) /\ n \in 0 .. Len(u) /\ Len(u) - n = 0 BY <1>1, <1>2, <1>3
      <4> HIDE DEF u
      <4>2. Without(u, n) \in Seq(Bytes) /\ Len(Without(u, n)) = 0 BY <4>1, Pieces
      <4> QED BY <4>2 DEF u
    <3> QED BY <3>1, Lengths
  <2> QED BY <2>1, <2>2
<1>4. CASE n # Len(Unsent(cd))
  <2>1. AfterSend(cd, n).buffer = s /\ AfterSend(cd, n).offset = o + n
    BY <1>4 DEF AfterSend, ConnectionData
  <2>2. /\ n \in Nat /\ n < Len(s) - o
        /\ o + 1 \in 1 .. Len(s) /\ Len(s) \in 1 .. Len(s)
        /\ n + 1 \in 1 .. Len(s) - (o + 1) + 1
        /\ Len(s) - o \in 1 .. Len(s) - (o + 1) + 1
    <3> HIDE DEF s, o
    <3> QED BY <1>1, <1>2, <1>4
  <2>3. SubSeq(SubSeq(s, o + 1, Len(s)), n + 1, Len(s) - o)
        = SubSeq(s, (o + 1) + (n + 1) - 1, (o + 1) + (Len(s) - o) - 1)
    <3> HIDE DEF s, o
    <3> QED BY <1>1, <2>2, SubSeqOfSubSeq
  <2>4. (o + 1) + (n + 1) - 1 = (o + n) + 1 /\ (o + 1) + (Len(s) - o) - 1 = Len(s)
    <3> HIDE DEF s, o
    <3> QED BY <1>1, <2>2
  <2>5. Without(Unsent(cd), n) = SubSeq(SubSeq(s, o + 1, Len(s)), n + 1, Len(s) - o)
    BY <1>2 DEF Unsent, Without
  <2>6. Unsent(AfterSend(cd, n)) = SubSeq(s, (o + n) + 1, Len(s))
    BY <2>1 DEF Unsent, Without
  <2> QED BY <2>3, <2>4, <2>5, <2>6
<1> QED BY <1>3, <1>4

LEMMA ServerSends ==
    ASSUME IInv, ServerParts', Balanced, OpenWhileAlive, NEW k \in 1 .. Len(connections),
           connections[k].state = "sending", SendSome(k) \/ SendInVain(k), UNCHANGED clientVars
    PROVE  Balanced' /\ OpenWhileAlive'
<1> USE DEF IInv, ClientSide, ServerSide
<1>1. PICK i \in Clients : i = Peer(connections[k]) BY PeerIsClient DEF Held
<1>2. /\ Len(connections') = Len(connections) /\ owner' = owner
      /\ connections'[k].sock = connections[k].sock
      /\ \A j \in 1 .. Len(connections) : j # k => connections'[j] = connections[j]
      /\ \A j \in Clients : j # i =>
             up'[j] = up[j] /\ down'[j] = down[j] /\ clientEnd'[j] = clientEnd[j]
  BY <1>1, SendKeeps
<1>3. /\ \A j \in Clients : j # i => InServer(j)' = InServer(j)
      /\ InServer(i)' = Unsent(connections'[k]) /\ InServer(i) = Unsent(connections[k])
  BY <1>1, <1>2, OthersKept
<1>4. CASE SendInVain(k)
  <2>1. clientEnd[i] # "open" BY <1>1, <1>4 DEF SendInVain
  <2>2. state[i] = "dead" BY <2>1 DEF OpenWhileAlive
  <2> QED BY <1>2, <1>3, <2>2, ServerStepBalances
<1>5. CASE SendSome(k)
  <2> DEFINE cd == connections[k]  a == Got(i)  b == down[i]  c == InServer(i)  d == up[i]
             e == Left(i)
  <2>1. PICK n \in 1 .. Least(Len(c), DownSpace - Len(b)) :
            /\ down' = [down EXCEPT ![i] = @ \o First(c, n)]
            /\ connections' = [connections EXCEPT ![k] = AfterSend(cd, n)]
    BY <1>1, <1>3, <1>5 DEF SendSome
  <2>2. /\ a \in Seq(Bytes) /\ b \in Seq(Bytes) /\ c \in Seq(Bytes)
        /\ d \in Seq(Bytes) /\ e \in Seq(Bytes)
    BY PartsAre
  <2>3. n \in 1 .. Len(c) /\ n \in 0 .. Len(c)
    <3>1. Len(c) \in Nat /\ Len(b) \in Nat /\ DownSpace \in Nat
      BY <2>2, Lengths, SocketAssumption
    <3> QED BY <2>1, <3>1 DEF Least
  <2>4. Unsent(connections'[k]) = Without(c, n)
    <3>1. cd \in ConnectionData /\ FitsBuffer(cd) /\ cd.state = "sending"
      BY ConnectionsAre, BuffersFit
    <3>2. n \in 1 .. Len(Unsent(cd)) BY <1>3, <2>3
    <3>3. Unsent(AfterSend(cd, n)) = Without(Unsent(cd), n)
      <4> HIDE DEF cd
      <4> QED BY <3>1, <3>2, AfterSendUnsent
    <3>4. connections'[k] = AfterSend(cd, n) BY <2>1, ConnectionsAre
    <3>5. Unsent(connections'[k]) = Unsent(AfterSend(cd, n)) BY <3>4
    <3> QED BY <1>3, <3>3, <3>5
  <2>5. down'[i] = b \o First(c, n) BY <2>1 DEF SocketsTypeOK
  <2>6. Whole(a, b \o First(c, n), Without(c, n), d, e) = Whole(a, b, c, d, e)
    <3> HIDE DEF a, b, c, d, e
    <3> QED BY <2>2, <2>3, ServerSays
  <2>7. up' = up /\ clientEnd' = clientEnd BY <1>5 DEF SendSome
  <2>8. state[i] # "dead" =>
            Whole(Got(i), down'[i], InServer(i)', up'[i], Left(i)) = Message(i)
    BY <1>3, <2>4, <2>5, <2>6, <2>7 DEF Balanced
  <2> QED BY <1>2, <1>3, <2>7, <2>8, ServerStepBalances
<1> QED BY <1>4, <1>5

\* What the server does with connection k when its turn has come.
LEMMA ServingBalances ==
    ASSUME IInv, ServerParts', Balanced, OpenWhileAlive, NEW k \in 1 .. Len(connections),
           UNCHANGED clientVars,
           \/ /\ connections[k].state = "receiving"
              /\ ServerReadable(Peer(connections[k]))
              /\ ReceiveSome(k) \/ ReceiveFails(k)
           \/ /\ connections[k].state = "sending"
              /\ ServerWritable(Peer(connections[k]))
              /\ SendSome(k) \/ SendInVain(k) \/ SendFails(k)
    PROVE  Balanced' /\ OpenWhileAlive'
<1>1. CASE connections[k].state = "receiving" /\ ReceiveSome(k) BY <1>1, ServerReceives
<1>2. CASE ServerReadable(Peer(connections[k])) /\ ReceiveFails(k)
  <2>1. Close(k) /\ clientEnd[Peer(connections[k])] # "open"
    BY <1>2 DEF ReceiveFails, ServerReadable
  <2> QED BY <2>1, CloseBalances
<1>3. CASE connections[k].state = "sending" /\ (SendSome(k) \/ SendInVain(k))
  BY <1>3, ServerSends
<1>4. CASE ServerWritable(Peer(connections[k])) /\ SendFails(k)
  <2>1. Peer(connections[k]) \in Clients BY PeerIsClient DEF IInv, ServerSide, Held
  <2>2. /\ Close(k)
        /\ \/ clientEnd[Peer(connections[k])] = "reset"
           \/ Len(down[Peer(connections[k])]) = DownSpace
    BY <1>4 DEF SendFails
  <2>3. clientEnd[Peer(connections[k])] # "open"
    <3> DEFINE i == Peer(connections[k])
    <3>1. Len(down[i]) < DownSpace \/ clientEnd[i] # "open" BY <1>4 DEF ServerWritable
    <3>2. clientEnd[i] = "reset" \/ Len(down[i]) = DownSpace BY <2>2
    <3>3. DownSpace \in Nat /\ Len(down[i]) \in Nat
      BY <2>1, Lengths, SocketAssumption DEF IInv, ClientSide, SocketsTypeOK
    <3> HIDE DEF i
    <3>4. clientEnd[i] # "open" BY <3>1, <3>2, <3>3
    <3> QED BY <3>4 DEF i
  <2> QED BY <2>2, <2>3, CloseBalances
<1> QED BY <1>1, <1>2, <1>3, <1>4

LEMMA NetworkBalances ==
    ASSUME IInv, Balanced, OpenWhileAlive, Network
    PROVE  Balanced' /\ OpenWhileAlive'
<1>1. \A j \in Clients : InServer(j)' = InServer(j)
  BY DEF Network, InServer, HeldFor, Peer, serverVars
<1> QED BY <1>1, StaysBalanced DEF Network, Establish, Unanswered, clientVars

LEMMA ServerBalances ==
    ASSUME IInv, ServerParts', Balanced, OpenWhileAlive, ServerStep
    PROVE  Balanced' /\ OpenWhileAlive'
<1> USE DEF IInv, ServerSide
<1>1. Len(connections) \in Nat BY ConnectionsAre
<1>2. ASSUME UNCHANGED <<socketVars, clientVars, connections, owner>>
      PROVE  Balanced' /\ OpenWhileAlive'
  <2>1. \A j \in Clients : InServer(j)' = InServer(j) BY <1>2 DEF InServer, HeldFor, Peer
  <2> QED BY <1>2, <2>1, StaysBalanced DEF socketVars, clientVars
<1>3. CASE IterativeAccept BY <1>3, AcceptBalances DEF IterativeAccept
<1>4. CASE IterativeReceive \/ IterativeSend
  <2>1. 1 \in 1 .. Len(connections)
    <3>1. program = "iterative" /\ spc = "talk" BY <1>4 DEF IterativeReceive, IterativeSend
    <3> QED BY <3>1 DEF Fit
  <2>2. CASE IterativeReceive
    BY <2>1, <2>2, ServingBalances DEF IterativeReceive
  <2>3. CASE IterativeSend
    BY <2>1, <2>3, ServingBalances DEF IterativeSend
  <2> QED BY <1>4, <2>2, <2>3
<1>5. CASE Select \/ PassEnds BY <1>2, <1>5 DEF Select, PassEnds
<1>6. CASE SelectAccept
  <2>1. UNCHANGED clientVars
        /\ (UNCHANGED <<socketVars, connections, owner>> \/ \E d \in Descriptors : Accept(d))
    BY <1>6 DEF SelectAccept
  <2>2. CASE UNCHANGED <<socketVars, connections, owner>> BY <1>2, <2>1, <2>2
  <2>3. CASE \E d \in Descriptors : Accept(d) BY <2>1, <2>3, AcceptBalances
  <2> QED BY <2>1, <2>2, <2>3
<1>7. ASSUME NEW k \in 1 .. Len(connections), ServeReceive(k) \/ ServeSend(k)
      PROVE  Balanced' /\ OpenWhileAlive'
  <2>1. k >= position /\ UNCHANGED clientVars
    BY <1>1, <1>7 DEF ServeReceive, ServeSend, Serving, ServerTypeOK
  <2>2. CASE ServeReceive(k)
    BY <2>1, <2>2, ServingBalances DEF ServeReceive, Receives, Served
  <2>3. CASE ServeSend(k)
    BY <2>1, <2>3, ServingBalances DEF ServeSend, Sends, Served
  <2> QED BY <1>7, <2>2, <2>3
<1>8. ASSUME NEW k \in 1 .. Len(connections), ServeNothing(k)
      PROVE  Balanced' /\ OpenWhileAlive'
  BY <1>2, <1>8 DEF ServeNothing
<1> QED BY <1>3, <1>4, <1>5, <1>6, <1>7, <1>8 DEF ServerStep

----------------------------------------------------------------------------
(* The message comes back in order *)

LEMMA StepBalances ==
    ASSUME IInv, ServerParts', Balanced, OpenWhileAlive, [Next]_vars
    PROVE  Balanced' /\ OpenWhileAlive'
<1>1. CASE (ClientStep \/ Killed) /\ UNCHANGED serverVars BY <1>1, ClientsBalance
<1>2. CASE Network BY <1>2, NetworkBalances
<1>3. CASE ServerStep BY <1>3, ServerBalances
<1>4. CASE UNCHANGED vars
  <2>1. UNCHANGED <<socketVars, clientVars, serverVars>> BY <1>4 DEF vars
  <2>2. \A j \in Clients : InServer(j)' = InServer(j)
    BY <2>1 DEF InServer, HeldFor, Peer, serverVars
  <2> QED BY <2>1, <2>2, StaysBalanced DEF socketVars, clientVars
<1> QED BY <1>1, <1>2, <1>3, <1>4 DEF Next

LEMMA InitBalanced ==
    ASSUME Init
    PROVE  Balanced /\ OpenWhileAlive
<1>1. OpenWhileAlive BY DEF Init, SocketInit, OpenWhileAlive
<1>2. ASSUME NEW i \in Clients
      PROVE  Whole(Got(i), down[i], InServer(i), up[i], Left(i)) = Message(i)
  <2>1. Got(i) = <<>> /\ down[i] = <<>> /\ up[i] = <<>> /\ Left(i) = Message(i)
    BY DEF Init, SocketInit, ClientInit, Got, Left
  <2>2. InServer(i) = <<>>
    <3>1. DOMAIN connections = {} BY DEF Init, ServerInit
    <3> QED BY <3>1 DEF InServer, HeldFor
  <2>3. <<>> \o <<>> = <<>> BY EmptySeq, ConcatEmptySeq
  <2>4. <<>> \o Message(i) = Message(i) BY MessageType, ConcatEmptySeq
  <2> QED BY <2>1, <2>2, <2>3, <2>4 DEF Whole
<1>3. Balanced BY <1>2 DEF Balanced
<1> QED BY <1>1, <1>3

\* A whole is its first part and the rest.
LEMMA TwoParts ==
    ASSUME NEW S, NEW s \in Seq(S), NEW t \in Seq(S)
    PROVE  First(s \o t, Len(s)) = s /\ Without(s \o t, Len(s)) = t
<1> DEFINE w == s \o t  n == Len(s)
<1>1. w \in Seq(S) /\ Len(w) = Len(s) + Len(t) BY Joined
<1>2. n \in Nat /\ Len(t) \in Nat BY Lengths
<1>3. n \in 0 .. Len(w) BY <1>1, <1>2
<1>4. First(w, n) = s
  <2>1. CASE n = 0
    <3>1. s = <<>> BY <2>1, Lengths
    <3>2. First(w, n) \in Seq(S) /\ Len(First(w, n)) = n
      <4> HIDE DEF w, n
      <4> QED BY <1>1, <1>3, Pieces
    <3>3. First(w, n) = <<>>
      <4> DEFINE f == First(w, n)
      <4>1. f \in Seq(S) /\ Len(f) = 0 BY <2>1, <3>2
      <4> HIDE DEF f
      <4>2. f = <<>> BY <4>1, Lengths
      <4> QED BY <4>2 DEF f
    <3> QED BY <3>1, <3>3
  <2>2. CASE n # 0
    <3>1. 1 \in 1 .. Len(s) /\ Len(s) \in 1 .. Len(s) BY <1>2, <2>2
    <3>2. SubSeq(s \o t, 1, Len(s)) = SubSeq(s, 1, Len(s)) BY <3>1, SubSeqOfConcat1
    <3>3. SubSeq(s, 1, Len(s)) = s BY SubSeqFull
    <3> QED BY <3>2, <3>3 DEF First
  <2> QED BY <2>1, <2>2
<1>5. Without(w, n) = t
  <2>1. Without(w, n) \in Seq(S) /\ First(w, n) \o Without(w, n) = w
    <3> HIDE DEF w, n
    <3> QED BY <1>1, <1>3, Pieces, Cut
  <2> DEFINE r == Without(w, n)
  <2>2. r \in Seq(S) /\ s \o r = s \o t BY <1>4, <2>1
  <2> HIDE DEF r
  <2>3. r = t BY <2>2, ConcatSimplifications
  <2> QED BY <2>3 DEF r
<1> QED BY <1>4, <1>5

\* What is on its way between what was heard and what is not yet said.
Around(a, b, c, d, e) == (a \o ((b \o c) \o d)) \o e

LEMMA Middle ==
    ASSUME NEW S, NEW a \in Seq(S), NEW b \in Seq(S), NEW c \in Seq(S), NEW d \in Seq(S),
           NEW e \in Seq(S)
    PROVE  Whole(a, b, c, d, e) = Around(a, b, c, d, e)
<1>1. (a \o b) \o c = a \o (b \o c) BY ConcatAssociative, SMTT(30)
<1> DEFINE x == b \o c
<1>2. x \in Seq(S) BY Joined
<1>3. (a \o x) \o d = a \o (x \o d)
  <2> HIDE DEF x
  <2> QED BY <1>2, ConcatAssociative, SMTT(30)
<1> QED BY <1>1, <1>3 DEF Whole, Around

\* It is the message without what was heard and what is not yet said.
Ways ==
    \A i \in Clients :
        /\ Got(i) \in Seq(Bytes) /\ OnTheWay(i) \in Seq(Bytes) /\ Left(i) \in Seq(Bytes)
        /\ state[i] = "dead" => OnTheWay(i) = <<>>
        /\ state[i] # "dead" => (Got(i) \o OnTheWay(i)) \o Left(i) = Message(i)

LEMMA WaysAre == IInv /\ Balanced => Ways
<1> SUFFICES ASSUME IInv, Balanced, NEW i \in Clients
             PROVE  /\ Got(i) \in Seq(Bytes) /\ OnTheWay(i) \in Seq(Bytes)
                    /\ Left(i) \in Seq(Bytes)
                    /\ state[i] = "dead" => OnTheWay(i) = <<>>
                    /\ state[i] # "dead" => (Got(i) \o OnTheWay(i)) \o Left(i) = Message(i)
  BY DEF Ways
<1> DEFINE a == Got(i)  b == down[i]  c == InServer(i)  d == up[i]  e == Left(i)
           t == (b \o c) \o d
<1>1. /\ a \in Seq(Bytes) /\ e \in Seq(Bytes) /\ <<>> \in Seq(Bytes)
      /\ b \in Seq(Bytes) /\ c \in Seq(Bytes) /\ d \in Seq(Bytes)
  BY PartsAre
<1>2. t \in Seq(Bytes)
  <2>1. b \o c \in Seq(Bytes) BY <1>1, Joined
  <2> QED BY <1>1, <2>1, Joined
<1>3. OnTheWay(i) = IF state[i] = "dead" THEN <<>> ELSE t BY DEF OnTheWay
<1>4. ASSUME state[i] # "dead" PROVE (a \o t) \o e = Message(i)
  <2>1. Whole(a, b, c, d, e) = Message(i) BY <1>4 DEF Balanced
  <2> HIDE DEF a, b, c, d, e
  <2>2. Whole(a, b, c, d, e) = Around(a, b, c, d, e) BY <1>1, Middle
  <2> QED BY <2>1, <2>2 DEF Around
<1> QED BY <1>1, <1>2, <1>3, <1>4

LEMMA InOrder ==
    ASSUME Ways
    PROVE  EchoedInOrder
<1> SUFFICES ASSUME NEW i \in Clients, state[i] \in {"sending", "receiving"}
             PROVE  /\ state[i] = "receiving" => buffer[i] = First(Message(i), Heard(i))
                    /\ OnTheWay(i) = SubSeq(Message(i), Heard(i) + 1, Said(i))
  BY DEF EchoedInOrder
<1> DEFINE a == Got(i)  e == Left(i)  t == OnTheWay(i)  M == Message(i)
<1>1. a \in Seq(Bytes) /\ e \in Seq(Bytes) /\ <<>> \in Seq(Bytes)
  BY EmptySeq DEF Ways
<1>2. t \in Seq(Bytes) BY DEF Ways
<1>3. M \in Seq(Bytes) /\ Len(M) = Length[i] /\ Length[i] \in Nat BY MessageType
<1>4. OnTheWay(i) = t OBVIOUS
<1>5. (a \o t) \o e = M BY DEF Ways
<1>6. CASE state[i] = "receiving"
  <2>1. a = buffer[i] /\ e = <<>> /\ Heard(i) = Len(a) /\ Said(i) = Length[i]
    BY <1>6 DEF Got, Left, Heard, Said
  <2>2. a \o t = M
    <3> DEFINE x == a \o t
    <3>1. x \in Seq(Bytes) BY <1>1, <1>2, Joined
    <3>2. x \o <<>> = M BY <1>5, <2>1
    <3> HIDE DEF x
    <3>3. x = M BY <3>1, <3>2, ConcatEmptySeq
    <3> QED BY <3>3 DEF x
  <2>3. First(M, Len(a)) = a /\ Without(M, Len(a)) = t
    <3> HIDE DEF a, t
    <3>1. First(a \o t, Len(a)) = a /\ Without(a \o t, Len(a)) = t BY <1>1, <1>2, TwoParts
    <3> QED BY <2>2, <3>1
  <2>4. SubSeq(M, Len(a) + 1, Length[i]) = t BY <1>3, <2>3 DEF Without
  <2> QED BY <1>4, <2>1, <2>3, <2>4
<1>7. CASE state[i] = "sending"
  <2>1. a = <<>> /\ e = buffer[i] /\ Heard(i) = 0 /\ Said(i) = Length[i] - Len(e)
    BY <1>7 DEF Got, Left, Heard, Said
  <2>2. t \o e = M
    <3> HIDE DEF t
    <3>1. <<>> \o t = t BY <1>2, ConcatEmptySeq
    <3> QED BY <1>5, <2>1, <3>1
  <2>3. First(M, Len(t)) = t
    <3> HIDE DEF e, t
    <3>1. First(t \o e, Len(t)) = t BY <1>1, <1>2, TwoParts
    <3> QED BY <2>2, <3>1
  <2>4. Said(i) = Len(t) /\ Heard(i) + 1 = 1
    <3> HIDE DEF e, t
    <3>1. Len(t \o e) = Len(t) + Len(e) BY <1>1, <1>2, Joined
    <3>2. Len(t) \in Nat /\ Len(e) \in Nat BY <1>1, <1>2, Lengths
    <3>3. Len(t) + Len(e) = Length[i] BY <1>3, <2>2, <3>1
    <3> QED BY <1>3, <2>1, <3>2, <3>3
  <2>5. SubSeq(M, Heard(i) + 1, Said(i)) = t BY <2>3, <2>4 DEF First
  <2> QED BY <1>4, <1>7, <2>5
<1> QED BY <1>6, <1>7

\* Each client gets back its own message, whole and in order, from both servers: a
\* piece never changes its place between what client_process_recv has put in the buffer
\* and what client_process_send has still to send.
THEOREM EchoesAreInOrder == Spec => []EchoedInOrder
<1> DEFINE Inv == IInv /\ Balanced /\ OpenWhileAlive
<1>1. Init => Inv BY InitIInv, InitBalanced
<1>2. IInv' => ServerParts' BY ServerPartsAre, PTL
<1>3. Inv /\ [Next]_vars => Inv' BY <1>2, StepIInv, StepBalances
<1>4. Inv => EchoedInOrder BY WaysAre, InOrder
<1> QED BY <1>1, <1>3, <1>4, PTL DEF Spec

----------------------------------------------------------------------------
(* The servers are an echo service *)

Pipes == [j \in Clients |-> OnTheWay(j)]
Gone  == {j \in Clients : state[j] = "dead"}

\* Nothing is heard or said by a client that a step leaves as it is.
LEMMA StaysOnItsWay ==
    ASSUME Ways, Ways', NEW i \in Clients, state'[i] = state[i], buffer'[i] = buffer[i]
    PROVE  Pipes'[i] = Pipes[i]
<1> DEFINE a == Got(i)  e == Left(i)  t == OnTheWay(i)  u == OnTheWay(i)'
<1>1. Pipes[i] = t /\ Pipes'[i] = u BY DEF Pipes
<1>2. CASE state[i] = "dead" BY <1>1, <1>2 DEF Ways
<1>3. CASE state[i] # "dead"
  <2>1. Got(i)' = a /\ Left(i)' = e BY DEF Got, Left
  <2>2. (a \o t) \o e = (a \o u) \o e BY <1>3, <2>1 DEF Ways
  <2>3. a \in Seq(Bytes) /\ e \in Seq(Bytes) /\ t \in Seq(Bytes) /\ u \in Seq(Bytes)
    BY DEF Ways
  <2> HIDE DEF a, e, t, u
  <2>4. t = u
    <3> DEFINE x == a \o t  y == a \o u
    <3>1. x \in Seq(Bytes) /\ y \in Seq(Bytes) /\ x \o e = y \o e BY <2>2, <2>3, Joined
    <3> HIDE DEF x, y
    <3>2. x = y BY <2>3, <3>1, ConcatSimplifications
    <3>3. a \o t = a \o u BY <3>2 DEF x, y
    <3> QED BY <2>3, <3>3, ConcatSimplifications
  <2> QED BY <1>1, <2>4
<1> QED BY <1>2, <1>3

\* The clients that finish leave, and nothing else happens.
LEMMA SomeLeave ==
    ASSUME Ways, Ways', NEW S \in SUBSET Clients,
           \A i \in Clients : IF i \in S THEN state'[i] = "dead"
                               ELSE state'[i] = state[i] /\ buffer'[i] = buffer[i]
    PROVE  Service!Leave(S)
<1>1. Gone' = Gone \cup S BY DEF Gone
<1>2. \A i \in S : OnTheWay(i)' = <<>> BY DEF Ways
<1>3. \A i \in Clients \ S : Pipes'[i] = Pipes[i] BY StaysOnItsWay
<1>4. Pipes' = [i \in Clients |-> IF i \in S THEN <<>> ELSE Pipes[i]] BY <1>2, <1>3 DEF Pipes
<1> QED BY <1>1, <1>4 DEF Service!Leave, Pipes, Gone

Strings == Seq(Bytes)

\* What is common to two ends is taken off.
LEMMA MovedOver ==
    \A a, b, c, d \in Strings : a \o (c \o d) = b \o d => b = a \o c
<1>0. SUFFICES ASSUME NEW a \in Seq(Bytes), NEW b \in Seq(Bytes), NEW c \in Seq(Bytes),
                    NEW d \in Seq(Bytes), a \o (c \o d) = b \o d
             PROVE  b = a \o c
  BY DEF Strings
<1> DEFINE x == a \o c
<1>1. x \in Seq(Bytes) BY Joined
<1>2. x \o d = a \o (c \o d) BY ConcatAssociative
<1> HIDE DEF x
<1>3. x \o d = b \o d BY <1>0, <1>2
<1>4. x = b BY <1>1, <1>3, ConcatSimplifications
<1> QED BY <1>4 DEF x

Saying(i, n) ==
    /\ state[i] # "dead" /\ state'[i] # "dead"
    /\ Got(i) = <<>> /\ Got(i)' = <<>>
    /\ Left(i)' = Without(Left(i), n)
    /\ \A j \in Clients : j # i => state'[j] = state[j] /\ buffer'[j] = buffer[j]

\* What client i says is added to its pipe.
LEMMA Says ==
    ASSUME Ways, Ways', NEW i \in Clients, NEW n \in 1 .. Len(Left(i)),
           Saying(i, n)
    PROVE  Service!Say(i)
<1> DEFINE e == Left(i)  t == OnTheWay(i)  u == OnTheWay(i)'
<1>1. e \in Seq(Bytes) /\ t \in Seq(Bytes) /\ u \in Seq(Bytes) BY DEF Ways
<1>2. (<<>> \o t) \o e = Message(i) /\ (<<>> \o u) \o Without(e, n) = Message(i)
  BY DEF Ways, Saying
<1> HIDE DEF e, t, u
<1>3. n \in 0 .. Len(e) /\ n > 0 /\ Len(e) \in Nat
  <2>1. Len(e) \in Nat BY <1>1, Lengths
  <2> QED BY <2>1 DEF e
<1> DEFINE p == First(e, n)  q == Without(e, n)
<1>4. p \in Seq(Bytes) /\ Len(p) = n /\ q \in Seq(Bytes) /\ p \o q = e
  BY <1>1, <1>3, Pieces, Cut
<1>5. t \o e = u \o q BY <1>1, <1>2, ConcatEmptySeq
<1> HIDE DEF p, q
<1>6. u = t \o p
  <2>1. t \o (p \o q) = u \o q BY <1>4, <1>5
  <2>2. t \in Strings /\ u \in Strings /\ p \in Strings /\ q \in Strings
    BY <1>1, <1>4 DEF Strings
  <2>3. \A b, c, d \in Strings : t \o (c \o d) = b \o d => b = t \o c BY <2>2, MovedOver
  <2>4. \A c, d \in Strings : t \o (c \o d) = u \o d => u = t \o c BY <2>2, <2>3
  <2>5. t \o (p \o q) = u \o q => u = t \o p BY <2>2, <2>4
  <2> QED BY <2>1, <2>5
<1>7. Len(u) > Len(t) /\ SubSeq(u, 1, Len(t)) = t
  <2>1. Len(u) = Len(t) + n /\ Len(t) \in Nat BY <1>1, <1>4, <1>6, Joined, Lengths
  <2>2. First(t \o p, Len(t)) = t BY <1>1, <1>4, TwoParts
  <2> QED BY <1>3, <1>6, <2>1, <2>2 DEF First
<1>8. Pipes[i] = t /\ Pipes'[i] = u BY DEF Pipes, t, u
<1>9. Pipes' = [Pipes EXCEPT ![i] = Pipes'[i]]
  <2>1. \A j \in Clients : j # i => Pipes'[j] = Pipes[j]
    BY StaysOnItsWay DEF Saying
  <2> QED BY <2>1 DEF Pipes
<1>10. i \notin Gone /\ Gone' = Gone
  <2>1. \A j \in Clients : state'[j] = "dead" <=> state[j] = "dead" BY DEF Saying
  <2> QED BY <2>1 DEF Gone, Saying
<1> QED BY <1>7, <1>8, <1>9, <1>10 DEF Service!Say, Pipes, Gone

\* What client i hears is taken from its pipe.
LEMMA Hears ==
    ASSUME Ways, Ways', NEW i \in Clients, NEW n \in 1 .. Len(OnTheWay(i)),
           state[i] # "dead", state'[i] # "dead",
           OnTheWay(i)' = Without(OnTheWay(i), n),
           \A j \in Clients : j # i => state'[j] = state[j] /\ buffer'[j] = buffer[j]
    PROVE  Service!Hear(i)
<1>1. \A j \in Clients : j # i => Pipes'[j] = Pipes[j] BY StaysOnItsWay
<1>2. Pipes' = [Pipes EXCEPT ![i] = SubSeq(@, n + 1, Len(@))]
  BY <1>1 DEF Pipes, Without
<1>3. n \in 1 .. Len(Pipes[i]) BY DEF Pipes
<1>4. i \notin Gone /\ Gone' = Gone
  <2>1. \A j \in Clients : state'[j] = "dead" <=> state[j] = "dead" OBVIOUS
  <2> QED BY <2>1 DEF Gone
<1> QED BY <1>2, <1>3, <1>4 DEF Service!Hear, Pipes, Gone

LEMMA SendServes ==
    ASSUME IInv, Ways, Ways', NEW i \in Clients, ClientSend(i)
    PROVE  Service!ServiceNext
<1>1. CASE Finish(i)
  <2>1. \A j \in Clients : IF j \in {i} THEN state'[j] = "dead"
                             ELSE state'[j] = state[j] /\ buffer'[j] = buffer[j]
    BY <1>1 DEF Finish, IInv, ClientSide, ClientsTypeOK
  <2>2. Service!Leave({i}) BY <2>1, SomeLeave
  <2> QED BY <2>2 DEF Service!ServiceNext
<1>2. CASE ~ Finish(i)
  <2>1. PICK n \in 1 .. Len(Left(i)) : Saying(i, n) BY <1>2, ClientSent DEF Saying
  <2>2. Service!Say(i) BY <2>1, Says
  <2> QED BY <2>2 DEF Service!ServiceNext
<1> QED BY <1>1, <1>2

\* What client i has received: the rest of its message, with which it begins again or
\* leaves, or less.
LEMMA ClientReceived ==
    ASSUME IInv, NEW i \in Clients, ClientReceive(i)
    PROVE  /\ state[i] = "receiving" /\ down[i] # <<>>
           /\ \A j \in Clients : j # i => state'[j] = state[j] /\ buffer'[j] = buffer[j]
           /\ \/ state'[i] = "dead"
              \/ state'[i] = "sending" /\ buffer'[i] = Message(i)
              \/ /\ state'[i] = "receiving"
                 /\ \E n \in 1 .. Len(down[i]) : buffer'[i] = buffer[i] \o First(down[i], n)
<1> USE DEF IInv, ClientSide
<1>1. PICK n \in 1 .. Least(Len(down[i]), Length[i] - Len(buffer[i])) :
          \/ /\ buffer' = [buffer EXCEPT ![i] = buffer[i] \o First(down[i], n)]
             /\ UNCHANGED state
          \/ LastRound(i) \/ NextRound(i)
  BY DEF ClientReceive
<1>2. state[i] = "receiving" /\ down[i] # <<>> BY DEF ClientReceive
<1>3. n \in 1 .. Len(down[i])
  <2>1. Len(down[i]) \in Nat /\ Len(buffer[i]) \in Nat /\ Length[i] \in Nat
    BY Lengths, SocketAssumption DEF SocketsTypeOK, ClientsTypeOK
  <2> QED BY <2>1 DEF Least
<1> QED BY <1>1, <1>2, <1>3 DEF LastRound, NextRound, ClientsTypeOK

\* The way of a client that waits for it begins with what has come down.
LEMMA DownIsFirst ==
    ASSUME IInv, NEW i \in Clients, state[i] # "dead", NEW n \in 1 .. Len(down[i])
    PROVE  n \in 1 .. Len(OnTheWay(i)) /\ First(OnTheWay(i), n) = First(down[i], n)
<1> DEFINE b == down[i]  c == InServer(i)  d == up[i]  r == c \o d
<1>1. b \in Seq(Bytes) /\ c \in Seq(Bytes) /\ d \in Seq(Bytes) BY PartsAre
<1>2. OnTheWay(i) = (b \o c) \o d BY DEF OnTheWay
<1> HIDE DEF b, c, d
<1>3. OnTheWay(i) = b \o (c \o d) BY <1>1, <1>2, ConcatAssociative
<1>4. r \in Seq(Bytes) BY <1>1, Joined
<1>5. OnTheWay(i) = b \o r BY <1>3
<1> HIDE DEF r
<1>6. Len(OnTheWay(i)) = Len(b) + Len(r) /\ Len(b) \in Nat /\ Len(r) \in Nat
  BY <1>1, <1>4, <1>5, Joined, Lengths
<1>7. n \in 1 .. Len(b) BY DEF b
<1>8. First(b \o r, n) = First(b, n)
  BY <1>1, <1>4, <1>6, <1>7, SubSeqOfConcat1 DEF First
<1> QED BY <1>5, <1>6, <1>7, <1>8 DEF b

LEMMA RestIs ==
    \A a, b, c, d \in Strings : a \o (c \o d) = (a \o c) \o b => d = b
<1>0. SUFFICES ASSUME NEW a \in Seq(Bytes), NEW b \in Seq(Bytes), NEW c \in Seq(Bytes),
                    NEW d \in Seq(Bytes), a \o (c \o d) = (a \o c) \o b
             PROVE  d = b
  BY DEF Strings
<1> DEFINE x == a \o c
<1>1. x \in Seq(Bytes) BY Joined
<1>2. x \o d = a \o (c \o d) BY ConcatAssociative
<1> HIDE DEF x
<1>3. x \o d = x \o b BY <1>0, <1>2 DEF x
<1> QED BY <1>1, <1>3, ConcatSimplifications

\* What a client receives is the start of its pipe.
LEMMA MoreHeard ==
    ASSUME IInv, Ways, Ways', NEW i \in Clients, state[i] = "receiving",
           state'[i] = "receiving", NEW n \in 1 .. Len(down[i]),
           buffer'[i] = buffer[i] \o First(down[i], n)
    PROVE  n \in 1 .. Len(OnTheWay(i)) /\ OnTheWay(i)' = Without(OnTheWay(i), n)
<1> DEFINE a == buffer[i]  t == OnTheWay(i)  u == OnTheWay(i)'  f == First(t, n)
           q == Without(t, n)
<1>1. Got(i) = a /\ Left(i) = <<>> /\ Got(i)' = buffer'[i] /\ Left(i)' = <<>>
  BY DEF Got, Left
<1>2. n \in 1 .. Len(t) /\ buffer'[i] = a \o f BY DownIsFirst
<1>3. a \in Seq(Bytes) /\ t \in Seq(Bytes) /\ u \in Seq(Bytes) BY <1>1 DEF Ways
<1>4. (a \o t) \o <<>> = ((a \o f) \o u) \o <<>> BY <1>1, <1>2 DEF Ways
<1> HIDE DEF a, t, u
<1>5. n \in 0 .. Len(t)
  <2>1. Len(t) \in Nat BY <1>3, Lengths
  <2> QED BY <1>2, <2>1
<1>6. f \in Seq(Bytes) /\ q \in Seq(Bytes) /\ f \o q = t BY <1>3, <1>5, Pieces, Cut
<1> HIDE DEF f, q
<1>7. a \o (f \o q) = (a \o f) \o u
  <2> DEFINE x == a \o t  y == (a \o f) \o u
  <2>1. y \in Seq(Bytes)
    <3>1. a \o f \in Seq(Bytes) BY <1>3, <1>6, Joined
    <3> QED BY <1>3, <3>1, Joined
  <2>2. x \in Seq(Bytes) /\ x \o <<>> = y \o <<>> BY <1>3, <1>4, Joined
  <2> HIDE DEF x, y
  <2>3. x = y BY <2>1, <2>2, ConcatEmptySeq
  <2> QED BY <1>6, <2>3 DEF x, y
<1>8. q = u
  <2>1. a \in Strings /\ f \in Strings /\ q \in Strings /\ u \in Strings
    BY <1>3, <1>6 DEF Strings
  <2>2. \A b, c, d \in Strings : a \o (c \o d) = (a \o c) \o b => d = b BY <2>1, RestIs
  <2>3. \A c, d \in Strings : a \o (c \o d) = (a \o c) \o u => d = u BY <2>1, <2>2
  <2>4. a \o (f \o q) = (a \o f) \o u => q = u BY <2>1, <2>3
  <2> QED BY <1>7, <2>4
<1> QED BY <1>2, <1>8 DEF q, t, u

\* A client that begins again has heard everything.
LEMMA AllHeard ==
    ASSUME IInv, Ways, Ways', NEW i \in Clients, state[i] = "receiving", down[i] # <<>>,
           state'[i] = "sending", buffer'[i] = Message(i)
    PROVE  /\ Len(OnTheWay(i)) \in 1 .. Len(OnTheWay(i))
           /\ OnTheWay(i)' = Without(OnTheWay(i), Len(OnTheWay(i)))
<1> DEFINE t == OnTheWay(i)  u == OnTheWay(i)'  M == Message(i)
<1>1. t \in Seq(Bytes) /\ u \in Seq(Bytes) /\ M \in Seq(Bytes) BY MessageType DEF Ways
<1>2. (<<>> \o u) \o M = M
  <2>1. Got(i)' = <<>> /\ Left(i)' = M BY DEF Got, Left
  <2> QED BY <2>1 DEF Ways
<1>3. Len(t) \in 1 .. Len(t)
  <2>1. down[i] \in Seq(Bytes) BY PartsAre
  <2>2. Len(down[i]) \in Nat /\ Len(down[i]) # 0 /\ Len(t) \in Nat BY <1>1, <2>1, Lengths
  <2>3. 1 \in 1 .. Len(down[i]) BY <2>2
  <2>4. 1 \in 1 .. Len(t) BY <2>3, DownIsFirst
  <2> QED BY <2>2, <2>4
<1> HIDE DEF t, u, M
<1>4. u = <<>>
  <2>1. u \o M = M BY <1>1, <1>2, ConcatEmptySeq
  <2>2. Len(u) + Len(M) = Len(M) /\ Len(u) \in Nat /\ Len(M) \in Nat
    BY <1>1, <2>1, Joined, Lengths
  <2>3. Len(u) = 0 BY <2>2
  <2> QED BY <1>1, <2>3, Lengths
<1>5. Without(t, Len(t)) = <<>>
  <2>1. Len(t) \in 0 .. Len(t) BY <1>3
  <2> DEFINE r == Without(t, Len(t))
  <2>2. r \in Seq(Bytes) /\ Len(r) = Len(t) - Len(t) BY <1>1, <2>1, Pieces
  <2> HIDE DEF r
  <2>3. Len(r) = 0 BY <1>3, <2>2
  <2>4. r = <<>> BY <2>2, <2>3, Lengths
  <2> QED BY <2>4 DEF r
<1> QED BY <1>3, <1>4, <1>5 DEF t, u

LEMMA ReceiveServes ==
    ASSUME IInv, Ways, Ways', NEW i \in Clients, ClientReceive(i)
    PROVE  Service!ServiceNext
<1>1. /\ state[i] = "receiving" /\ down[i] # <<>>
      /\ \A j \in Clients : j # i => state'[j] = state[j] /\ buffer'[j] = buffer[j]
  BY ClientReceived
<1>2. CASE state'[i] = "dead"
  <2>1. \A j \in Clients : IF j \in {i} THEN state'[j] = "dead"
                             ELSE state'[j] = state[j] /\ buffer'[j] = buffer[j]
    BY <1>1, <1>2
  <2>2. Service!Leave({i}) BY <2>1, SomeLeave
  <2> QED BY <2>2 DEF Service!ServiceNext
<1>3. CASE state'[i] = "sending" /\ buffer'[i] = Message(i)
  <2>1. Service!Hear(i) BY <1>1, <1>3, AllHeard, Hears
  <2> QED BY <2>1 DEF Service!ServiceNext
<1>4. ASSUME state'[i] = "receiving", NEW n \in 1 .. Len(down[i]),
             buffer'[i] = buffer[i] \o First(down[i], n)
      PROVE  Service!ServiceNext
  <2>1. n \in 1 .. Len(OnTheWay(i)) /\ OnTheWay(i)' = Without(OnTheWay(i), n)
    BY <1>1, <1>4, MoreHeard
  <2>2. Service!Hear(i) BY <1>1, <1>4, <2>1, Hears
  <2> QED BY <2>2 DEF Service!ServiceNext
<1> QED BY <1>2, <1>3, <1>4, ClientReceived

\* A step that is no client's leaves all pipes as they are.
LEMMA NobodyServed ==
    ASSUME Ways, Ways', UNCHANGED <<state, buffer>>
    PROVE  UNCHANGED Service!serviceVars
<1>1. \A i \in Clients : Pipes'[i] = Pipes[i] BY StaysOnItsWay
<1>2. Pipes' = Pipes BY <1>1 DEF Pipes
<1>3. Gone' = Gone BY DEF Gone
<1> QED BY <1>2, <1>3 DEF Service!serviceVars, Pipes, Gone

LEMMA StepServes ==
    ASSUME IInv, Ways, Ways', [Next]_vars
    PROVE  [Service!ServiceNext]_(Service!serviceVars)
<1>1. CASE OpenConnection
  <2>1. ClientsTypeOK BY DEF IInv, ClientSide
  <2>2. CASE UNCHANGED state BY <1>1, <2>2, NobodyServed DEF OpenConnection
  <2>3. CASE state' = [state EXCEPT ![nextToOpen] = "dead"]
    <3>1. PICK i \in Clients : i = nextToOpen BY <1>1 DEF OpenConnection
    <3>2. \A j \in Clients : IF j \in {i} THEN state'[j] = "dead"
                               ELSE state'[j] = state[j] /\ buffer'[j] = buffer[j]
      BY <1>1, <2>1, <2>3, <3>1 DEF OpenConnection, ClientsTypeOK
    <3>3. Service!Leave({i}) BY <3>2, SomeLeave
    <3> QED BY <3>3 DEF Service!ServiceNext
  <2> QED BY <1>1, <2>2, <2>3 DEF OpenConnection
<1>2. CASE AllOpened \/ ClientSelect BY <1>2, NobodyServed DEF AllOpened, ClientSelect
<1>3. CASE Killed
  <2>1. \A j \in Clients : state'[j] = "dead" BY <1>3 DEF Killed
  <2>2. Service!Leave(Clients) BY <2>1, SomeLeave
  <2> QED BY <2>2 DEF Service!ServiceNext
<1>4. ASSUME NEW i \in Clients, ClientSend(i) \/ ClientReceive(i) \/ ClientLost(i)
      PROVE  Service!ServiceNext
  <2>1. CASE ClientLost(i)
    <3>1. \A j \in Clients : IF j \in {i} THEN state'[j] = "dead"
                               ELSE state'[j] = state[j] /\ buffer'[j] = buffer[j]
      BY <2>1 DEF ClientLost, Finish, IInv, ClientSide, ClientsTypeOK
    <3>2. Service!Leave({i}) BY <3>1, SomeLeave
    <3> QED BY <3>2 DEF Service!ServiceNext
  <2> QED BY <1>4, <2>1, SendServes, ReceiveServes
<1>5. CASE Network BY <1>5, NobodyServed DEF Network, clientVars
<1>6. CASE ServerStep
  <2>1. UNCHANGED <<state, buffer>>
    BY <1>6 DEF ServerStep, IterativeAccept, IterativeReceive, IterativeSend, Select,
                SelectAccept, PassEnds, ServeReceive, ServeSend, ServeNothing, clientVars
  <2> QED BY <2>1, NobodyServed
<1>7. CASE UNCHANGED vars BY <1>7, NobodyServed DEF vars, clientVars
<1> QED BY <1>1, <1>2, <1>3, <1>4, <1>5, <1>6, <1>7 DEF Next, ClientStep

LEMMA ServiceStarts == ASSUME Init PROVE Service!ServiceInit
<1>1. \A i \in Clients : OnTheWay(i) = <<>>
  <2> SUFFICES ASSUME NEW i \in Clients PROVE OnTheWay(i) = <<>> OBVIOUS
  <2>1. down[i] = <<>> /\ up[i] = <<>> BY DEF Init, SocketInit
  <2>2. InServer(i) = <<>>
    <3>1. DOMAIN connections = {} BY DEF Init, ServerInit
    <3> QED BY <3>1 DEF InServer, HeldFor
  <2>3. <<>> \o <<>> = <<>> BY EmptySeq, ConcatEmptySeq
  <2> QED BY <2>1, <2>2, <2>3 DEF OnTheWay
<1>2. {i \in Clients : state[i] = "dead"} = {} BY DEF Init, ClientInit
<1> QED BY <1>1, <1>2 DEF Service!ServiceInit

\* Both servers with the emulated clients do what an echo server promises: they lose,
\* add, exchange and reorder nothing, for any sizes and any number of clients.
THEOREM ServersAreEchoService == Spec => ImplementsService
<1> DEFINE Inv == IInv /\ Balanced /\ OpenWhileAlive
<1>1. Init => Inv /\ Service!ServiceInit BY InitIInv, InitBalanced, ServiceStarts
<1>2. IInv' => ServerParts' BY ServerPartsAre, PTL
<1>3. Inv /\ [Next]_vars => Inv' BY <1>2, StepIInv, StepBalances
<1>4. (IInv /\ Balanced)' => Ways' BY WaysAre, PTL
<1>5. Inv /\ [Next]_vars => [Service!ServiceNext]_(Service!serviceVars)
  BY <1>3, <1>4, WaysAre, StepServes
<1> QED BY <1>1, <1>3, <1>5, PTL DEF Spec, ImplementsService, Service!ServiceSpec

=============================================================================
