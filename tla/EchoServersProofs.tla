-------------------------- MODULE EchoServersProofs --------------------------
(***************************************************************************)
(* No connection is mistaken for another or cut off by either server,       *)
(* whatever the number of clients and descriptors and the sizes of messages *)
(* and buffers.                                                             *)
(***************************************************************************)
EXTENDS EchoServers, SequenceTheorems, TLAPS

----------------------------------------------------------------------------
(* Sequences *)

LEMMA Lengths ==
    ASSUME NEW S, NEW s \in Seq(S)
    PROVE  /\ Len(s) \in Nat /\ DOMAIN s = 1 .. Len(s)
           /\ s = <<>> <=> Len(s) = 0
           /\ \A k \in 1 .. Len(s) : s[k] \in S
BY LenProperties, EmptySeq, ElementOfSeq

\* What a partial send or receive of n bytes takes, and what it leaves.
LEMMA Pieces ==
    ASSUME NEW S, NEW s \in Seq(S), NEW n \in 0 .. Len(s)
    PROVE  /\ First(s, n) \in Seq(S) /\ Len(First(s, n)) = n
           /\ Without(s, n) \in Seq(S) /\ Len(Without(s, n)) = Len(s) - n
<1>1. \A k \in 1 .. Len(s) : s[k] \in S BY Lengths
<1>2. Len(s) \in Nat BY Lengths
<1>3. First(s, n) \in Seq(S) /\ Len(First(s, n)) = n
  BY <1>1, <1>2, SubSeqProperties DEF First
<1>4. Without(s, n) \in Seq(S) /\ Len(Without(s, n)) = Len(s) - n
  BY <1>1, <1>2, SubSeqProperties DEF Without
<1> QED BY <1>3, <1>4

LEMMA Joined ==
    ASSUME NEW S, NEW a \in Seq(S), NEW b \in Seq(S)
    PROVE  a \o b \in Seq(S) /\ Len(a \o b) = Len(a) + Len(b)
BY ConcatProperties

\* A connection is erased from the list.
LEMMA Erased ==
    ASSUME NEW S, NEW s \in Seq(S), NEW k \in 1 .. Len(s)
    PROVE  /\ RemoveAt(s, k) \in Seq(S)
           /\ Len(RemoveAt(s, k)) = Len(s) - 1
           /\ \A j \in 1 .. Len(s) - 1 : RemoveAt(s, k)[j] = s[IF j < k THEN j ELSE j + 1]
<1> DEFINE a == SubSeq(s, 1, k - 1)  b == SubSeq(s, k + 1, Len(s))
<1>0. Len(s) \in Nat /\ \A i \in 1 .. Len(s) : s[i] \in S BY Lengths
<1>1. a \in Seq(S) /\ Len(a) = k - 1 /\ \A i \in 1 .. k - 1 : a[i] = s[i]
  BY <1>0, SubSeqProperties
<1>2. b \in Seq(S) /\ Len(b) = Len(s) - k /\ \A i \in 1 .. Len(s) - k : b[i] = s[k + i]
  BY <1>0, SubSeqProperties
<1>3. RemoveAt(s, k) = a \o b BY DEF RemoveAt
<1> HIDE DEF a, b
<1>4. /\ a \o b \in Seq(S) /\ Len(a \o b) = Len(a) + Len(b)
      /\ \A j \in 1 .. Len(a) + Len(b) :
             (a \o b)[j] = IF j <= Len(a) THEN a[j] ELSE b[j - Len(a)]
  BY <1>1, <1>2, ConcatProperties
<1>5. Len(a) + Len(b) = Len(s) - 1 BY <1>0, <1>1, <1>2
<1>6. ASSUME NEW j \in 1 .. Len(s) - 1
      PROVE  (a \o b)[j] = s[IF j < k THEN j ELSE j + 1]
  <2>1. (a \o b)[j] = IF j <= Len(a) THEN a[j] ELSE b[j - Len(a)] BY <1>4, <1>5
  <2>2. CASE j < k BY <1>0, <1>1, <2>1, <2>2
  <2>3. CASE j >= k
    <3>1. j - Len(a) \in 1 .. Len(s) - k /\ k + (j - Len(a)) = j + 1 /\ ~ (j <= Len(a))
      BY <1>0, <1>1, <2>3
    <3>2. b[j - Len(a)] = s[k + (j - Len(a))] BY <1>2, <3>1
    <3>3. b[j - Len(a)] = s[j + 1] BY <3>1, <3>2
    <3>4. ~ (j < k) BY <1>0, <2>3
    <3> QED BY <2>1, <3>1, <3>3, <3>4
  <2>4. j < k \/ j >= k BY <1>0
  <2> QED BY <2>2, <2>3, <2>4
<1> QED BY <1>3, <1>4, <1>5, <1>6

\* A connection is added at the end.
LEMMA Appended ==
    ASSUME NEW S, NEW s \in Seq(S), NEW e \in S
    PROVE  /\ Append(s, e) \in Seq(S) /\ Len(Append(s, e)) = Len(s) + 1
           /\ \A j \in 1 .. Len(s) : Append(s, e)[j] = s[j]
           /\ Append(s, e)[Len(s) + 1] = e
BY AppendProperties

LEMMA HeadAndTail ==
    ASSUME NEW S, NEW s \in Seq(S), s # <<>>
    PROVE  /\ Head(s) = s[1] /\ s[1] \in S
           /\ Tail(s) \in Seq(S) /\ Len(Tail(s)) = Len(s) - 1
           /\ \A j \in 1 .. Len(s) - 1 : Tail(s)[j] = s[j + 1]
<1>1. Len(s) \in Nat /\ Len(s) # 0 /\ \A k \in 1 .. Len(s) : s[k] \in S BY Lengths
<1> QED BY <1>1, HeadTailProperties

LEMMA Replaced ==
    ASSUME NEW S, NEW s \in Seq(S), NEW k \in 1 .. Len(s), NEW e \in S
    PROVE  /\ [s EXCEPT ![k] = e] \in Seq(S)
           /\ Len([s EXCEPT ![k] = e]) = Len(s)
           /\ \A j \in 1 .. Len(s) : [s EXCEPT ![k] = e][j] = IF j = k THEN e ELSE s[j]
BY ExceptSeq

LEMMA MessageType ==
    ASSUME NEW i \in Clients
    PROVE  /\ Message(i) \in Seq(Bytes) /\ Len(Message(i)) = Length[i]
           /\ Length[i] \in Nat \ {0}
<1>1. Length[i] \in Nat \ {0} BY SocketAssumption
<1>2. Message(i) \in [1 .. Length[i] -> Bytes] BY <1>1 DEF Message, Bytes
<1> QED BY <1>1, <1>2

----------------------------------------------------------------------------
(* The clients' steps *)

ClientSide == SocketsTypeOK /\ ClientsTypeOK

\* What every step of the clients leaves as it is, or moves one way only.
OneWay ==
    /\ UNCHANGED <<serverVars, listening, serverEnd>>
    /\ \A i \in Clients :
           /\ \/ link'[i] = link[i]
              \/ link[i] = "none" /\ link'[i] = "handshake"
              \/ link[i] = "handshake" /\ link'[i] = "failed"
           /\ clientEnd[i] # "open" => clientEnd'[i] # "open"
           /\ ServerReadable(i) => ServerReadable(i)'
           /\ ServerWritable(i) => ServerWritable(i)'

NothingLinked == cpc = "opening" => \A i \in Clients : i >= nextToOpen => link[i] = "none"

LEMMA ClientOpens ==
    ASSUME ClientSide, NothingLinked, OpenConnection, UNCHANGED serverVars
    PROVE  ClientSide' /\ OneWay /\ NothingLinked'
<1> USE DEF ClientSide, SocketsTypeOK, ClientsTypeOK, OpenConnection
<1>1. nextToOpen \in Clients /\ nextToOpen \in Nat BY DEF Clients
<1>2. link[nextToOpen] = "none" BY <1>1 DEF NothingLinked
<1>3. SocketsTypeOK'
  <2>1. link' \in [Clients -> {"none", "handshake", "established", "failed"}] BY <1>1
  <2> QED BY <2>1
<1>4. ClientsTypeOK'
  <2>1. state' \in [Clients -> {"connecting", "sending", "receiving", "dead"}] BY <1>1
  <2>2. nextToOpen' \in Nat BY <1>1
  <2>3. \A i \in Clients : state'[i] = "receiving" => state[i] = "receiving" BY <1>1
  <2> QED BY <2>1, <2>2, <2>3
<1>5. OneWay BY <1>1, <1>2 DEF OneWay, ServerReadable, ServerWritable
<1>6. NothingLinked'
  <2>1. \A i \in Clients : i >= nextToOpen + 1 => i >= nextToOpen /\ i # nextToOpen
    BY <1>1, SocketAssumption DEF Clients
  <2> QED BY <2>1, <1>1 DEF NothingLinked
<1> QED BY <1>3, <1>4, <1>5, <1>6 DEF ClientSide

LEMMA ClientWaits ==
    ASSUME ClientSide, NothingLinked, AllOpened \/ ClientSelect, UNCHANGED serverVars
    PROVE  ClientSide' /\ OneWay /\ NothingLinked'
<1> USE DEF ClientSide, SocketsTypeOK, ClientsTypeOK, socketVars
<1>1. CASE AllOpened
  BY <1>1 DEF AllOpened, Loop, OneWay, ServerReadable, ServerWritable, NothingLinked
<1>2. CASE ClientSelect
  BY <1>2 DEF ClientSelect, OneWay, ServerReadable, ServerWritable, NothingLinked
<1> QED BY <1>1, <1>2

\* Closing, for whatever reason, and the kernel's part in it.
LEMMA ClosingIsOneWay ==
    ASSUME SocketsTypeOK, NEW S \in SUBSET Clients, ClientsClose(S),
           UNCHANGED <<serverVars, listening, serverEnd>>
    PROVE  SocketsTypeOK' /\ OneWay
<1>1. link' \in [Clients -> {"none", "handshake", "established", "failed"}]
  BY DEF SocketsTypeOK, ClientsClose
<1>2. up' \in [Clients -> Seq(Bytes)] /\ down' \in [Clients -> Seq(Bytes)]
  BY EmptySeq DEF SocketsTypeOK, ClientsClose
<1>3. clientEnd' \in [Clients -> {"open", "closed", "reset"}]
  BY DEF SocketsTypeOK, ClientsClose
<1>4. ASSUME NEW i \in Clients PROVE Len(up'[i]) <= UpSpace /\ Len(down'[i]) <= DownSpace
  <2>1. Len(<<>>) = 0 /\ UpSpace \in Nat /\ DownSpace \in Nat BY EmptySeq, SocketAssumption
  <2>2. up'[i] \in {<<>>, up[i]} /\ down'[i] \in {<<>>, down[i]}
    BY DEF ClientsClose
  <2> QED BY <2>1, <2>2 DEF SocketsTypeOK
<1>5. SocketsTypeOK' BY <1>1, <1>2, <1>3, <1>4 DEF SocketsTypeOK
<1>6. ASSUME NEW i \in Clients
      PROVE  /\ link'[i] = link[i] \/ (link[i] = "handshake" /\ link'[i] = "failed")
             /\ clientEnd[i] # "open" => clientEnd'[i] # "open"
             /\ ServerReadable(i) => ServerReadable(i)'
             /\ ServerWritable(i) => ServerWritable(i)'
  <2>1. link'[i] = link[i] \/ (link[i] = "handshake" /\ link'[i] = "failed") BY DEF ClientsClose
  <2>2. CASE i \in S
    <3>1. clientEnd'[i] # "open" BY <2>2 DEF ClientsClose
    <3> QED BY <2>1, <3>1 DEF ServerReadable, ServerWritable
  <2>3. CASE i \notin S
    <3>1. up'[i] = up[i] /\ down'[i] = down[i] /\ clientEnd'[i] = clientEnd[i]
      BY <2>3 DEF ClientsClose
    <3> QED BY <2>1, <3>1 DEF ServerReadable, ServerWritable
  <2> QED BY <2>2, <2>3
<1> QED BY <1>5, <1>6 DEF OneWay

LEMMA ClientFinishes ==
    ASSUME ClientSide, NothingLinked, NEW i \in Clients, Turn(i), Finish(i),
           UNCHANGED serverVars
    PROVE  ClientSide' /\ OneWay /\ NothingLinked'
<1>1. {i} \in SUBSET Clients /\ SocketsTypeOK /\ ClientsTypeOK BY DEF ClientSide
<1>2. SocketsTypeOK' /\ OneWay BY <1>1, ClosingIsOneWay DEF Finish
<1>3. state' \in [Clients -> {"connecting", "sending", "receiving", "dead"}]
  BY <1>1 DEF Finish, ClientsTypeOK
<1>4. buffer' \in [Clients -> Seq(Bytes)] BY <1>1, EmptySeq DEF Finish, ClientsTypeOK
<1>5. ASSUME NEW j \in Clients, state'[j] = "receiving" PROVE Len(buffer'[j]) < Length[j]
  <2>1. j # i BY <1>1, <1>5 DEF Finish, ClientsTypeOK
  <2> QED BY <1>1, <1>5, <2>1 DEF Finish, ClientsTypeOK
<1>6. /\ cpc' \in {"select", "events", "done"} /\ nextToOpen' = nextToOpen
      /\ events' \subseteq Clients /\ repeatsLeft' = repeatsLeft
  BY <1>1 DEF Finish, Handled, Loop, ClientsTypeOK
<1>7. ClientsTypeOK' BY <1>1, <1>3, <1>4, <1>5, <1>6 DEF ClientsTypeOK
<1>8. NothingLinked' BY <1>6 DEF NothingLinked
<1> QED BY <1>2, <1>7, <1>8 DEF ClientSide

LEMMA KillingIsOneWay ==
    ASSUME ClientSide, Killed, UNCHANGED serverVars
    PROVE  ClientSide' /\ OneWay /\ NothingLinked'
<1>1. {i \in Alive : link[i] # "none"} \in SUBSET Clients /\ SocketsTypeOK /\ ClientsTypeOK
  BY DEF ClientSide, Alive
<1>2. SocketsTypeOK' /\ OneWay BY <1>1, ClosingIsOneWay DEF Killed
<1>3. ClientsTypeOK'
  <2>1. buffer' \in [Clients -> Seq(Bytes)] BY EmptySeq DEF Killed
  <2> QED BY <1>1, <2>1 DEF Killed, ClientsTypeOK
<1>4. NothingLinked' BY DEF Killed, NothingLinked
<1> QED BY <1>2, <1>3, <1>4 DEF ClientSide

LEMMA ClientSends ==
    ASSUME ClientSide, NothingLinked, NEW i \in Clients, ClientSend(i), UNCHANGED serverVars
    PROVE  ClientSide' /\ OneWay /\ NothingLinked'
<1> DEFINE rest == IF state[i] = "connecting" THEN Message(i) ELSE buffer[i]
           room == UpSpace - Len(up[i])
<1>1. Turn(i) /\ SocketsTypeOK /\ ClientsTypeOK BY DEF ClientSend, ClientSide
<1>2. CASE link[i] = "failed" \/ serverEnd[i] = "closed" \/ room = 0
  <2>1. Finish(i) BY <1>2 DEF ClientSend
  <2> QED BY <1>1, <2>1, ClientFinishes
<1>3. CASE ~ (link[i] = "failed" \/ serverEnd[i] = "closed" \/ room = 0)
  <2>1. /\ \E n \in 1 .. Least(Len(rest), room) :
               /\ up' = [up EXCEPT ![i] = @ \o First(rest, n)]
               /\ Sent(i, rest, n)
        /\ Handled(i, {})
        /\ UNCHANGED <<repeatsLeft, link, listening, down, clientEnd, serverEnd>>
    BY <1>3 DEF ClientSend
  <2>2. PICK n \in 1 .. Least(Len(rest), room) :
               up' = [up EXCEPT ![i] = @ \o First(rest, n)] /\ Sent(i, rest, n)
    BY <2>1
  <2>3. rest \in Seq(Bytes) /\ Len(rest) \in Nat
    <3>1. rest \in Seq(Bytes) BY <1>1, MessageType DEF ClientsTypeOK
    <3> HIDE DEF rest
    <3> QED BY <3>1, Lengths
  <2>4. up[i] \in Seq(Bytes) /\ Len(up[i]) \in Nat /\ UpSpace \in Nat
    <3>1. up[i] \in Seq(Bytes) BY <1>1 DEF SocketsTypeOK
    <3> QED BY <3>1, Lengths, SocketAssumption
  <2> HIDE DEF rest
  <2>5. n \in 1 .. Len(rest) /\ Len(up[i]) + n <= UpSpace
    BY <2>3, <2>4 DEF Least
  <2>6. /\ First(rest, n) \in Seq(Bytes) /\ Len(First(rest, n)) = n
        /\ Without(rest, n) \in Seq(Bytes)
    BY <2>3, <2>5, Pieces
  <2>7. /\ up[i] \o First(rest, n) \in Seq(Bytes)
        /\ Len(up[i] \o First(rest, n)) = Len(up[i]) + n
    BY <2>4, <2>6, Joined
  <2>8. SocketsTypeOK'
    <3>1. up' \in [Clients -> Seq(Bytes)] BY <1>1, <2>2, <2>7 DEF SocketsTypeOK
    <3>2. \A j \in Clients : Len(up'[j]) <= UpSpace
      BY <1>1, <2>2, <2>5, <2>7 DEF SocketsTypeOK
    <3> QED BY <1>1, <2>1, <3>1, <3>2 DEF SocketsTypeOK
  <2>9. ClientsTypeOK'
    <3>1. state' \in [Clients -> {"connecting", "sending", "receiving", "dead"}]
      BY <1>1, <2>2 DEF ClientsTypeOK, Sent
    <3>2. buffer' \in [Clients -> Seq(Bytes)] BY <1>1, <2>2, <2>6 DEF ClientsTypeOK, Sent
    <3>3. ASSUME NEW j \in Clients, state'[j] = "receiving" PROVE Len(buffer'[j]) < Length[j]
      <4>1. CASE j = i
        <5>1. n = Len(rest) /\ buffer'[i] = Without(rest, n)
          BY <1>1, <2>2, <3>3, <4>1 DEF ClientsTypeOK, Sent
        <5>2. Len(Without(rest, n)) = Len(rest) - n BY <2>3, <2>5, Pieces
        <5>3. Len(Without(rest, n)) = 0 BY <2>3, <5>1, <5>2
        <5> QED BY <4>1, <5>1, <5>3, MessageType
      <4>2. CASE j # i BY <1>1, <2>2, <3>3, <4>2 DEF ClientsTypeOK, Sent
      <4> QED BY <4>1, <4>2
    <3>4. /\ cpc' \in {"select", "events", "done"} /\ nextToOpen' = nextToOpen
          /\ events' \subseteq Clients /\ repeatsLeft' = repeatsLeft
      BY <1>1, <2>1 DEF Handled, Loop, ClientsTypeOK
    <3> QED BY <1>1, <3>1, <3>2, <3>3, <3>4 DEF ClientsTypeOK
  <2>10. OneWay
    <3>1. up'[i] # <<>> BY <1>1, <2>2, <2>4, <2>5, <2>7, EmptySeq DEF SocketsTypeOK
    <3>2. \A j \in Clients : j # i => up'[j] = up[j] BY <2>2
    <3> QED BY <2>1, <3>1, <3>2 DEF OneWay, ServerReadable, ServerWritable
  <2>11. NothingLinked' BY <1>1, <2>1 DEF NothingLinked, Handled, Turn, Loop
  <2> QED BY <2>8, <2>9, <2>10, <2>11 DEF ClientSide
<1> QED BY <1>2, <1>3

LEMMA ClientReceives ==
    ASSUME ClientSide, NothingLinked, NEW i \in Clients, ClientReceive(i), UNCHANGED serverVars
    PROVE  ClientSide' /\ OneWay /\ NothingLinked'
<1>1. Turn(i) /\ SocketsTypeOK /\ ClientsTypeOK /\ state[i] = "receiving"
  BY DEF ClientReceive, ClientSide
<1>2. PICK n \in 1 .. Least(Len(down[i]), Length[i] - Len(buffer[i])) :
           LET all  == buffer[i] \o First(down[i], n)
               rest == [down EXCEPT ![i] = Without(@, n)]
               last == Len(all) = Length[i] /\ repeatsLeft[i] = 0
           IN  /\ IF Len(all) < Length[i]
                  THEN /\ buffer' = [buffer EXCEPT ![i] = all]
                       /\ UNCHANGED <<state, repeatsLeft>>
                  ELSE IF last THEN LastRound(i) ELSE NextRound(i)
               /\ IF last
                  THEN /\ clientEnd' = [clientEnd EXCEPT ![i] =
                                            IF rest[i] = <<>> THEN "closed" ELSE "reset"]
                       /\ down' = [down EXCEPT ![i] = <<>>]
                       /\ up' = IF rest[i] = <<>> THEN up ELSE [up EXCEPT ![i] = <<>>]
                  ELSE /\ down' = rest
                       /\ UNCHANGED <<up, clientEnd>>
               /\ Handled(i, IF last THEN {i} ELSE {})
  BY DEF ClientReceive
<1> DEFINE all  == buffer[i] \o First(down[i], n)
           rest == [down EXCEPT ![i] = Without(@, n)]
           last == Len(all) = Length[i] /\ repeatsLeft[i] = 0
<1>3. /\ down[i] \in Seq(Bytes) /\ Len(down[i]) \in Nat /\ Len(down[i]) <= DownSpace
      /\ buffer[i] \in Seq(Bytes) /\ Len(buffer[i]) \in Nat
      /\ Len(buffer[i]) < Length[i] /\ Length[i] \in Nat
      /\ UpSpace \in Nat /\ DownSpace \in Nat
  <2>1. down[i] \in Seq(Bytes) /\ Len(down[i]) <= DownSpace BY <1>1 DEF SocketsTypeOK
  <2>2. buffer[i] \in Seq(Bytes) /\ Len(buffer[i]) < Length[i] BY <1>1 DEF ClientsTypeOK
  <2>3. Len(down[i]) \in Nat /\ Len(buffer[i]) \in Nat BY <2>1, <2>2, Lengths
  <2> QED BY <2>1, <2>2, <2>3, MessageType, SocketAssumption
<1>4. n \in 1 .. Len(down[i]) /\ Len(buffer[i]) + n <= Length[i] BY <1>3 DEF Least
<1>5. /\ First(down[i], n) \in Seq(Bytes) /\ Len(First(down[i], n)) = n
      /\ Without(down[i], n) \in Seq(Bytes) /\ Len(Without(down[i], n)) = Len(down[i]) - n
  <2>1. n \in 0 .. Len(down[i]) BY <1>3, <1>4
  <2> QED BY <1>3, <2>1, Pieces
<1>6. all \in Seq(Bytes) /\ Len(all) \in Nat /\ Len(all) <= Length[i]
  <2>1. all \in Seq(Bytes) /\ Len(all) = Len(buffer[i]) + n BY <1>3, <1>5, Joined
  <2> HIDE DEF all
  <2> QED BY <1>3, <1>4, <2>1
<1>7. IF Len(all) < Length[i]
      THEN buffer' = [buffer EXCEPT ![i] = all] /\ UNCHANGED <<state, repeatsLeft>>
      ELSE IF last THEN LastRound(i) ELSE NextRound(i)
  BY <1>2
<1>8. IF last
      THEN /\ clientEnd' = [clientEnd EXCEPT ![i] = IF rest[i] = <<>> THEN "closed" ELSE "reset"]
           /\ down' = [down EXCEPT ![i] = <<>>]
           /\ up' = IF rest[i] = <<>> THEN up ELSE [up EXCEPT ![i] = <<>>]
      ELSE down' = rest /\ UNCHANGED <<up, clientEnd>>
  BY <1>2
<1>9. /\ UNCHANGED <<link, listening, serverEnd>>
      /\ cpc' \in {"select", "events", "done"} /\ nextToOpen' = nextToOpen
      /\ events' \subseteq Clients
  BY <1>1, <1>2 DEF ClientReceive, Handled, Loop, ClientsTypeOK
<1>10. rest \in [Clients -> Seq(Bytes)] /\ Len(rest[i]) <= Len(down[i])
  BY <1>1, <1>3, <1>4, <1>5 DEF SocketsTypeOK
<1>11. \A j \in Clients : j # i => rest[j] = down[j] OBVIOUS
<1>12. Len(<<>>) = 0 /\ <<>> \in Seq(Bytes) BY EmptySeq
<1> HIDE DEF all, rest
<1>13. /\ down' \in [Clients -> Seq(Bytes)] /\ up' \in [Clients -> Seq(Bytes)]
       /\ clientEnd' \in [Clients -> {"open", "closed", "reset"}]
       /\ \A j \in Clients : j # i => /\ down'[j] = down[j] /\ up'[j] = up[j]
                                      /\ clientEnd'[j] = clientEnd[j]
       /\ up'[i] \in {<<>>, up[i]} /\ Len(down'[i]) <= Len(down[i])
       /\ UNCHANGED <<up, clientEnd>> \/ clientEnd'[i] # "open"
  <2>1. CASE last
    <3>1. clientEnd' = [clientEnd EXCEPT ![i] = IF rest[i] = <<>> THEN "closed" ELSE "reset"]
      BY <1>8, <2>1
    <3>2. down' = [down EXCEPT ![i] = <<>>] BY <1>8, <2>1
    <3>3. up' = up \/ up' = [up EXCEPT ![i] = <<>>] BY <1>8, <2>1
    <3>4. down' \in [Clients -> Seq(Bytes)] /\ down'[i] = <<>>
      BY <1>1, <1>12, <3>2 DEF SocketsTypeOK
    <3>5. up' \in [Clients -> Seq(Bytes)] /\ up'[i] \in {<<>>, up[i]}
      BY <1>1, <1>12, <3>3 DEF SocketsTypeOK
    <3>6. clientEnd' \in [Clients -> {"open", "closed", "reset"}] /\ clientEnd'[i] # "open"
      BY <1>1, <3>1 DEF SocketsTypeOK
    <3>7. Len(down'[i]) <= Len(down[i]) BY <1>3, <1>12, <3>4
    <3> QED BY <3>1, <3>2, <3>3, <3>4, <3>5, <3>6, <3>7
  <2>2. CASE ~ last
    <3>1. down' = rest /\ up' = up /\ clientEnd' = clientEnd BY <1>8, <2>2
    <3> QED BY <1>1, <1>10, <1>11, <3>1 DEF SocketsTypeOK
  <2> QED BY <2>1, <2>2
<1>14. SocketsTypeOK'
  <2>1. \A j \in Clients : Len(up'[j]) <= UpSpace BY <1>1, <1>3, <1>12, <1>13 DEF SocketsTypeOK
  <2>2. \A j \in Clients : Len(down'[j]) <= DownSpace
    <3>1. Len(down'[i]) \in Nat BY <1>13, Lengths
    <3>2. Len(down'[i]) <= DownSpace BY <1>3, <1>13, <3>1
    <3> QED BY <1>1, <1>13, <3>2 DEF SocketsTypeOK
  <2> QED BY <1>1, <1>9, <1>13, <2>1, <2>2 DEF SocketsTypeOK
<1>15. /\ state' \in [Clients -> {"connecting", "sending", "receiving", "dead"}]
       /\ buffer' \in [Clients -> Seq(Bytes)]
       /\ repeatsLeft' \in [Clients -> 0 .. Repeats - 1]
       /\ \A j \in Clients : state'[j] = "receiving" => Len(buffer'[j]) < Length[j]
  <2>1. CASE Len(all) < Length[i] BY <1>1, <1>6, <1>7, <2>1 DEF ClientsTypeOK
  <2>2. CASE ~ (Len(all) < Length[i]) /\ last
    <3>1. LastRound(i) BY <1>7, <2>2
    <3>2. buffer' \in [Clients -> Seq(Bytes)] BY <1>1, <1>12, <3>1 DEF ClientsTypeOK, LastRound
    <3> QED BY <1>1, <3>1, <3>2 DEF ClientsTypeOK, LastRound
  <2>3. CASE ~ (Len(all) < Length[i]) /\ ~ last
    <3>1. NextRound(i) BY <1>7, <2>3
    <3>2. Len(all) = Length[i] BY <1>3, <1>6, <2>3
    <3>3. repeatsLeft[i] # 0 BY <2>3, <3>2
    <3>4. buffer' \in [Clients -> Seq(Bytes)]
      BY <1>1, <3>1, MessageType DEF ClientsTypeOK, NextRound
    <3>5. repeatsLeft' \in [Clients -> 0 .. Repeats - 1]
      BY <1>1, <3>1, <3>3, RepeatsAssumption DEF ClientsTypeOK, NextRound
    <3> QED BY <1>1, <3>1, <3>4, <3>5 DEF ClientsTypeOK, NextRound
  <2> QED BY <2>1, <2>2, <2>3
<1>16. ClientsTypeOK' BY <1>1, <1>9, <1>15 DEF ClientsTypeOK
<1>17. OneWay
  <2>1. ASSUME NEW j \in Clients
        PROVE  /\ clientEnd[j] # "open" => clientEnd'[j] # "open"
               /\ ServerReadable(j) => ServerReadable(j)'
               /\ ServerWritable(j) => ServerWritable(j)'
    <3>1. CASE j # i BY <1>13, <3>1 DEF ServerReadable, ServerWritable
    <3>2. CASE j = i
      <4>1. Len(down'[i]) \in Nat BY <1>13, Lengths
      <4> QED BY <1>3, <1>13, <3>2, <4>1 DEF ServerReadable, ServerWritable
    <3> QED BY <3>1, <3>2
  <2> QED BY <1>9, <2>1 DEF OneWay
<1>18. NothingLinked' BY <1>9 DEF NothingLinked
<1> QED BY <1>14, <1>16, <1>17, <1>18 DEF ClientSide

LEMMA ClientsMove ==
    ASSUME ClientSide, NothingLinked, ClientStep \/ Killed, UNCHANGED serverVars
    PROVE  ClientSide' /\ OneWay /\ NothingLinked'
<1>1. ASSUME NEW i \in Clients, ClientLost(i) PROVE ClientSide' /\ OneWay /\ NothingLinked'
  BY <1>1, ClientFinishes DEF ClientLost
<1> QED BY <1>1, ClientOpens, ClientWaits, ClientSends, ClientReceives, KillingIsOneWay
        DEF ClientStep

----------------------------------------------------------------------------
(* The inductive invariant *)

\* DescriptorsHeld, part by part.
SocketsDiffer ==
    \A j, k \in 1 .. Len(connections) : connections[j].sock = connections[k].sock => j = k

OpenAreHeld ==
    \A d \in Descriptors :
        owner[d] # Nobody <=> \E k \in 1 .. Len(connections) : connections[k].sock = d

OwnersDiffer ==
    \A d, e \in Descriptors : owner[d] = owner[e] /\ owner[d] # Nobody => d = e

OwnersAccepted ==
    \A d \in Descriptors : owner[d] \in Clients =>
        /\ serverEnd[owner[d]] = "open" /\ link[owner[d]] = "established"
        /\ \A k \in 1 .. Len(listening) : listening[k] # owner[d]

Held == SocketsDiffer /\ OpenAreHeld /\ OwnersDiffer /\ OwnersAccepted

\* A connection waits for accept once, from the end of its handshake on.
Queue ==
    /\ \A j, k \in 1 .. Len(listening) : listening[j] = listening[k] => j = k
    /\ \A k \in 1 .. Len(listening) :
           link[listening[k]] = "established" /\ serverEnd[listening[k]] = "open"
    /\ \A i \in Clients : link[i] # "established" => serverEnd[i] = "open"

\* What the sets of select() hold when the server accepts is about connections it
\* had before; the iterative server has one connection or none, and no sets.
Fit ==
    /\ program = "iterative" =>
           Len(connections) = (IF spc = "talk" THEN 1 ELSE 0) /\ readfds = {} /\ writefds = {}
    /\ readfds \cap writefds = {}
    /\ spc = "accept" => \A d \in readfds \cup writefds :
           d # listenfd => \E k \in 1 .. Len(connections) : connections[k].sock = d

\* ReadyWhenServed, part by part.
Served ==
    \A k \in 1 .. Len(connections) : k >= position =>
        /\ connections[k].sock \in readfds =>
               connections[k].state = "receiving" /\ ServerReadable(Peer(connections[k]))
        /\ connections[k].sock \in writefds /\ connections[k].state = "sending" =>
               ServerWritable(Peer(connections[k]))

ClientsReady == cpc = "events" => \A i \in events : Ready(i)

ServerSide == ServerTypeOK /\ Queue /\ Held /\ Fit /\ Served /\ NobodyCutOff

IInv == ClientSide /\ NothingLinked /\ ClientsReady /\ ServerSide

LEMMA ConnectionsAre ==
    ASSUME ServerTypeOK
    PROVE  /\ connections \in Seq(ConnectionData) /\ Len(connections) \in Nat
           /\ DOMAIN connections = 1 .. Len(connections)
           /\ \A k \in 1 .. Len(connections) : connections[k] \in ConnectionData
BY Lengths DEF ServerTypeOK, ConnectionsTypeOK

LEMMA ListeningIs ==
    ASSUME SocketsTypeOK
    PROVE  /\ listening \in Seq(Clients) /\ Len(listening) \in Nat
           /\ DOMAIN listening = 1 .. Len(listening)
           /\ \A k \in 1 .. Len(listening) : listening[k] \in Clients
BY Lengths DEF SocketsTypeOK

LEMMA PeerIsClient ==
    ASSUME ServerTypeOK, OpenAreHeld, NEW k \in 1 .. Len(connections)
    PROVE  /\ connections[k].sock \in Descriptors
           /\ Peer(connections[k]) \in Clients
           /\ owner[connections[k].sock] = Peer(connections[k])
<1>1. connections[k].sock \in Descriptors BY ConnectionsAre DEF ConnectionData
<1>2. owner[connections[k].sock] # Nobody BY <1>1 DEF OpenAreHeld
<1> QED BY <1>1, <1>2 DEF ServerTypeOK, Peer

LEMMA PeersDiffer ==
    ASSUME ServerTypeOK, SocketsDiffer, OpenAreHeld, OwnersDiffer,
           NEW j \in 1 .. Len(connections), NEW k \in 1 .. Len(connections), j # k
    PROVE  Peer(connections[j]) # Peer(connections[k])
<1>1. connections[j].sock # connections[k].sock BY DEF SocketsDiffer
<1>2. owner[connections[j].sock] # Nobody
  BY PeerIsClient, ServerAssumption
<1> QED BY <1>1, <1>2, PeerIsClient DEF OwnersDiffer

\* The clients do the server no harm.
LEMMA ServerUndisturbed ==
    ASSUME ServerSide, OneWay, SocketsTypeOK, SocketsTypeOK'
    PROVE  ServerSide'
<1>1. UNCHANGED <<serverVars, listening, serverEnd>> BY DEF OneWay
<1>2. ServerTypeOK' BY <1>1 DEF ServerSide, ServerTypeOK, ConnectionsTypeOK, serverVars
<1>3. \A i \in Clients : link[i] = "established" <=> link'[i] = "established"
  BY DEF OneWay, SocketsTypeOK
<1>4. Queue' BY <1>1, <1>3, ListeningIs DEF ServerSide, Queue
<1>5. Held'
  BY <1>1, <1>3
     DEF ServerSide, Held, SocketsDiffer, OpenAreHeld, OwnersDiffer, OwnersAccepted, serverVars
<1>6. Fit' BY <1>1 DEF ServerSide, Fit, serverVars
<1>7. Served'
  <2>1. \A k \in 1 .. Len(connections) : Peer(connections[k]) \in Clients
    BY PeerIsClient DEF ServerSide, Held
  <2>2. \A k \in 1 .. Len(connections) :
            /\ ServerReadable(Peer(connections[k])) => ServerReadable(Peer(connections[k]))'
            /\ ServerWritable(Peer(connections[k])) => ServerWritable(Peer(connections[k]))'
    BY <1>1, <2>1 DEF OneWay, ServerReadable, ServerWritable, Peer, serverVars
  <2> QED BY <1>1, <2>2 DEF ServerSide, Served, serverVars
<1>8. NobodyCutOff' BY <1>1 DEF ServerSide, NobodyCutOff, OneWay
<1> QED BY <1>2, <1>4, <1>5, <1>6, <1>7, <1>8 DEF ServerSide

\* One client at a time: what is ready for the others stays so.
LEMMA ClientsStayReady ==
    ASSUME ClientSide, ClientsReady, ClientStep \/ Killed
    PROVE  ClientsReady'
<1> DEFINE Others(i) ==
        /\ events' = events \ {i} /\ cpc = "events" /\ serverEnd' = serverEnd
        /\ \A j \in Clients : j # i => /\ state'[j] = state[j] /\ link'[j] = link[j]
                                       /\ up'[j] = up[j] /\ down'[j] = down[j]
<1> USE DEF ClientSide
<1>1. ASSUME NEW i \in Clients, Others(i) PROVE ClientsReady'
  <2>1. \A j \in events \ {i} : j \in Clients /\ Ready(j) BY <1>1 DEF ClientsReady, ClientsTypeOK
  <2>2. \A j \in Clients : j # i /\ Ready(j) => Ready(j)'
    BY <1>1 DEF Ready, ClientReadable, ClientWritable
  <2> QED BY <1>1, <2>1, <2>2 DEF ClientsReady
<1>2. ASSUME NEW i \in Clients, Finish(i), Turn(i) PROVE ClientsReady'
  <2>1. Others(i)
    BY <1>2 DEF Finish, Turn, Handled, ClientsClose, ClientsTypeOK, SocketsTypeOK
  <2> QED BY <1>1, <2>1
<1>3. ASSUME NEW i \in Clients, ClientSend(i) PROVE ClientsReady'
  <2>1. CASE Finish(i) BY <1>2, <1>3, <2>1 DEF ClientSend
  <2>2. CASE ~ Finish(i)
    <3> DEFINE rest == IF state[i] = "connecting" THEN Message(i) ELSE buffer[i]
               room == UpSpace - Len(up[i])
    <3>1. /\ \E n \in 1 .. Least(Len(rest), room) :
                 /\ up' = [up EXCEPT ![i] = @ \o First(rest, n)]
                 /\ Sent(i, rest, n)
          /\ Handled(i, {})
          /\ UNCHANGED <<repeatsLeft, link, listening, down, clientEnd, serverEnd>>
      BY <1>3, <2>2 DEF ClientSend
    <3>2. PICK n \in 1 .. Least(Len(rest), room) :
                 up' = [up EXCEPT ![i] = @ \o First(rest, n)] /\ Sent(i, rest, n)
      BY <3>1
    <3> HIDE DEF rest, room
    <3>3. \A j \in Clients : j # i => up'[j] = up[j] BY <3>2 DEF SocketsTypeOK
    <3>4. \A j \in Clients : j # i => state'[j] = state[j] BY <3>2 DEF Sent, ClientsTypeOK
    <3>5. Others(i) BY <1>3, <3>1, <3>3, <3>4 DEF Handled, ClientSend, Turn
    <3> QED BY <1>1, <3>5
  <2> QED BY <2>1, <2>2
<1>4. ASSUME NEW i \in Clients, ClientReceive(i) PROVE ClientsReady'
  <2>1. PICK n \in 1 .. Least(Len(down[i]), Length[i] - Len(buffer[i])) :
             LET all  == buffer[i] \o First(down[i], n)
                 rest == [down EXCEPT ![i] = Without(@, n)]
                 last == Len(all) = Length[i] /\ repeatsLeft[i] = 0
             IN  /\ IF Len(all) < Length[i]
                    THEN /\ buffer' = [buffer EXCEPT ![i] = all]
                         /\ UNCHANGED <<state, repeatsLeft>>
                    ELSE IF last THEN LastRound(i) ELSE NextRound(i)
                 /\ IF last
                    THEN /\ clientEnd' = [clientEnd EXCEPT ![i] =
                                              IF rest[i] = <<>> THEN "closed" ELSE "reset"]
                         /\ down' = [down EXCEPT ![i] = <<>>]
                         /\ up' = IF rest[i] = <<>> THEN up ELSE [up EXCEPT ![i] = <<>>]
                    ELSE /\ down' = rest
                         /\ UNCHANGED <<up, clientEnd>>
                 /\ Handled(i, IF last THEN {i} ELSE {})
    BY <1>4 DEF ClientReceive
  <2>2. events' = events \ {i} BY <2>1 DEF Handled
  <2>3. \A j \in Clients : j # i => state'[j] = state[j]
    BY <2>1 DEF LastRound, NextRound, ClientsTypeOK
  <2>4. \A j \in Clients : j # i => down'[j] = down[j] BY <2>1 DEF SocketsTypeOK
  <2>5. \A j \in Clients : j # i => up'[j] = up[j] BY <2>1 DEF SocketsTypeOK
  <2>6. Others(i) BY <1>4, <2>2, <2>3, <2>4, <2>5 DEF ClientReceive, Turn
  <2> QED BY <1>1, <2>6
<1>5. CASE OpenConnection BY <1>5 DEF OpenConnection, ClientsReady
<1>6. CASE AllOpened BY <1>6 DEF AllOpened, Loop, ClientsReady
<1>7. CASE ClientSelect
  BY <1>7 DEF ClientSelect, ClientsReady, Ready, ClientReadable, ClientWritable, socketVars
<1>8. CASE Killed BY <1>8 DEF Killed, ClientsReady
<1> QED BY <1>2, <1>3, <1>4, <1>5, <1>6, <1>7, <1>8 DEF ClientStep, ClientLost

----------------------------------------------------------------------------
(* The network's steps *)

LEMMA NetworkKeeps ==
    ASSUME IInv, Network
    PROVE  IInv'
<1>1. PICK i \in Clients : Establish(i) \/ Unanswered(i) BY DEF Network
<1>2. UNCHANGED <<clientVars, serverVars, up, down, clientEnd, serverEnd>>
  BY <1>1 DEF Network, Establish, Unanswered
<1>3. SocketsTypeOK /\ ClientsTypeOK /\ link[i] = "handshake" /\ serverEnd[i] = "open"
  BY <1>1 DEF IInv, ClientSide, ServerSide, Queue, Establish, Unanswered
<1>4. /\ link' \in [Clients -> {"none", "handshake", "established", "failed"}]
      /\ link'[i] \in {"established", "failed"}
      /\ \A j \in Clients : j # i => link'[j] = link[j]
  BY <1>1, <1>3 DEF Establish, Unanswered, SocketsTypeOK
<1>5. /\ \A k \in 1 .. Len(listening) : listening[k] # i
      /\ \A d \in Descriptors : owner[d] # i
  BY <1>3 DEF IInv, ServerSide, Queue, Held, OwnersAccepted
<1>6. ASSUME Establish(i) PROVE SocketsTypeOK' /\ Queue' /\ OwnersAccepted'
  <2>1. link' = [link EXCEPT ![i] = "established"] /\ listening' = Append(listening, i)
        /\ Len(listening) < Backlog
    BY <1>6 DEF Establish
  <2>2. /\ listening' \in Seq(Clients) /\ Len(listening') = Len(listening) + 1
        /\ \A k \in 1 .. Len(listening) : listening'[k] = listening[k]
        /\ listening'[Len(listening) + 1] = i
    BY <1>3, <2>1, ListeningIs, Appended
  <2>3. Len(listening) \in Nat /\ \A k \in 1 .. Len(listening) : listening[k] \in Clients
    BY <1>3, ListeningIs
  <2>4. \A k \in 1 .. Len(listening') :
            \/ k \in 1 .. Len(listening) /\ listening'[k] = listening[k]
            \/ k = Len(listening) + 1 /\ listening'[k] = i
    BY <2>2, <2>3
  <2>5. Len(listening') <= Backlog
    BY <2>1, <2>2, <2>3, SocketAssumption
  <2>6. SocketsTypeOK' BY <1>2, <1>3, <1>4, <2>2, <2>5 DEF SocketsTypeOK
  <2>7. Queue'
    <3>1. \A j, k \in 1 .. Len(listening') : listening'[j] = listening'[k] => j = k
      BY <1>5, <2>4 DEF IInv, ServerSide, Queue
    <3>2. \A k \in 1 .. Len(listening') : listening'[k] # i => link'[listening'[k]] = link[listening'[k]]
      BY <1>4, <2>3, <2>4
    <3>3. \A k \in 1 .. Len(listening') :
             link'[listening'[k]] = "established" /\ serverEnd'[listening'[k]] = "open"
      <4>1. link'[i] = "established" BY <1>3, <2>1 DEF SocketsTypeOK
      <4>2. \A k \in 1 .. Len(listening) :
               /\ link[listening[k]] = "established" /\ serverEnd[listening[k]] = "open"
               /\ listening[k] # i
        BY <1>5 DEF IInv, ServerSide, Queue
      <4> QED BY <1>2, <1>3, <2>4, <3>2, <4>1, <4>2
    <3>4. \A j \in Clients : link'[j] # "established" => serverEnd'[j] = "open"
      BY <1>2, <1>3, <1>4 DEF IInv, ServerSide, Queue
    <3> QED BY <3>1, <3>3, <3>4 DEF Queue
  <2>8. OwnersAccepted'
    BY <1>2, <1>4, <1>5, <2>4 DEF IInv, ServerSide, Held, OwnersAccepted, serverVars
  <2> QED BY <2>6, <2>7, <2>8
<1>7. ASSUME Unanswered(i) PROVE SocketsTypeOK' /\ Queue' /\ OwnersAccepted'
  <2>1. listening' = listening BY <1>7 DEF Unanswered
  <2>2. SocketsTypeOK' BY <1>2, <1>3, <1>4, <2>1 DEF SocketsTypeOK
  <2>3. \A k \in 1 .. Len(listening) : listening[k] \in Clients /\ listening[k] # i
    BY <1>3, <1>5, ListeningIs
  <2>4. Queue' BY <1>2, <1>3, <1>4, <2>1, <2>3 DEF IInv, ServerSide, Queue
  <2>5. OwnersAccepted'
    BY <1>2, <1>4, <1>5, <2>1 DEF IInv, ServerSide, Held, OwnersAccepted, serverVars
  <2> QED BY <2>2, <2>4, <2>5
<1>8. SocketsTypeOK' /\ Queue' /\ OwnersAccepted' BY <1>1, <1>6, <1>7
<1>9. ClientSide' BY <1>2, <1>3, <1>8 DEF ClientSide, ClientsTypeOK, clientVars
<1>10. NothingLinked'
  BY <1>2, <1>3, <1>4 DEF IInv, NothingLinked, clientVars
<1>11. ClientsReady'
  <2>1. \A j \in Clients : Ready(j) => Ready(j)'
    BY <1>2, <1>3, <1>4 DEF Ready, ClientReadable, ClientWritable, clientVars
  <2>2. events \subseteq Clients BY <1>3 DEF ClientsTypeOK
  <2> QED BY <1>2, <2>1, <2>2 DEF IInv, ClientsReady, clientVars
<1>12. ServerSide'
  <2>1. ServerTypeOK'
    BY <1>2 DEF IInv, ServerSide, ServerTypeOK, ConnectionsTypeOK, serverVars
  <2>2. Held'
    BY <1>2, <1>8
       DEF IInv, ServerSide, Held, SocketsDiffer, OpenAreHeld, OwnersDiffer, serverVars
  <2>3. Fit' BY <1>2 DEF IInv, ServerSide, Fit, serverVars
  <2>4. Served'
    BY <1>2 DEF IInv, ServerSide, Served, ServerReadable, ServerWritable, Peer, serverVars
  <2>5. NobodyCutOff' BY <1>2 DEF IInv, ServerSide, NobodyCutOff
  <2> QED BY <1>8, <2>1, <2>2, <2>3, <2>4, <2>5 DEF ServerSide
<1> QED BY <1>9, <1>10, <1>11, <1>12 DEF IInv

----------------------------------------------------------------------------
(* What the server does with a connection *)

ServerHalf ==
    /\ SocketsTypeOK /\ ConnectionsTypeOK /\ owner \in [Descriptors -> Clients \cup {Nobody}]
    /\ Queue /\ Held

LEMMA AcceptKeeps ==
    ASSUME SocketsTypeOK, ServerTypeOK, Queue, Held, NEW d \in Descriptors, Accept(d)
    PROVE  /\ ServerHalf'
           /\ Len(connections') = Len(connections) + 1
           /\ \A k \in 1 .. Len(connections) :
                  connections'[k] = connections[k] /\ owner'[connections[k].sock] = owner[connections[k].sock]
           /\ connections'[Len(connections) + 1].sock = d
           /\ \A k \in 1 .. Len(connections) : connections[k].sock # d
<1> DEFINE c == [sock |-> d, state |-> "receiving", buffer |-> <<>>, offset |-> 0]
           i == Head(listening)
<1>1. /\ owner[d] = Nobody /\ listening # <<>>
      /\ owner' = [owner EXCEPT ![d] = i] /\ listening' = Tail(listening)
      /\ connections' = Append(connections, c)
      /\ UNCHANGED <<link, up, down, clientEnd, serverEnd>>
  BY DEF Accept, Lowest
<1>2. c \in ConnectionData BY EmptySeq DEF ConnectionData
<1>3. /\ connections \in Seq(ConnectionData) /\ Len(connections) \in Nat
      /\ \A k \in 1 .. Len(connections) : connections[k].sock \in Descriptors
  BY ConnectionsAre DEF ConnectionData
<1>4. /\ connections' \in Seq(ConnectionData) /\ Len(connections') = Len(connections) + 1
      /\ \A k \in 1 .. Len(connections) : connections'[k] = connections[k]
      /\ connections'[Len(connections) + 1] = c
  BY <1>1, <1>2, <1>3, Appended
<1>5. \A k \in 1 .. Len(connections') :
         \/ k \in 1 .. Len(connections) /\ connections'[k] = connections[k]
         \/ k = Len(connections) + 1 /\ connections'[k] = c
  BY <1>3, <1>4
<1>6. /\ Len(listening) \in Nat \ {0} /\ i = listening[1] /\ i \in Clients
      /\ \A k \in 1 .. Len(listening) : listening[k] \in Clients
      /\ listening' \in Seq(Clients) /\ Len(listening') = Len(listening) - 1
      /\ \A k \in 1 .. Len(listening') : listening'[k] = listening[k + 1]
  <2>1. listening \in Seq(Clients) BY DEF SocketsTypeOK
  <2>2. Len(listening) \in Nat /\ Len(listening) # 0 BY <1>1, <2>1, Lengths
  <2> QED BY <1>1, <2>1, <2>2, HeadAndTail, Lengths
<1>7. link[i] = "established" /\ serverEnd[i] = "open" BY <1>6 DEF Queue
<1>8. \A e \in Descriptors : owner[e] # i
  BY <1>6 DEF Held, OwnersAccepted
<1>9. \A k \in 1 .. Len(connections) : connections[k].sock # d
  BY <1>1 DEF Held, OpenAreHeld
<1>10. /\ owner' \in [Descriptors -> Clients \cup {Nobody}]
       /\ owner'[d] = i /\ \A e \in Descriptors : e # d => owner'[e] = owner[e]
  BY <1>1, <1>6 DEF ServerTypeOK
<1>11. c.sock = d /\ c.state = "receiving" /\ c.buffer = <<>> /\ c.offset = 0 OBVIOUS
<1> HIDE DEF c, i
<1>12. SocketsTypeOK' BY <1>1, <1>6, SocketAssumption DEF SocketsTypeOK
<1>13. ConnectionsTypeOK'
  <2>1. DOMAIN connections' = 1 .. Len(connections') BY <1>4, Lengths
  <2>2. \A k \in 1 .. Len(connections) :
           LET cd == connections[k]
           IN  /\ Len(cd.buffer) <= TransferBuffer
               /\ cd.state = "receiving" => cd.buffer = <<>> /\ cd.offset = 0
               /\ cd.state = "sending" => cd.offset < Len(cd.buffer)
    BY ConnectionsAre DEF ServerTypeOK, ConnectionsTypeOK
  <2>3. Len(<<>>) = 0 /\ TransferBuffer \in Nat BY EmptySeq, ServerAssumption
  <2> QED BY <1>4, <1>5, <1>11, <2>1, <2>2, <2>3 DEF ConnectionsTypeOK
<1>14. Queue'
  <2>1. \A k \in 1 .. Len(listening') : k + 1 \in 1 .. Len(listening) BY <1>6
  <2>2. \A j, k \in 1 .. Len(listening') : j + 1 = k + 1 => j = k BY <1>6
  <2>3. \A j, k \in 1 .. Len(listening') : listening'[j] = listening'[k] => j = k
    BY <1>6, <2>1, <2>2 DEF Queue
  <2> QED BY <1>1, <1>6, <2>1, <2>3 DEF Queue
<1>15. SocketsDiffer' BY <1>3, <1>5, <1>9, <1>11 DEF Held, SocketsDiffer
<1>16. OpenAreHeld'
  <2>1. ASSUME NEW e \in Descriptors
        PROVE  owner'[e] # Nobody <=> \E k \in 1 .. Len(connections') : connections'[k].sock = e
    <3>1. CASE e = d
      <4>1. Len(connections) + 1 \in 1 .. Len(connections') BY <1>3, <1>4
      <4> QED BY <1>4, <1>6, <1>10, <1>11, <3>1, <4>1, ServerAssumption
    <3>2. CASE e # d
      <4>1. 1 .. Len(connections) \subseteq 1 .. Len(connections') BY <1>3, <1>4
      <4> QED BY <1>5, <1>10, <1>11, <3>2, <4>1 DEF Held, OpenAreHeld
    <3> QED BY <3>1, <3>2
  <2> QED BY <2>1 DEF OpenAreHeld
<1>17. OwnersDiffer' BY <1>8, <1>10 DEF Held, OwnersDiffer
<1>18. OwnersAccepted'
  <2>1. \A k \in 1 .. Len(listening') : k + 1 \in 1 .. Len(listening) /\ k + 1 # 1 BY <1>6
  <2>2. \A k \in 1 .. Len(listening') : listening'[k] # i
    BY <1>6, <2>1 DEF Queue
  <2> QED BY <1>1, <1>6, <1>7, <1>10, <2>1, <2>2 DEF Held, OwnersAccepted
<1>19. \A k \in 1 .. Len(connections) : owner'[connections[k].sock] = owner[connections[k].sock]
  BY <1>3, <1>9, <1>10
<1> QED BY <1>4, <1>9, <1>10, <1>11, <1>12, <1>13, <1>14, <1>15, <1>16, <1>17, <1>18, <1>19
        DEF ServerHalf, Held

LEMMA CloseKeeps ==
    ASSUME SocketsTypeOK, ServerTypeOK, Queue, Held,
           NEW k \in 1 .. Len(connections), Close(k)
    PROVE  /\ ServerHalf'
           /\ Len(connections') = Len(connections) - 1
           /\ \A j \in 1 .. Len(connections') :
                  LET m == IF j < k THEN j ELSE j + 1
                  IN  /\ m \in 1 .. Len(connections) /\ m # k
                      /\ connections'[j] = connections[m]
                      /\ owner'[connections[m].sock] = owner[connections[m].sock]
           /\ \A j \in Clients : j # Peer(connections[k]) => up'[j] = up[j]
           /\ \A j \in Clients : j # Peer(connections[k]) => serverEnd'[j] = serverEnd[j]
           /\ up'[Peer(connections[k])] = <<>>
           /\ serverEnd'[Peer(connections[k])] = "closed"
<1> DEFINE c == connections[k].sock
           i == Peer(connections[k])
           Old(j) == IF j < k THEN j ELSE j + 1
<1>1. /\ serverEnd' = [serverEnd EXCEPT ![i] = "closed"]
      /\ up' = [up EXCEPT ![i] = <<>>]
      /\ owner' = [owner EXCEPT ![c] = Nobody]
      /\ connections' = RemoveAt(connections, k)
      /\ UNCHANGED <<link, listening, down, clientEnd>>
  BY DEF Close
<1>2. c \in Descriptors /\ i \in Clients /\ owner[c] = i BY PeerIsClient DEF Held
<1>3. /\ connections \in Seq(ConnectionData) /\ Len(connections) \in Nat
      /\ \A j \in 1 .. Len(connections) : connections[j].sock \in Descriptors
  BY ConnectionsAre DEF ConnectionData
<1>4. /\ connections' \in Seq(ConnectionData) /\ Len(connections') = Len(connections) - 1
      /\ \A j \in 1 .. Len(connections') : connections'[j] = connections[Old(j)]
  BY <1>1, <1>3, Erased
<1>5. \A j \in 1 .. Len(connections') : Old(j) \in 1 .. Len(connections) /\ Old(j) # k
  BY <1>3, <1>4
<1>6. \A j, m \in 1 .. Len(connections') : Old(j) = Old(m) => j = m BY <1>3, <1>4
<1>7. \A m \in 1 .. Len(connections) : m # k => \E j \in 1 .. Len(connections') : Old(j) = m
  <2>1. ASSUME NEW m \in 1 .. Len(connections), m # k
        PROVE  \E j \in 1 .. Len(connections') : Old(j) = m
    <3>1. CASE m < k
      <4>1. m \in 1 .. Len(connections') /\ Old(m) = m BY <1>3, <1>4, <3>1
      <4> QED BY <4>1
    <3>2. CASE m > k
      <4>1. m - 1 \in 1 .. Len(connections') /\ Old(m - 1) = m BY <1>3, <1>4, <3>2
      <4> QED BY <4>1
    <3> QED BY <1>3, <2>1, <3>1, <3>2
  <2> QED BY <2>1
<1>8. \A m \in 1 .. Len(connections) : m # k => connections[m].sock # c
  BY DEF Held, SocketsDiffer
<1>9. /\ owner' \in [Descriptors -> Clients \cup {Nobody}]
      /\ owner'[c] = Nobody /\ \A e \in Descriptors : e # c => owner'[e] = owner[e]
  BY <1>1, <1>2 DEF ServerTypeOK
<1>10. /\ up' \in [Clients -> Seq(Bytes)] /\ serverEnd' \in [Clients -> {"open", "closed"}]
       /\ up'[i] = <<>> /\ serverEnd'[i] = "closed"
       /\ \A j \in Clients : j # i => up'[j] = up[j] /\ serverEnd'[j] = serverEnd[j]
  <2>1. <<>> \in Seq(Bytes) BY EmptySeq
  <2> QED BY <1>1, <1>2, <2>1 DEF SocketsTypeOK
<1>11. link[i] = "established" /\ \A j \in 1 .. Len(listening) : listening[j] # i
  BY <1>2 DEF Held, OwnersAccepted
<1> HIDE DEF c, i, Old
<1>12. SocketsTypeOK'
  <2>1. Len(<<>>) = 0 /\ UpSpace \in Nat BY EmptySeq, SocketAssumption
  <2> QED BY <1>1, <1>10, <2>1 DEF SocketsTypeOK
<1>13. ConnectionsTypeOK'
  <2>1. DOMAIN connections' = 1 .. Len(connections') BY <1>4, Lengths
  <2>2. \A j \in 1 .. Len(connections) :
           LET cd == connections[j]
           IN  /\ Len(cd.buffer) <= TransferBuffer
               /\ cd.state = "receiving" => cd.buffer = <<>> /\ cd.offset = 0
               /\ cd.state = "sending" => cd.offset < Len(cd.buffer)
    BY ConnectionsAre DEF ServerTypeOK, ConnectionsTypeOK
  <2> QED BY <1>4, <1>5, <2>1, <2>2 DEF ConnectionsTypeOK
<1>14. Queue'
  <2>1. \A j \in 1 .. Len(listening) : listening[j] \in Clients BY ListeningIs
  <2> QED BY <1>1, <1>2, <1>10, <1>11, <2>1 DEF Queue
<1>15. SocketsDiffer' BY <1>4, <1>5, <1>6 DEF Held, SocketsDiffer
<1>16. OpenAreHeld'
  <2>1. ASSUME NEW e \in Descriptors
        PROVE  owner'[e] # Nobody <=> \E j \in 1 .. Len(connections') : connections'[j].sock = e
    <3>1. CASE e = c BY <1>4, <1>5, <1>8, <1>9, <3>1
    <3>2. CASE e # c
      <4>1. owner'[e] # Nobody <=> \E m \in 1 .. Len(connections) : connections[m].sock = e
        BY <1>9, <3>2 DEF Held, OpenAreHeld
      <4>2. (\E m \in 1 .. Len(connections) : connections[m].sock = e)
                => \E j \in 1 .. Len(connections') : connections'[j].sock = e
        <5>1. ASSUME NEW m \in 1 .. Len(connections), connections[m].sock = e
              PROVE  \E j \in 1 .. Len(connections') : connections'[j].sock = e
          <6>1. m # k BY <3>2, <5>1 DEF c
          <6> QED BY <1>4, <1>7, <5>1, <6>1
        <5> QED BY <5>1
      <4>3. (\E j \in 1 .. Len(connections') : connections'[j].sock = e)
                => \E m \in 1 .. Len(connections) : connections[m].sock = e
        BY <1>4, <1>5
      <4> QED BY <4>1, <4>2, <4>3
    <3> QED BY <3>1, <3>2
  <2> QED BY <2>1 DEF OpenAreHeld
<1>17. OwnersDiffer' BY <1>9 DEF Held, OwnersDiffer
<1>18. OwnersAccepted'
  <2>1. \A e \in Descriptors : e # c => owner[e] # i
    BY <1>2, ServerAssumption DEF Held, OwnersDiffer
  <2> QED BY <1>1, <1>9, <1>10, <2>1, ServerAssumption DEF Held, OwnersAccepted
<1>19. \A m \in 1 .. Len(connections) : m # k => owner'[connections[m].sock] = owner[connections[m].sock]
  BY <1>3, <1>8, <1>9
<1>20. ServerHalf'
  BY <1>9, <1>12, <1>13, <1>14, <1>15, <1>16, <1>17, <1>18 DEF ServerHalf, Held
<1> QED BY <1>4, <1>5, <1>10, <1>19, <1>20 DEF Old, i

FitsBuffer(cd) ==
    /\ Len(cd.buffer) <= TransferBuffer
    /\ cd.state = "receiving" => cd.buffer = <<>> /\ cd.offset = 0
    /\ cd.state = "sending" => cd.offset < Len(cd.buffer)

LEMMA BuffersFit ==
    ASSUME ServerTypeOK, NEW k \in 1 .. Len(connections)
    PROVE  FitsBuffer(connections[k])
BY ConnectionsAre DEF ServerTypeOK, ConnectionsTypeOK, FitsBuffer

\* A connection that stays open, whatever is done with its data.
LEMMA ConnectionStays ==
    ASSUME SocketsTypeOK, ServerTypeOK, Queue, Held, NEW k \in 1 .. Len(connections),
           NEW c \in ConnectionData, c.sock = connections[k].sock, FitsBuffer(c),
           connections' = [connections EXCEPT ![k] = c],
           UNCHANGED <<link, listening, serverEnd, owner>>
    PROVE  /\ ConnectionsTypeOK' /\ Queue' /\ Held'
           /\ Len(connections') = Len(connections) /\ connections'[k] = c
           /\ \A j \in 1 .. Len(connections) : j # k => connections'[j] = connections[j]
           /\ \A j \in 1 .. Len(connections) : connections'[j].sock = connections[j].sock
<1>1. /\ connections' \in Seq(ConnectionData) /\ Len(connections') = Len(connections)
      /\ \A j \in 1 .. Len(connections) : connections'[j] = IF j = k THEN c ELSE connections[j]
  BY ConnectionsAre, Replaced
<1>2. \A j \in 1 .. Len(connections) : connections'[j].sock = connections[j].sock BY <1>1
<1>3. ConnectionsTypeOK'
  <2>1. DOMAIN connections' = 1 .. Len(connections) BY <1>1, Lengths
  <2>2. \A j \in 1 .. Len(connections) : FitsBuffer(connections'[j]) BY <1>1, BuffersFit
  <2> QED BY <1>1, <2>1, <2>2 DEF ConnectionsTypeOK, FitsBuffer
<1>4. Held'
  BY <1>1, <1>2 DEF Held, SocketsDiffer, OpenAreHeld, OwnersDiffer, OwnersAccepted
<1>5. Queue' BY DEF Queue
<1> QED BY <1>1, <1>2, <1>3, <1>4, <1>5

\* What the server's steps leave of what clients wait for.
KindToClients ==
    \A i \in Clients :
        /\ link'[i] = link[i]
        /\ ClientReadable(i) => ClientReadable(i)'
        /\ ClientWritable(i) => ClientWritable(i)'

LEMMA ReceiveKeeps ==
    ASSUME SocketsTypeOK, ServerTypeOK, Queue, Held, NEW k \in 1 .. Len(connections),
           connections[k].state = "receiving", ReceiveSome(k)
    PROVE  /\ ServerHalf' /\ KindToClients
           /\ Len(connections') = Len(connections) /\ owner' = owner
           /\ down' = down /\ clientEnd' = clientEnd /\ serverEnd' = serverEnd
           /\ connections'[k].sock = connections[k].sock /\ connections'[k].state = "sending"
           /\ \A j \in 1 .. Len(connections) : j # k => connections'[j] = connections[j]
           /\ \A j \in Clients : j # Peer(connections[k]) => up'[j] = up[j]
<1> DEFINE cd == connections[k]
           i == Peer(cd)
<1>1. i \in Clients /\ cd \in ConnectionData BY PeerIsClient, ConnectionsAre DEF Held
<1>2. /\ up[i] \in Seq(Bytes) /\ Len(up[i]) \in Nat /\ up[i] # <<>>
      /\ Len(up[i]) <= UpSpace /\ UpSpace \in Nat /\ TransferBuffer \in Nat
  <2>1. up[i] \in Seq(Bytes) BY <1>1 DEF SocketsTypeOK
  <2> QED BY <1>1, <2>1, Lengths, SocketAssumption, ServerAssumption DEF SocketsTypeOK, ReceiveSome
<1>3. PICK n \in 1 .. Least(Len(up[i]), TransferBuffer) :
          /\ up' = [up EXCEPT ![i] = Without(@, n)]
          /\ connections' = [connections EXCEPT ![k] = Received(cd, First(up[i], n))]
  BY DEF ReceiveSome
<1>4. n \in 0 .. Len(up[i]) /\ n <= TransferBuffer /\ n # 0 BY <1>2 DEF Least
<1>5. /\ First(up[i], n) \in Seq(Bytes) /\ Len(First(up[i], n)) = n
      /\ Without(up[i], n) \in Seq(Bytes) /\ Len(Without(up[i], n)) = Len(up[i]) - n
  BY <1>2, <1>4, Pieces
<1>6. cd.buffer = <<>> BY BuffersFit DEF FitsBuffer
<1>7. /\ First(up[i], n) \o cd.buffer \in Seq(Bytes)
      /\ Len(First(up[i], n) \o cd.buffer) = n
  <2>1. <<>> \in Seq(Bytes) /\ Len(<<>>) = 0 BY EmptySeq
  <2> QED BY <1>4, <1>5, <1>6, <2>1, Joined
<1> DEFINE c == Received(cd, First(up[i], n))
<1>8. /\ c \in ConnectionData /\ c.sock = cd.sock /\ c.state = "sending" /\ c.offset = 0
      /\ c.buffer = First(up[i], n) \o cd.buffer
  BY <1>1, <1>7 DEF ConnectionData, Received
<1>9. FitsBuffer(c)
  <2> HIDE DEF c, cd
  <2>1. Len(c.buffer) = n /\ c.state # "receiving" BY <1>7, <1>8
  <2>2. n <= TransferBuffer /\ 0 < n BY <1>2, <1>4
  <2>3. Len(c.buffer) <= TransferBuffer /\ c.offset < Len(c.buffer) BY <1>8, <2>1, <2>2
  <2> QED BY <2>1, <2>3 DEF FitsBuffer
<1>10. connections' = [connections EXCEPT ![k] = c] BY <1>3
<1>11. UNCHANGED <<link, listening, down, clientEnd, serverEnd, owner>> BY DEF ReceiveSome
<1>12. /\ up' \in [Clients -> Seq(Bytes)] /\ up'[i] = Without(up[i], n)
       /\ \A j \in Clients : j # i => up'[j] = up[j]
  BY <1>1, <1>3, <1>5 DEF SocketsTypeOK
<1> HIDE DEF cd, i, c
<1>13. Len(up'[i]) <= Len(up[i]) /\ Len(up'[i]) <= UpSpace /\ Len(up'[i]) < Len(up[i])
  BY <1>2, <1>4, <1>5, <1>12
<1>14. SocketsTypeOK' BY <1>11, <1>12, <1>13 DEF SocketsTypeOK
<1>15. KindToClients
  <2>1. Len(up'[i]) \in Nat BY <1>1, <1>12, Lengths
  <2>2. \A j \in Clients : ClientWritable(j) => ClientWritable(j)'
    BY <1>2, <1>11, <1>12, <1>13, <2>1 DEF ClientWritable
  <2> QED BY <1>11, <2>2 DEF KindToClients, ClientReadable
<1>16. /\ ConnectionsTypeOK' /\ Queue' /\ Held'
       /\ Len(connections') = Len(connections) /\ connections'[k] = c
       /\ \A j \in 1 .. Len(connections) : j # k => connections'[j] = connections[j]
  BY <1>8, <1>9, <1>10, <1>11, ConnectionStays DEF cd
<1>17. ServerHalf' BY <1>11, <1>14, <1>16 DEF ServerHalf, ServerTypeOK
<1> QED BY <1>8, <1>11, <1>12, <1>15, <1>16, <1>17 DEF cd, i

LEMMA AfterSendFits ==
    ASSUME NEW cd \in ConnectionData, FitsBuffer(cd), cd.state = "sending",
           NEW n \in 1 .. Len(Unsent(cd))
    PROVE  /\ Unsent(cd) \in Seq(Bytes)
           /\ AfterSend(cd, n) \in ConnectionData /\ AfterSend(cd, n).sock = cd.sock
           /\ FitsBuffer(AfterSend(cd, n))
<1>1. cd.buffer \in Seq(Bytes) /\ cd.offset \in Nat /\ cd.sock \in Descriptors
  BY DEF ConnectionData
<1>2. Len(cd.buffer) \in Nat /\ cd.offset < Len(cd.buffer) /\ Len(cd.buffer) <= TransferBuffer
  BY <1>1, Lengths DEF FitsBuffer
<1>3. cd.offset \in 0 .. Len(cd.buffer) BY <1>1, <1>2
<1>4. Unsent(cd) \in Seq(Bytes) /\ Len(Unsent(cd)) = Len(cd.buffer) - cd.offset
  BY <1>1, <1>3, Pieces DEF Unsent
<1>5. CASE n = Len(Unsent(cd))
  <2>1. AfterSend(cd, n) = [cd EXCEPT !.state = "receiving", !.buffer = <<>>, !.offset = 0]
    BY <1>5 DEF AfterSend
  <2>2. <<>> \in Seq(Bytes) /\ Len(<<>>) = 0 /\ TransferBuffer \in Nat
    BY EmptySeq, ServerAssumption
  <2>3. /\ AfterSend(cd, n) \in ConnectionData /\ AfterSend(cd, n).sock = cd.sock
        /\ AfterSend(cd, n).state = "receiving" /\ AfterSend(cd, n).buffer = <<>>
        /\ AfterSend(cd, n).offset = 0
    <3>1. AfterSend(cd, n) = [sock |-> cd.sock, state |-> "receiving", buffer |-> <<>>, offset |-> 0]
      BY <2>1 DEF ConnectionData
    <3>2. AfterSend(cd, n) \in ConnectionData BY <1>1, <2>2, <3>1 DEF ConnectionData
    <3> QED BY <3>1, <3>2
  <2>4. FitsBuffer(AfterSend(cd, n)) BY <2>2, <2>3 DEF FitsBuffer
  <2> QED BY <1>4, <2>3, <2>4
<1>6. CASE n # Len(Unsent(cd))
  <2>1. AfterSend(cd, n) = [cd EXCEPT !.offset = cd.offset + n] BY <1>6 DEF AfterSend
  <2>2. cd.offset + n \in Nat /\ cd.offset + n < Len(cd.buffer) BY <1>1, <1>2, <1>4, <1>6
  <2>3. /\ AfterSend(cd, n) \in ConnectionData /\ AfterSend(cd, n).sock = cd.sock
        /\ AfterSend(cd, n).state = cd.state /\ AfterSend(cd, n).buffer = cd.buffer
        /\ AfterSend(cd, n).offset = cd.offset + n
    <3>1. AfterSend(cd, n) \in ConnectionData BY <2>1, <2>2 DEF ConnectionData
    <3>2. /\ AfterSend(cd, n).sock = cd.sock /\ AfterSend(cd, n).state = cd.state
          /\ AfterSend(cd, n).buffer = cd.buffer
      BY <2>1 DEF ConnectionData
    <3>3. AfterSend(cd, n).offset = cd.offset + n BY <2>1 DEF ConnectionData
    <3> QED BY <3>1, <3>2, <3>3
  <2>4. FitsBuffer(AfterSend(cd, n)) BY <1>2, <2>2, <2>3 DEF FitsBuffer
  <2> QED BY <1>4, <2>3, <2>4
<1> QED BY <1>5, <1>6

LEMMA SendKeeps ==
    ASSUME SocketsTypeOK, ServerTypeOK, Queue, Held, NEW k \in 1 .. Len(connections),
           connections[k].state = "sending", SendSome(k) \/ SendInVain(k)
    PROVE  /\ ServerHalf' /\ KindToClients
           /\ Len(connections') = Len(connections) /\ owner' = owner /\ serverEnd' = serverEnd
           /\ \A j \in 1 .. Len(connections) : connections'[j].sock = connections[j].sock
           /\ \A j \in 1 .. Len(connections) : j # k => connections'[j] = connections[j]
           /\ \A j \in Clients : j # Peer(connections[k]) =>
                  up'[j] = up[j] /\ down'[j] = down[j] /\ clientEnd'[j] = clientEnd[j]
           /\ \A j \in Clients : clientEnd[j] # "open" => clientEnd'[j] # "open"
<1> DEFINE cd == connections[k]
           i == Peer(cd)
           rest == Unsent(cd)
<1>1. i \in Clients /\ cd \in ConnectionData BY PeerIsClient, ConnectionsAre DEF Held
<1>2. FitsBuffer(cd) BY BuffersFit
<1>3. rest \in Seq(Bytes) /\ Len(rest) \in Nat \ {0}
  <2>1. cd.buffer \in Seq(Bytes) /\ cd.offset \in Nat BY <1>1 DEF ConnectionData
  <2>2. Len(cd.buffer) \in Nat /\ cd.offset < Len(cd.buffer)
    BY <1>2, <2>1, Lengths DEF FitsBuffer
  <2>3. cd.offset \in 0 .. Len(cd.buffer) BY <2>1, <2>2
  <2>4. rest \in Seq(Bytes) /\ Len(rest) = Len(cd.buffer) - cd.offset
    BY <2>1, <2>3, Pieces DEF Unsent
  <2> HIDE DEF rest, cd
  <2> QED BY <2>1, <2>2, <2>4
<1>4. /\ down[i] \in Seq(Bytes) /\ Len(down[i]) \in Nat /\ Len(down[i]) <= DownSpace
      /\ DownSpace \in Nat /\ UpSpace \in Nat \ {0}
  <2>1. down[i] \in Seq(Bytes) BY <1>1 DEF SocketsTypeOK
  <2> QED BY <1>1, <2>1, Lengths, SocketAssumption DEF SocketsTypeOK
<1>5. ASSUME NEW n \in 1 .. Len(rest), connections' = [connections EXCEPT ![k] = AfterSend(cd, n)],
             UNCHANGED <<link, listening, serverEnd, owner>>
      PROVE  /\ ConnectionsTypeOK' /\ Queue' /\ Held'
             /\ Len(connections') = Len(connections)
             /\ \A j \in 1 .. Len(connections) : j # k => connections'[j] = connections[j]
             /\ \A j \in 1 .. Len(connections) : connections'[j].sock = connections[j].sock
  <2>1. /\ AfterSend(cd, n) \in ConnectionData /\ AfterSend(cd, n).sock = cd.sock
        /\ FitsBuffer(AfterSend(cd, n))
    BY <1>1, <1>2, AfterSendFits
  <2> QED BY <1>5, <2>1, ConnectionStays
<1>6. CASE SendSome(k)
  <2>1. PICK n \in 1 .. Least(Len(rest), DownSpace - Len(down[i])) :
            /\ down' = [down EXCEPT ![i] = @ \o First(rest, n)]
            /\ connections' = [connections EXCEPT ![k] = AfterSend(cd, n)]
    BY <1>6 DEF SendSome
  <2>2. UNCHANGED <<link, listening, up, clientEnd, serverEnd, owner>> BY <1>6 DEF SendSome
  <2> HIDE DEF rest, cd, i
  <2>3. n \in 1 .. Len(rest) /\ n \in 0 .. Len(rest) /\ Len(down[i]) + n <= DownSpace
    BY <1>3, <1>4 DEF Least
  <2>4. First(rest, n) \in Seq(Bytes) /\ Len(First(rest, n)) = n BY <1>3, <2>3, Pieces
  <2>5. /\ down[i] \o First(rest, n) \in Seq(Bytes)
        /\ Len(down[i] \o First(rest, n)) = Len(down[i]) + n
    BY <1>4, <2>4, Joined
  <2>6. /\ down' \in [Clients -> Seq(Bytes)] /\ down'[i] = down[i] \o First(rest, n)
        /\ \A j \in Clients : j # i => down'[j] = down[j]
    BY <1>1, <2>1, <2>5 DEF SocketsTypeOK
  <2>7. SocketsTypeOK' BY <2>2, <2>3, <2>5, <2>6 DEF SocketsTypeOK
  <2>8. down'[i] # <<>>
    <3>1. Len(down'[i]) # 0 BY <1>4, <2>3, <2>5, <2>6
    <3> QED BY <3>1, EmptySeq
  <2>9. KindToClients BY <2>2, <2>6, <2>8 DEF KindToClients, ClientReadable, ClientWritable
  <2>10. ServerHalf' BY <1>5, <2>1, <2>2, <2>3, <2>7 DEF ServerHalf, ServerTypeOK
  <2> QED BY <1>5, <2>1, <2>2, <2>3, <2>6, <2>9, <2>10 DEF i, cd
<1>7. CASE SendInVain(k)
  <2>1. /\ connections' = [connections EXCEPT ![k] = AfterSend(cd, Len(rest))]
        /\ clientEnd' = [clientEnd EXCEPT ![i] = "reset"]
        /\ up' = [up EXCEPT ![i] = <<>>]
        /\ UNCHANGED <<link, listening, down, serverEnd, owner>>
    BY <1>7 DEF SendInVain
  <2> HIDE DEF rest, cd, i
  <2>2. Len(rest) \in 1 .. Len(rest) BY <1>3
  <2>3. <<>> \in Seq(Bytes) /\ Len(<<>>) = 0 BY EmptySeq
  <2>4. /\ up' \in [Clients -> Seq(Bytes)] /\ up'[i] = <<>>
        /\ \A j \in Clients : j # i => up'[j] = up[j]
    BY <1>1, <2>1, <2>3 DEF SocketsTypeOK
  <2>5. /\ clientEnd' \in [Clients -> {"open", "closed", "reset"}] /\ clientEnd'[i] = "reset"
        /\ \A j \in Clients : j # i => clientEnd'[j] = clientEnd[j]
    BY <1>1, <2>1 DEF SocketsTypeOK
  <2>6. SocketsTypeOK' BY <1>4, <2>1, <2>3, <2>4, <2>5 DEF SocketsTypeOK
  <2>7. KindToClients
    BY <1>4, <2>1, <2>3, <2>4 DEF KindToClients, ClientReadable, ClientWritable
  <2>8. ServerHalf' BY <1>5, <2>1, <2>2, <2>6 DEF ServerHalf, ServerTypeOK
  <2> QED BY <1>5, <2>1, <2>2, <2>4, <2>5, <2>7, <2>8 DEF i, cd
<1> QED BY <1>6, <1>7

----------------------------------------------------------------------------
(* The server's steps *)

LEMMA ClientsUndisturbed ==
    ASSUME ClientSide, ClientsReady, NothingLinked, SocketsTypeOK', KindToClients,
           UNCHANGED clientVars
    PROVE  ClientSide' /\ ClientsReady' /\ NothingLinked'
<1>1. ClientSide' BY DEF ClientSide, ClientsTypeOK, clientVars
<1>2. ClientsReady'
  <2>1. events \subseteq Clients BY DEF ClientSide, ClientsTypeOK
  <2>2. \A i \in Clients : Ready(i) => Ready(i)'
    <3>1. state' = state BY DEF clientVars
    <3> QED BY <3>1 DEF Ready, KindToClients
  <2>3. cpc' = cpc /\ events' = events BY DEF clientVars
  <2> QED BY <2>1, <2>2, <2>3 DEF ClientsReady
<1>3. NothingLinked'
  <2>1. cpc' = cpc /\ nextToOpen' = nextToOpen BY DEF clientVars
  <2> QED BY <2>1 DEF NothingLinked, KindToClients
<1> QED BY <1>1, <1>2, <1>3

LEMMA CloseIsKind ==
    ASSUME SocketsTypeOK, ServerTypeOK, Queue, Held,
           NEW k \in 1 .. Len(connections), Close(k)
    PROVE  KindToClients /\ clientEnd' = clientEnd /\ down' = down
<1> DEFINE i == Peer(connections[k])
<1>1. UNCHANGED <<link, down, clientEnd>> BY DEF Close
<1>2. \A j \in Clients : j # i => up'[j] = up[j] /\ serverEnd'[j] = serverEnd[j]
  BY CloseKeeps
<1>3. serverEnd'[i] = "closed" BY CloseKeeps
<1> HIDE DEF i
<1> QED BY <1>1, <1>2, <1>3 DEF KindToClients, ClientReadable, ClientWritable

LEMMA NothingIsKind ==
    ASSUME UNCHANGED <<link, up, down, serverEnd>>
    PROVE  KindToClients
BY DEF KindToClients, ClientReadable, ClientWritable

\* Only a client that has gone is closed on.
LEMMA CutOffByNone ==
    ASSUME SocketsTypeOK, ServerTypeOK, Queue, Held, NobodyCutOff,
           NEW k \in 1 .. Len(connections), Close(k), clientEnd[Peer(connections[k])] # "open"
    PROVE  NobodyCutOff'
<1>1. clientEnd' = clientEnd BY CloseIsKind
<1>2. \A j \in Clients : j # Peer(connections[k]) => serverEnd'[j] = serverEnd[j] BY CloseKeeps
<1> QED BY <1>1, <1>2 DEF NobodyCutOff

LEMMA IterativeKeeps ==
    ASSUME IInv, IterativeAccept \/ IterativeReceive \/ IterativeSend
    PROVE  IInv'
<1> USE DEF IInv, ClientSide, ServerSide
<1>1. /\ program = "iterative" /\ readfds = {} /\ writefds = {}
      /\ Len(connections) = IF spc = "talk" THEN 1 ELSE 0
      /\ UNCHANGED <<clientVars, program, readfds, writefds, position>>
  BY DEF Fit, IterativeAccept, IterativeReceive, IterativeSend
<1>2. SUFFICES /\ ServerHalf' /\ KindToClients /\ NobodyCutOff'
               /\ spc' \in {"accept", "talk"}
               /\ Len(connections') = IF spc' = "talk" THEN 1 ELSE 0
  <2>1. ClientSide' /\ ClientsReady' /\ NothingLinked'
    BY <1>1, <1>2, ClientsUndisturbed DEF ServerHalf
  <2>2. ServerTypeOK' BY <1>1, <1>2 DEF ServerHalf, ServerTypeOK
  <2>3. Fit' BY <1>1, <1>2 DEF Fit
  <2>4. Served' BY <1>1 DEF Served
  <2> QED BY <1>2, <2>1, <2>2, <2>3, <2>4 DEF ServerHalf
<1>3. CASE IterativeAccept
  <2>1. PICK d \in Descriptors : Accept(d) BY <1>3 DEF IterativeAccept
  <2>2. ServerHalf' /\ Len(connections') = 1
    BY <1>1, <1>3, <2>1, AcceptKeeps DEF IterativeAccept
  <2>3. UNCHANGED <<link, up, down, clientEnd, serverEnd>> BY <2>1 DEF Accept
  <2>4. NobodyCutOff' BY <2>3 DEF NobodyCutOff
  <2>5. spc' = "talk" BY <1>3 DEF IterativeAccept
  <2> QED BY <2>2, <2>3, <2>4, <2>5, NothingIsKind
<1>4. CASE IterativeReceive
  <2>1. /\ Len(connections) = 1 /\ 1 \in 1 .. Len(connections)
        /\ connections[1].state = "receiving" /\ ServerReadable(Peer(connections[1]))
        /\ (ReceiveSome(1) /\ spc' = spc) \/ (ReceiveFails(1) /\ spc' = "accept")
    BY <1>1, <1>4 DEF IterativeReceive
  <2>2. CASE ReceiveSome(1) /\ spc' = spc
    <3>1. ServerHalf' /\ KindToClients /\ Len(connections') = Len(connections)
          /\ clientEnd' = clientEnd /\ serverEnd' = serverEnd
      BY <2>1, <2>2, ReceiveKeeps
    <3>2. NobodyCutOff' BY <3>1 DEF NobodyCutOff
    <3>3. spc = "talk" BY <1>4 DEF IterativeReceive
    <3> QED BY <2>1, <2>2, <3>1, <3>2, <3>3
  <2>3. CASE ReceiveFails(1) /\ spc' = "accept"
    <3>1. Close(1) /\ clientEnd[Peer(connections[1])] # "open"
      BY <2>1, <2>3 DEF ReceiveFails, ServerReadable
    <3>2. NobodyCutOff' BY <2>1, <3>1, CutOffByNone
    <3>3. ServerHalf' /\ Len(connections') = 0 BY <2>1, <3>1, CloseKeeps
    <3>4. KindToClients BY <2>1, <3>1, CloseIsKind
    <3> QED BY <2>3, <3>2, <3>3, <3>4
  <2> QED BY <2>1, <2>2, <2>3
<1>5. CASE IterativeSend
  <2>1. /\ Len(connections) = 1 /\ 1 \in 1 .. Len(connections)
        /\ connections[1].state = "sending" /\ ServerWritable(Peer(connections[1]))
        /\ \/ (SendSome(1) \/ SendInVain(1)) /\ spc' = spc
           \/ SendFails(1) /\ spc' = "accept"
    BY <1>1, <1>5 DEF IterativeSend
  <2>2. CASE (SendSome(1) \/ SendInVain(1)) /\ spc' = spc
    <3>1. ServerHalf' /\ KindToClients /\ Len(connections') = Len(connections)
          /\ serverEnd' = serverEnd
          /\ \A j \in Clients : clientEnd[j] # "open" => clientEnd'[j] # "open"
      BY <2>1, <2>2, SendKeeps
    <3>2. NobodyCutOff' BY <3>1 DEF NobodyCutOff
    <3>3. spc = "talk" BY <1>5 DEF IterativeSend
    <3> QED BY <2>1, <2>2, <3>1, <3>2, <3>3
  <2>3. CASE SendFails(1) /\ spc' = "accept"
    <3>1. Close(1) BY <2>3 DEF SendFails
    <3>2. clientEnd[Peer(connections[1])] # "open"
      <4>1. Peer(connections[1]) \in Clients BY <2>1, PeerIsClient DEF Held
      <4> QED BY <2>1, <2>3, <4>1, SocketAssumption DEF SendFails, ServerWritable
    <3>3. NobodyCutOff' BY <2>1, <3>1, <3>2, CutOffByNone
    <3>4. ServerHalf' /\ Len(connections') = 0 BY <2>1, <3>1, CloseKeeps
    <3>5. KindToClients BY <2>1, <3>1, CloseIsKind
    <3> QED BY <2>3, <3>3, <3>4, <3>5
  <2> QED BY <2>1, <2>2, <2>3
<1> QED BY <1>3, <1>4, <1>5

LEMMA SelectKeeps ==
    ASSUME IInv, Select
    PROVE  IInv'
<1> USE DEF IInv, ClientSide, ServerSide
<1>1. /\ program = "select" /\ spc' = "accept" /\ position' = 1
      /\ UNCHANGED <<socketVars, clientVars, program, connections, owner>>
  BY DEF Select
<1>2. /\ Len(connections) \in Nat /\ DOMAIN connections = 1 .. Len(connections)
      /\ \A k \in 1 .. Len(connections) :
             connections[k].sock \in Descriptors /\ connections[k].sock # listenfd
  BY ConnectionsAre, ServerAssumption DEF ConnectionData, listenfd
<1>3. \A c : c \in ToSet(connections) <=> \E k \in 1 .. Len(connections) : c = connections[k]
  BY <1>2 DEF ToSet
<1>4. \A d \in readfds' : d # listenfd => \E k \in 1 .. Len(connections) :
         /\ connections[k].sock = d /\ connections[k].state = "receiving"
         /\ ServerReadable(Peer(connections[k]))
  BY <1>3 DEF Select
<1>5. \A d \in writefds' : \E k \in 1 .. Len(connections) :
         /\ connections[k].sock = d /\ connections[k].state = "sending"
         /\ ServerWritable(Peer(connections[k]))
  BY <1>3 DEF Select
<1>6. ServerTypeOK'
  <2>1. readfds' \subseteq Descriptors \cup {listenfd} BY <1>2, <1>4
  <2>2. writefds' \subseteq Descriptors BY <1>2, <1>5
  <2> QED BY <1>1, <2>1, <2>2 DEF ServerTypeOK, ConnectionsTypeOK
<1>7. Fit'
  <2>1. readfds' \cap writefds' = {}
    <3>1. ASSUME NEW d, d \in readfds', d \in writefds' PROVE FALSE
      <4>1. PICK k \in 1 .. Len(connections) :
                connections[k].sock = d /\ connections[k].state = "sending"
        BY <1>5, <3>1
      <4>2. PICK j \in 1 .. Len(connections) :
                connections[j].sock = d /\ connections[j].state = "receiving"
        BY <1>2, <1>4, <3>1, <4>1
      <4>3. j = k BY <4>1, <4>2 DEF Held, SocketsDiffer
      <4> QED BY <4>1, <4>2, <4>3
    <3> QED BY <3>1
  <2> QED BY <1>1, <1>4, <1>5, <2>1 DEF Fit
<1>8. Served'
  <2>1. ASSUME NEW k \in 1 .. Len(connections), connections[k].sock \in readfds'
        PROVE  connections[k].state = "receiving" /\ ServerReadable(Peer(connections[k]))
    <3>1. PICK j \in 1 .. Len(connections) :
              /\ connections[j].sock = connections[k].sock /\ connections[j].state = "receiving"
              /\ ServerReadable(Peer(connections[j]))
      BY <1>2, <1>4, <2>1
    <3> QED BY <3>1 DEF Held, SocketsDiffer
  <2>2. ASSUME NEW k \in 1 .. Len(connections), connections[k].sock \in writefds'
        PROVE  ServerWritable(Peer(connections[k]))
    <3>1. PICK j \in 1 .. Len(connections) :
              /\ connections[j].sock = connections[k].sock /\ ServerWritable(Peer(connections[j]))
      BY <1>5, <2>2
    <3> QED BY <3>1 DEF Held, SocketsDiffer
  <2> QED BY <1>1, <2>1, <2>2 DEF Served, ServerReadable, ServerWritable, Peer, socketVars
<1>9. SocketsTypeOK' /\ Queue' /\ Held' /\ NobodyCutOff'
  BY <1>1 DEF SocketsTypeOK, Queue, Held, SocketsDiffer, OpenAreHeld, OwnersDiffer, OwnersAccepted,
              NobodyCutOff, socketVars
<1>10. KindToClients BY <1>1, NothingIsKind DEF socketVars
<1>11. ClientSide' /\ ClientsReady' /\ NothingLinked'
  BY <1>1, <1>9, <1>10, ClientsUndisturbed
<1> QED BY <1>6, <1>7, <1>8, <1>9, <1>11

LEMMA SelectAcceptKeeps ==
    ASSUME IInv, SelectAccept
    PROVE  IInv'
<1> USE DEF IInv, ClientSide, ServerSide
<1>1. /\ program = "select" /\ spc = "accept"
      /\ UNCHANGED <<clientVars, program, readfds, writefds, position>>
  BY DEF SelectAccept
<1>2. CASE UNCHANGED <<socketVars, connections, owner>> /\ spc' \in {"select", "serve"}
  <2>1. SocketsTypeOK' /\ Queue' /\ Held' /\ NobodyCutOff'
    BY <1>2 DEF SocketsTypeOK, Queue, Held, SocketsDiffer, OpenAreHeld, OwnersDiffer,
                OwnersAccepted, NobodyCutOff, socketVars
  <2>2. ServerTypeOK' BY <1>1, <1>2 DEF ServerTypeOK, ConnectionsTypeOK
  <2>3. Fit' BY <1>1, <1>2 DEF Fit
  <2>4. Served' BY <1>1, <1>2 DEF Served, ServerReadable, ServerWritable, Peer, socketVars
  <2>5. KindToClients BY <1>2, NothingIsKind DEF socketVars
  <2>6. ClientSide' /\ ClientsReady' /\ NothingLinked'
    BY <1>1, <2>1, <2>5, ClientsUndisturbed
  <2> QED BY <2>1, <2>2, <2>3, <2>4, <2>6
<1>3. ASSUME NEW d \in Descriptors, Accept(d), spc' = "serve" PROVE IInv'
  <2>1. /\ ServerHalf'
        /\ Len(connections') = Len(connections) + 1
        /\ \A k \in 1 .. Len(connections) :
               connections'[k] = connections[k] /\ owner'[connections[k].sock] = owner[connections[k].sock]
        /\ connections'[Len(connections) + 1].sock = d
        /\ \A k \in 1 .. Len(connections) : connections[k].sock # d
    BY <1>3, AcceptKeeps
  <2>2. UNCHANGED <<link, up, down, clientEnd, serverEnd>> BY <1>3 DEF Accept
  <2>3. d \notin readfds /\ d \notin writefds
    BY <1>1, <2>1, ServerAssumption DEF Fit, listenfd
  <2>4. ServerTypeOK' BY <1>1, <1>3, <2>1 DEF ServerHalf, ServerTypeOK
  <2>5. Fit' BY <1>1, <1>3 DEF Fit
  <2>6. Served'
    <3>1. ASSUME NEW k \in 1 .. Len(connections'), k >= position,
                 connections'[k].sock \in readfds \cup writefds
          PROVE  /\ k \in 1 .. Len(connections) /\ connections'[k] = connections[k]
                 /\ Peer(connections[k])' = Peer(connections[k])
      <4>1. k # Len(connections) + 1 BY <2>1, <2>3, <3>1
      <4>2. k \in 1 .. Len(connections) BY <2>1, <4>1, ConnectionsAre
      <4> QED BY <2>1, <4>2 DEF Peer
    <3>2. ASSUME NEW k \in 1 .. Len(connections') , k >= position, connections'[k].sock \in readfds
          PROVE  connections'[k].state = "receiving" /\ ServerReadable(Peer(connections[k]))'
      BY <2>2, <3>1, <3>2 DEF Served, ServerReadable, Peer
    <3>3. ASSUME NEW k \in 1 .. Len(connections') , k >= position,
                 connections'[k].sock \in writefds, connections'[k].state = "sending"
          PROVE  ServerWritable(Peer(connections[k]))'
      BY <2>2, <3>1, <3>3 DEF Served, ServerWritable, Peer
    <3> QED BY <1>1, <3>2, <3>3 DEF Served
  <2>7. NobodyCutOff' BY <2>2 DEF NobodyCutOff
  <2>8. KindToClients BY <2>2, NothingIsKind
  <2>9. ClientSide' /\ ClientsReady' /\ NothingLinked'
    BY <1>1, <2>1, <2>8, ClientsUndisturbed DEF ServerHalf
  <2> QED BY <2>1, <2>4, <2>5, <2>6, <2>7, <2>9 DEF ServerHalf
<1> QED BY <1>2, <1>3 DEF SelectAccept

LEMMA PassingKeeps ==
    ASSUME IInv, PassEnds \/ \E k \in 1 .. Len(connections) : ServeNothing(k)
    PROVE  IInv'
<1> USE DEF IInv, ClientSide, ServerSide
<1>1. /\ program = "select" /\ spc' \in {"select", "serve"}
      /\ UNCHANGED <<socketVars, clientVars, program, connections, owner>>
      /\ \/ readfds' = {} /\ writefds' = {} /\ position' = 1
         \/ UNCHANGED <<readfds, writefds>> /\ position' = position + 1
  BY DEF PassEnds, ServeNothing, Serving
<1>2. position \in Nat \ {0} BY DEF ServerTypeOK
<1>3. SocketsTypeOK' /\ Queue' /\ Held' /\ NobodyCutOff'
  BY <1>1 DEF SocketsTypeOK, Queue, Held, SocketsDiffer, OpenAreHeld, OwnersDiffer,
              OwnersAccepted, NobodyCutOff, socketVars
<1>4. ServerTypeOK' BY <1>1, <1>2 DEF ServerTypeOK, ConnectionsTypeOK
<1>5. Fit' BY <1>1 DEF Fit
<1>6. Served'
  <2>1. Len(connections) \in Nat BY ConnectionsAre
  <2>2. CASE readfds' = {} /\ writefds' = {} BY <2>2 DEF Served
  <2>3. CASE UNCHANGED <<readfds, writefds>> /\ position' = position + 1
    <3>1. \A k \in 1 .. Len(connections) : k >= position + 1 => k >= position BY <1>2, <2>1
    <3> QED BY <1>1, <2>3, <3>1 DEF Served, ServerReadable, ServerWritable, Peer, socketVars
  <2> QED BY <1>1, <2>2, <2>3
<1>7. KindToClients BY <1>1, NothingIsKind DEF socketVars
<1>8. ClientSide' /\ ClientsReady' /\ NothingLinked'
  BY <1>1, <1>3, <1>7, ClientsUndisturbed
<1> QED BY <1>3, <1>4, <1>5, <1>6, <1>8

\* The server closes the connection it is at, which it found ready: the next one takes
\* its place in the list.
LEMMA ServedIsClosed ==
    ASSUME IInv, program = "select", spc = "serve", position \in 1 .. Len(connections),
           Close(position), clientEnd[Peer(connections[position])] # "open",
           readfds' \subseteq readfds, writefds' = writefds,
           UNCHANGED <<clientVars, program, spc, position>>
    PROVE  IInv'
<1> USE DEF IInv, ClientSide, ServerSide
<1> DEFINE Old(j) == IF j < position THEN j ELSE j + 1
<1>1. /\ ServerHalf' /\ Len(connections') = Len(connections) - 1
      /\ \A j \in 1 .. Len(connections') :
             /\ Old(j) \in 1 .. Len(connections) /\ Old(j) # position
             /\ connections'[j] = connections[Old(j)]
             /\ owner'[connections[Old(j)].sock] = owner[connections[Old(j)].sock]
      /\ \A j \in Clients : j # Peer(connections[position]) => up'[j] = up[j]
  BY CloseKeeps
<1>2. KindToClients /\ clientEnd' = clientEnd /\ down' = down BY CloseIsKind
<1>3. ServerTypeOK' BY <1>1 DEF ServerHalf, ServerTypeOK
<1>4. Fit' BY DEF Fit
<1>5. Served'
  <2>1. ASSUME NEW j \in 1 .. Len(connections'), j >= position
        PROVE  /\ j + 1 \in 1 .. Len(connections) /\ j + 1 >= position
               /\ connections'[j] = connections[j + 1]
               /\ Peer(connections[j])' = Peer(connections[j + 1])
               /\ up'[Peer(connections[j + 1])] = up[Peer(connections[j + 1])]
    <3>1. Old(j) = j + 1 /\ j + 1 >= position
      BY <2>1, <1>1, ConnectionsAre
    <3>2. /\ j + 1 \in 1 .. Len(connections) /\ j + 1 # position
          /\ connections'[j] = connections[j + 1]
          /\ owner'[connections[j + 1].sock] = owner[connections[j + 1].sock]
      BY <1>1, <3>1
    <3>3. Peer(connections[j + 1]) \in Clients BY <3>2, PeerIsClient DEF Held
    <3>4. Peer(connections[j + 1]) # Peer(connections[position])
      BY <3>2, PeersDiffer DEF Held
    <3>5. connections'[j].sock = connections[j + 1].sock BY <3>2
    <3>6. Peer(connections[j])' = Peer(connections[j + 1])
      BY <3>2, <3>5 DEF Peer
    <3> QED BY <1>1, <3>1, <3>2, <3>3, <3>4, <3>6
  <2>2. ASSUME NEW j \in 1 .. Len(connections'), j >= position, connections'[j].sock \in readfds'
        PROVE  connections'[j].state = "receiving" /\ ServerReadable(Peer(connections[j]))'
    <3>1. connections[j + 1].state = "receiving" /\ ServerReadable(Peer(connections[j + 1]))
      BY <2>1, <2>2 DEF Served
    <3> QED BY <1>2, <2>1, <2>2, <3>1 DEF ServerReadable, Peer
  <2>3. ASSUME NEW j \in 1 .. Len(connections'), j >= position,
               connections'[j].sock \in writefds, connections'[j].state = "sending"
        PROVE  ServerWritable(Peer(connections[j]))'
    <3>1. ServerWritable(Peer(connections[j + 1]))
      BY <2>1, <2>3 DEF Served
    <3> QED BY <1>2, <2>1, <2>3, <3>1 DEF ServerWritable, Peer
  <2> QED BY <2>2, <2>3 DEF Served
<1>6. NobodyCutOff' BY CutOffByNone
<1>7. ClientSide' /\ ClientsReady' /\ NothingLinked'
  BY <1>1, <1>2, ClientsUndisturbed DEF ServerHalf
<1> QED BY <1>1, <1>3, <1>4, <1>5, <1>6, <1>7 DEF ServerHalf

LEMMA ServeReceiveKeeps ==
    ASSUME IInv, NEW k \in 1 .. Len(connections), ServeReceive(k)
    PROVE  IInv'
<1> USE DEF IInv, ClientSide, ServerSide
<1>1. /\ program = "select" /\ spc = "serve" /\ k = position
      /\ connections[k].sock \in readfds /\ connections[k].state = "receiving"
      /\ readfds' = readfds \ {connections[k].sock}
      /\ UNCHANGED <<clientVars, program, spc, writefds, position>>
  BY DEF ServeReceive, Serving, Receives
<1>2. position \in Nat BY DEF ServerTypeOK
<1>3. ServerReadable(Peer(connections[k])) BY <1>1, <1>2 DEF Served
<1>4. CASE ReceiveFails(k)
  <2>1. Close(k) /\ clientEnd[Peer(connections[k])] # "open"
    BY <1>3, <1>4 DEF ReceiveFails, ServerReadable
  <2> QED BY <1>1, <2>1, ServedIsClosed
<1>5. CASE ReceiveSome(k)
  <2>1. /\ ServerHalf' /\ KindToClients
        /\ Len(connections') = Len(connections) /\ owner' = owner
        /\ down' = down /\ clientEnd' = clientEnd /\ serverEnd' = serverEnd
        /\ connections'[k].sock = connections[k].sock /\ connections'[k].state = "sending"
        /\ \A j \in 1 .. Len(connections) : j # k => connections'[j] = connections[j]
        /\ \A j \in Clients : j # Peer(connections[k]) => up'[j] = up[j]
    BY <1>1, <1>5, ReceiveKeeps
  <2>2. ServerTypeOK' BY <1>1, <2>1 DEF ServerHalf, ServerTypeOK
  <2>3. Fit' BY <1>1 DEF Fit
  <2>4. connections[k].sock \notin writefds BY <1>1 DEF Fit
  <2>5. Served'
    <3>1. ASSUME NEW j \in 1 .. Len(connections), j # k
          PROVE  /\ connections'[j] = connections[j]
                 /\ Peer(connections[j])' = Peer(connections[j])
                 /\ up'[Peer(connections[j])] = up[Peer(connections[j])]
      <4>1. Peer(connections[j]) \in Clients /\ Peer(connections[j]) # Peer(connections[k])
        BY <3>1, PeerIsClient, PeersDiffer DEF Held
      <4> QED BY <2>1, <3>1, <4>1 DEF Peer
    <3>2. ASSUME NEW j \in 1 .. Len(connections), j >= position, connections'[j].sock \in readfds'
          PROVE  connections'[j].state = "receiving" /\ ServerReadable(Peer(connections[j]))'
      <4>1. j # k BY <1>1, <2>1, <3>2
      <4>2. connections[j].state = "receiving" /\ ServerReadable(Peer(connections[j]))
        BY <1>1, <3>1, <3>2, <4>1 DEF Served
      <4> QED BY <2>1, <3>1, <4>1, <4>2 DEF ServerReadable, Peer
    <3>3. ASSUME NEW j \in 1 .. Len(connections), j >= position,
                 connections'[j].sock \in writefds, connections'[j].state = "sending"
          PROVE  ServerWritable(Peer(connections[j]))'
      <4>1. j # k BY <2>1, <2>4, <3>3
      <4>2. ServerWritable(Peer(connections[j])) BY <3>1, <3>3, <4>1 DEF Served
      <4> QED BY <2>1, <3>1, <4>1, <4>2 DEF ServerWritable, Peer
    <3> QED BY <1>1, <2>1, <3>2, <3>3 DEF Served
  <2>6. NobodyCutOff' BY <2>1 DEF NobodyCutOff
  <2>7. ClientSide' /\ ClientsReady' /\ NothingLinked'
    BY <1>1, <2>1, ClientsUndisturbed DEF ServerHalf
  <2> QED BY <2>1, <2>2, <2>3, <2>5, <2>6, <2>7 DEF ServerHalf
<1> QED BY <1>4, <1>5 DEF ServeReceive

LEMMA ServeSendKeeps ==
    ASSUME IInv, NEW k \in 1 .. Len(connections), ServeSend(k)
    PROVE  IInv'
<1> USE DEF IInv, ClientSide, ServerSide
<1>1. /\ program = "select" /\ spc = "serve" /\ k = position
      /\ connections[k].sock \in writefds /\ connections[k].state = "sending"
      /\ UNCHANGED <<clientVars, program, spc, readfds, writefds>>
  BY DEF ServeSend, Serving, Sends
<1>2. position \in Nat BY DEF ServerTypeOK
<1>3. ServerWritable(Peer(connections[k])) BY <1>1, <1>2 DEF Served
<1>4. CASE SendFails(k) /\ UNCHANGED position
  <2>1. Close(k) BY <1>4 DEF SendFails
  <2>2. clientEnd[Peer(connections[k])] # "open"
    <3>1. Peer(connections[k]) \in Clients BY PeerIsClient DEF Held
    <3> QED BY <1>3, <1>4, <3>1, SocketAssumption DEF SendFails, ServerWritable
  <2> QED BY <1>1, <1>4, <2>1, <2>2, ServedIsClosed
<1>5. CASE (SendSome(k) \/ SendInVain(k)) /\ position' = k + 1
  <2>1. /\ ServerHalf' /\ KindToClients
        /\ Len(connections') = Len(connections) /\ owner' = owner /\ serverEnd' = serverEnd
        /\ \A j \in 1 .. Len(connections) : j # k => connections'[j] = connections[j]
        /\ \A j \in Clients : j # Peer(connections[k]) =>
               up'[j] = up[j] /\ down'[j] = down[j] /\ clientEnd'[j] = clientEnd[j]
        /\ \A j \in Clients : clientEnd[j] # "open" => clientEnd'[j] # "open"
    BY <1>1, <1>5, SendKeeps
  <2>2. ServerTypeOK' BY <1>1, <1>2, <1>5, <2>1 DEF ServerHalf, ServerTypeOK
  <2>3. Fit' BY <1>1 DEF Fit
  <2>4. Served'
    <3>1. ASSUME NEW j \in 1 .. Len(connections), j >= position'
          PROVE  /\ connections'[j] = connections[j] /\ j >= position
                 /\ Peer(connections[j])' = Peer(connections[j])
                 /\ ServerReadable(Peer(connections[j])) => ServerReadable(Peer(connections[j]))'
                 /\ ServerWritable(Peer(connections[j])) => ServerWritable(Peer(connections[j]))'
      <4>1. j # k /\ j >= position BY <1>1, <1>2, <1>5, <3>1, ConnectionsAre
      <4>2. Peer(connections[j]) \in Clients /\ Peer(connections[j]) # Peer(connections[k])
        BY <4>1, PeerIsClient, PeersDiffer DEF Held
      <4>3. connections'[j] = connections[j] /\ Peer(connections[j])' = Peer(connections[j])
        BY <2>1, <4>1 DEF Peer
      <4> QED BY <2>1, <4>1, <4>2, <4>3 DEF ServerReadable, ServerWritable, Peer
    <3> QED BY <1>1, <2>1, <3>1 DEF Served
  <2>5. NobodyCutOff' BY <2>1 DEF NobodyCutOff
  <2>6. ClientSide' /\ ClientsReady' /\ NothingLinked'
    BY <1>1, <2>1, ClientsUndisturbed DEF ServerHalf
  <2> QED BY <2>1, <2>2, <2>3, <2>4, <2>5, <2>6 DEF ServerHalf
<1> QED BY <1>4, <1>5 DEF ServeSend

----------------------------------------------------------------------------
(* The theorems *)

LEMMA InitIInv == Init => IInv
<1> SUFFICES ASSUME Init PROVE IInv OBVIOUS
<1> USE DEF Init, SocketInit, ClientInit, ServerInit
<1>1. Len(<<>>) = 0 /\ \A S : <<>> \in Seq(S) BY EmptySeq
<1>2. SocketsTypeOK BY <1>1, SocketAssumption DEF SocketsTypeOK
<1>3. ClientsTypeOK
  <2>1. repeatsLeft \in [Clients -> 0 .. Repeats - 1] BY RepeatsAssumption
  <2> QED BY <1>1, <2>1 DEF ClientsTypeOK
<1>4. ServerTypeOK
  <2>1. DOMAIN connections = {} /\ connections \in Seq(ConnectionData)
    BY <1>1, Lengths
  <2>2. spc \in IF program = "select" THEN {"select", "accept", "serve"} ELSE {"accept", "talk"}
    OBVIOUS
  <2> QED BY <2>1, <2>2 DEF ServerTypeOK, ConnectionsTypeOK
<1>5. 1 .. Len(connections) = {} /\ 1 .. Len(listening) = {} BY <1>1
<1>6. Queue BY <1>5 DEF Queue
<1>7. Held BY <1>5, ServerAssumption DEF Held, SocketsDiffer, OpenAreHeld, OwnersDiffer, OwnersAccepted
<1>8. Fit
  <2>1. program = "iterative" => spc = "accept" OBVIOUS
  <2> QED BY <1>1, <2>1 DEF Fit
<1>9. Served /\ NobodyCutOff BY <1>5 DEF Served, NobodyCutOff
<1>10. NothingLinked /\ ClientsReady BY DEF NothingLinked, ClientsReady
<1> QED BY <1>2, <1>3, <1>4, <1>6, <1>7, <1>8, <1>9, <1>10 DEF IInv, ClientSide, ServerSide

LEMMA StepIInv ==
    ASSUME IInv, [Next]_vars
    PROVE  IInv'
<1>1. CASE (ClientStep \/ Killed) /\ UNCHANGED serverVars
  <2>1. ClientSide' /\ OneWay /\ NothingLinked' BY <1>1, ClientsMove DEF IInv
  <2>2. ClientsReady' BY <1>1, ClientsStayReady DEF IInv
  <2>3. ServerSide' BY <2>1, ServerUndisturbed DEF IInv, ClientSide
  <2> QED BY <2>1, <2>2, <2>3 DEF IInv
<1>2. CASE Network BY <1>2, NetworkKeeps
<1>3. CASE ServerStep
  <2>1. CASE IterativeAccept \/ IterativeReceive \/ IterativeSend BY <2>1, IterativeKeeps
  <2>2. CASE Select BY <2>2, SelectKeeps
  <2>3. CASE SelectAccept BY <2>3, SelectAcceptKeeps
  <2>4. CASE PassEnds BY <2>4, PassingKeeps
  <2>5. ASSUME NEW k \in 1 .. Len(connections), ServeReceive(k) \/ ServeSend(k) \/ ServeNothing(k)
        PROVE  IInv'
    BY <2>5, ServeReceiveKeeps, ServeSendKeeps, PassingKeeps
  <2> QED BY <1>3, <2>1, <2>2, <2>3, <2>4, <2>5 DEF ServerStep
<1>4. CASE UNCHANGED vars
  <2>1. UNCHANGED <<socketVars, clientVars, serverVars>> BY <1>4 DEF vars
  <2> USE <2>1 DEF socketVars, clientVars, serverVars
  <2>2. ClientSide' /\ NothingLinked'
    BY DEF IInv, ClientSide, SocketsTypeOK, ClientsTypeOK, NothingLinked
  <2>3. ClientsReady' BY DEF IInv, ClientsReady, Ready, ClientReadable, ClientWritable
  <2>4. ServerTypeOK' BY DEF IInv, ServerSide, ServerTypeOK, ConnectionsTypeOK
  <2>5. Queue' /\ Fit' /\ NobodyCutOff' BY DEF IInv, ServerSide, Queue, Fit, NobodyCutOff
  <2>6. Held'
    BY DEF IInv, ServerSide, Held, SocketsDiffer, OpenAreHeld, OwnersDiffer, OwnersAccepted
  <2>7. Served' BY DEF IInv, ServerSide, Served, ServerReadable, ServerWritable, Peer
  <2> QED BY <2>2, <2>3, <2>4, <2>5, <2>6, <2>7 DEF IInv, ServerSide
<1> QED BY <1>1, <1>2, <1>3, <1>4 DEF Next

LEMMA AlwaysIInv == Spec => []IInv
BY InitIInv, StepIInv, PTL DEF Spec

\* Every variable keeps its type and buffers their bounds, in both programs and for
\* messages, spaces and buffers of any size: process_client_recv never fills more of
\* the buffer than it has, for it finds it empty.
THEOREM EchoTypeCorrect == Spec => []TypeOK
<1>1. IInv => TypeOK BY DEF IInv, ClientSide, ServerSide, TypeOK
<1> QED BY <1>1, AlwaysIInv, PTL

\* Every open descriptor is one connection of the list and stands for one client: none
\* is leaked by main or mistaken for the client that had its number before.
THEOREM DescriptorsAreHeld == Spec => []DescriptorsHeld
<1>1. IInv => DescriptorsHeld
  <2> SUFFICES ASSUME IInv PROVE DescriptorsHeld OBVIOUS
  <2> USE DEF IInv, ClientSide, ServerSide, Held
  <2>1. DOMAIN connections = 1 .. Len(connections) BY ConnectionsAre
  <2>2. DOMAIN listening = 1 .. Len(listening) BY ListeningIs
  <2>3. \A d \in Descriptors : owner[d] \in Clients => owner[d] \notin ToSet(listening)
    BY <2>2 DEF OwnersAccepted, ToSet
  <2> QED BY <2>1, <2>3
          DEF DescriptorsHeld, SocketsDiffer, OpenAreHeld, OwnersDiffer, OwnersAccepted
<1> QED BY <1>1, AlwaysIInv, PTL

\* What select() said of a socket holds when the loop of main comes to it.
THEOREM ServedWhenReady == Spec => []ReadyWhenServed
<1>1. IInv => ReadyWhenServed
  <2> SUFFICES ASSUME IInv PROVE ReadyWhenServed OBVIOUS
  <2>1. DOMAIN connections = 1 .. Len(connections) BY ConnectionsAre DEF IInv, ServerSide
  <2> QED BY <2>1 DEF IInv, ServerSide, Served, ClientsReady, ReadyWhenServed
<1> QED BY <1>1, AlwaysIInv, PTL

\* process_client_recv and process_client_send return false only for a client that has
\* gone, although they do so for a socket that would have to wait.
THEOREM NobodyIsCutOff == Spec => []NobodyCutOff
<1>1. IInv => NobodyCutOff BY DEF IInv, ServerSide
<1> QED BY <1>1, AlwaysIInv, PTL

=============================================================================
