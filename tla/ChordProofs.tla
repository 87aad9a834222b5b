----------------------------- MODULE ChordProofs -----------------------------
(***************************************************************************)
(* Proofs about the Chord ring: its types, that stabilize moves a node's    *)
(* successor only closer while that successor runs, and that the ring never *)
(* falls apart while at most one node has crashed.                          *)
(***************************************************************************)
EXTENDS Chord, WellFoundedInduction, TLAPS

\* What a round of stabilize holds on to: the candidate, and then the head of the new
\* list, is the first successor or lies before it.
Towards(n, m) == m = Successors[n][1] \/ between(n, m, Successors[n][1])

RoundInv ==
    \A n \in Nodes :
        /\ stage[n] = "ask" => succAddr[n] = Successors[n][1]
        /\ stage[n] \in {"notify", "read"} => Towards(n, succAddr[n])
        /\ stage[n] = "write" => Towards(n, newList[n][1])
        /\ stage[n] # "idle" => Up(n)

Inv == TypeOK /\ RoundInv

----------------------------------------------------------------------------
(* The lists *)

\* The tail of a list from an entry on is a list that starts with the entry.
LEMMA ListFrom ==
    ASSUME NEW s \in Seq(Nodes), NEW i \in DOMAIN s
    PROVE  /\ SubSeq(s, i, Len(s)) \in Seq(Nodes)
           /\ Len(SubSeq(s, i, Len(s))) = Len(s) - i + 1
           /\ SubSeq(s, i, Len(s))[1] = s[i]
           /\ SubSeq(s, i, Len(s)) # <<>>
OBVIOUS

\* A neighbour and its list make a list that starts with the neighbour and is cut
\* to the number of successors.
LEMMA Prepend ==
    ASSUME NEW s \in Seq(Nodes), NEW m \in Nodes
    PROVE  LET list == Truncated(<<m>> \o s)
           IN  /\ list \in Seq(Nodes)
               /\ Len(list) <= NumberOfSuccessors
               /\ list # <<>> /\ list[1] = m
<1>1. <<m>> \o s \in Seq(Nodes) /\ Len(<<m>> \o s) = Len(s) + 1 /\ (<<m>> \o s)[1] = m
    OBVIOUS
<1>2. QED
    BY <1>1, NodeAssumption DEF Truncated

----------------------------------------------------------------------------
(* The invariant is inductive *)

\* The nodes start with the ring of the first, and idle.
LEMMA InitInv == Init => Inv
<1> SUFFICES ASSUME Init PROVE Inv
    OBVIOUS
<1>1. TypeOK
    BY NodeAssumption DEF Init, TypeOK, Up
<1>2. RoundInv
    BY DEF Init, RoundInv
<1> QED
    BY <1>1, <1>2 DEF Inv

\* A node that joins was idle; its list is its contact.
LEMMA StartServerKeepsInv ==
    ASSUME Inv, NEW n \in Nodes, NEW nprime \in Nodes, StartServer(n, nprime) PROVE Inv'
<1>1. <<nprime>> \in Seq(Nodes) /\ Len(<<nprime>>) = 1 /\ <<nprime>> # <<>>
    OBVIOUS
<1>2. TypeOK'
    BY <1>1, NodeAssumption DEF Inv, TypeOK, StartServer, locals, Up
<1>3. RoundInv'
    BY DEF Inv, TypeOK, RoundInv, StartServer, locals, Up, Towards
<1> QED
    BY <1>2, <1>3 DEF Inv

\* A node that crashes leaves an empty list and is idle.
LEMMA CrashKeepsInv ==
    ASSUME Inv, NEW n \in Nodes, Crash(n) PROVE Inv'
<1>1. TypeOK'
    BY NodeAssumption DEF Inv, TypeOK, Crash, Up
<1>2. RoundInv'
    BY DEF Inv, TypeOK, RoundInv, Crash, Up, Towards
<1> QED
    BY <1>1, <1>2 DEF Inv

\* The first that answers becomes the head of the list and the candidate.
LEMMA FindAliveKeepsInv ==
    ASSUME Inv, NEW n \in Nodes, FindAlive(n) PROVE Inv'
<1>1. PICK i \in DOMAIN Successors[n] :
        /\ At(n, "idle")
        /\ Successors' = [Successors EXCEPT ![n] = SubSeq(@, i, Len(@))]
        /\ stage' = [stage EXCEPT ![n] = "ask"]
        /\ succAddr' = [succAddr EXCEPT ![n] = Successors[n][i]]
        /\ UNCHANGED <<status, Predecessor, newList>>
    BY DEF FindAlive
<1> DEFINE rest == SubSeq(Successors[n], i, Len(Successors[n]))
<1>2. Successors[n] \in Seq(Nodes) /\ Successors[n][i] \in Nodes /\ Len(Successors[n]) \in Nat /\ i \in Nat /\ i >= 1
    BY DEF Inv, TypeOK
<1>3. /\ rest \in Seq(Nodes) /\ rest # <<>> /\ rest[1] = Successors[n][i]
      /\ Len(rest) = Len(Successors[n]) - i + 1
    BY <1>2, ListFrom
<1>4. Successors' = [Successors EXCEPT ![n] = rest]
    BY <1>1
<1>5. Len(rest) <= NumberOfSuccessors
    BY <1>2, <1>3, NodeAssumption DEF Inv, TypeOK
<1> HIDE DEF rest
<1>6. TypeOK'
  <2>1. Successors' \in [Nodes -> Seq(Nodes)] /\ newList' \in [Nodes -> Seq(Nodes)]
    <3>1. Successors \in [Nodes -> Seq(Nodes)] /\ newList \in [Nodes -> Seq(Nodes)]
        BY DEF Inv, TypeOK
    <3> QED
        BY <1>1, <1>3, <1>4, <3>1
  <2>2. stage' \in [Nodes -> {"idle", "ask", "notify", "read", "write"}]
      BY <1>1 DEF Inv, TypeOK
  <2>3. succAddr' \in [Nodes -> Nodes \cup {Nobody}]
      BY <1>1, <1>2 DEF Inv, TypeOK
  <2>4. ASSUME NEW k \in Nodes
        PROVE  /\ Len(Successors'[k]) <= NumberOfSuccessors /\ Len(newList'[k]) <= NumberOfSuccessors
               /\ Up(k)' => Successors'[k] # <<>>
      BY <1>1, <1>3, <1>4, <1>5 DEF Inv, TypeOK, Up
  <2>5. ASSUME NEW k \in Nodes
        PROVE  /\ stage'[k] \in {"ask", "notify", "read"} => succAddr'[k] # Nobody
               /\ stage'[k] = "write" => newList'[k] # <<>>
      BY <1>1, <1>2, NodeAssumption DEF Inv, TypeOK
  <2> QED
      BY <1>1, <2>1, <2>2, <2>3, <2>4, <2>5 DEF Inv, TypeOK, Up
<1>7. RoundInv'
    BY <1>1, <1>2, <1>3, <1>4 DEF Inv, TypeOK, RoundInv, Up, At, Towards
<1> QED
    BY <1>6, <1>7 DEF Inv

\* A node that finds nobody is its own successor.
LEMMA NoneAliveKeepsInv ==
    ASSUME Inv, NEW n \in Nodes, NoneAlive(n) PROVE Inv'
<1>1. <<n>> \in Seq(Nodes) /\ Len(<<n>>) = 1 /\ <<n>> # <<>>
    OBVIOUS
<1>2. TypeOK'
    BY <1>1, NodeAssumption DEF Inv, TypeOK, NoneAlive, locals, Up
<1>3. RoundInv'
    BY DEF Inv, TypeOK, RoundInv, NoneAlive, locals, Up, At, Towards
<1> QED
    BY <1>2, <1>3 DEF Inv

\* The candidate is still the first successor when its predecessor is asked for.
LEMMA AskPredecessorKeepsInv ==
    ASSUME Inv, NEW n \in Nodes, AskPredecessor(n) PROVE Inv'
<1> DEFINE x == Predecessor[succAddr[n]]
           y == IF Up(succAddr[n]) /\ Closer(n, x) THEN x ELSE succAddr[n]
<1>1. succAddr[n] \in Nodes /\ x \in Nodes \cup {Nobody}
    BY DEF Inv, TypeOK, AskPredecessor, At
<1>2. y \in Nodes /\ Towards(n, y)
    BY <1>1 DEF Inv, RoundInv, AskPredecessor, At, Closer, Towards
<1>3. /\ succAddr' = [succAddr EXCEPT ![n] = y]
      /\ stage' = [stage EXCEPT ![n] = "notify"]
      /\ At(n, "ask")
      /\ UNCHANGED <<status, Successors, Predecessor, newList>>
    BY DEF AskPredecessor
<1> HIDE DEF x, y
<1>4. TypeOK'
    BY <1>2, <1>3, NodeAssumption DEF Inv, TypeOK, Up
<1>5. RoundInv'
    BY <1>2, <1>3 DEF Inv, TypeOK, RoundInv, Up, At, Towards
<1> QED
    BY <1>4, <1>5 DEF Inv

\* Only the candidate's predecessor changes, to the caller or not.
LEMMA NotifyKeepsInv ==
    ASSUME Inv, NEW n \in Nodes, Notify(n) PROVE Inv'
<1>1. Predecessor' \in [Nodes -> Nodes \cup {Nobody}]
    BY DEF Inv, TypeOK, Notify, At, Notified
<1>2. TypeOK'
    BY <1>1 DEF Inv, TypeOK, Notify, Up, At
<1>3. RoundInv'
    BY DEF Inv, TypeOK, RoundInv, Notify, Up, At, Towards
<1> QED
    BY <1>2, <1>3 DEF Inv

\* The new list starts with the candidate.
LEMMA ReadListKeepsInv ==
    ASSUME Inv, NEW n \in Nodes, ReadList(n) PROVE Inv'
<1> DEFINE m == succAddr[n]
           list == Truncated(<<m>> \o Successors[m])
<1>1. m \in Nodes /\ Successors[m] \in Seq(Nodes) /\ Towards(n, m)
    BY DEF Inv, TypeOK, RoundInv, ReadList, At
<1>2. /\ list \in Seq(Nodes) /\ Len(list) <= NumberOfSuccessors
      /\ list # <<>> /\ list[1] = m
    BY <1>1, Prepend
<1>3. /\ newList' = [newList EXCEPT ![n] = list]
      /\ stage' = [stage EXCEPT ![n] = "write"]
      /\ succAddr' = [succAddr EXCEPT ![n] = Nobody]
      /\ At(n, "read")
      /\ UNCHANGED <<status, Successors, Predecessor>>
    BY DEF ReadList
<1> HIDE DEF m, list
<1>4. TypeOK'
    BY <1>2, <1>3 DEF Inv, TypeOK, Up
<1>5. RoundInv'
    BY <1>1, <1>2, <1>3 DEF Inv, TypeOK, RoundInv, Up, At, Towards
<1> QED
    BY <1>4, <1>5 DEF Inv

\* A round whose call fails changes nothing but the locals.
LEMMA ReadFailsKeepsInv ==
    ASSUME Inv, NEW n \in Nodes, ReadFails(n) PROVE Inv'
<1>1. TypeOK'
    BY DEF Inv, TypeOK, ReadFails, Up
<1>2. RoundInv'
    BY DEF Inv, TypeOK, RoundInv, ReadFails, Up, At, Towards
<1> QED
    BY <1>1, <1>2 DEF Inv

\* The new list replaces the old, and the node is idle.
LEMMA WriteListKeepsInv ==
    ASSUME Inv, NEW n \in Nodes, WriteList(n) PROVE Inv'
<1>1. <<>> \in Seq(Nodes) /\ Len(<<>>) = 0
    OBVIOUS
<1>2. TypeOK'
    BY <1>1, NodeAssumption DEF Inv, TypeOK, WriteList, Up, At
<1>3. RoundInv'
    BY DEF Inv, TypeOK, RoundInv, WriteList, Up, At, Towards
<1> QED
    BY <1>2, <1>3 DEF Inv

\* Forgetting the predecessor touches no list.
LEMMA ForgetKeepsInv ==
    ASSUME Inv, NEW n \in Nodes, Forget(n) PROVE Inv'
<1>1. TypeOK'
    BY DEF Inv, TypeOK, Forget, locals, Up
<1>2. RoundInv'
    BY DEF Inv, TypeOK, RoundInv, Forget, locals, Up, Towards
<1> QED
    BY <1>1, <1>2 DEF Inv

\* Every step keeps the invariant.
LEMMA NextInv == Inv /\ [Next]_vars => Inv'
<1> SUFFICES ASSUME Inv, [Next]_vars PROVE Inv'
    OBVIOUS
<1>1. ASSUME NEW n \in Nodes, NEW nprime \in Nodes, StartServer(n, nprime) PROVE Inv'
    BY <1>1, StartServerKeepsInv
<1>2. ASSUME NEW n \in Nodes, Stabilize(n) PROVE Inv'
    BY <1>2, FindAliveKeepsInv, NoneAliveKeepsInv, AskPredecessorKeepsInv, NotifyKeepsInv,
       ReadListKeepsInv, ReadFailsKeepsInv, WriteListKeepsInv DEF Stabilize
<1>3. ASSUME NEW n \in Nodes, CheckPredecessor(n) \/ PingTimesOut(n) PROVE Inv'
    BY <1>3, ForgetKeepsInv DEF CheckPredecessor, PingTimesOut
<1>4. CASE UNCHANGED vars
    BY <1>4 DEF vars, Inv, TypeOK, RoundInv, Up, Towards
<1> QED
    BY <1>1, <1>2, <1>3, <1>4, CrashKeepsInv DEF Next

----------------------------------------------------------------------------
(* The theorems *)

\* The invariant holds throughout.
LEMMA Invariance == Spec => []Inv
    BY InitInv, NextInv, PTL DEF Spec

\* Lists of bounded length, never empty at a node that runs, for any number of nodes,
\* joins and crashes.
THEOREM ChordTypeCorrect == Spec => []TypeOK
<1>1. Inv => TypeOK
    BY DEF Inv
<1> QED
    BY <1>1, Invariance, PTL

\* What a step may do to a node's first successor while that runs.
Improves ==
    \A n \in Nodes :
        LET old == Successors[n][1]
            new == Successors'[n][1]
        IN  Up(n) /\ Up(n)' /\ Up(old) => new = old \/ between(n, new, old)

\* Only the end of a round moves the head of a list of a node that keeps running; the
\* cut of dead entries leaves it where it is while it runs.
LEMMA StepImproves == Inv /\ [Next]_vars => Improves
<1> SUFFICES ASSUME Inv, [Next]_vars, NEW n \in Nodes, Up(n), Up(n)', Up(Successors[n][1])
             PROVE  \/ Successors'[n][1] = Successors[n][1]
                    \/ between(n, Successors'[n][1], Successors[n][1])
    BY DEF Improves
<1>0. Successors[n] \in Seq(Nodes) /\ Successors[n] # <<>> /\ 1 \in DOMAIN Successors[n]
    BY DEF Inv, TypeOK
<1>1. CASE Successors'[n] = Successors[n]
    BY <1>1
<1>2. ASSUME NEW k \in Nodes, NEW nprime \in Nodes, StartServer(k, nprime)
      PROVE  Successors'[n] = Successors[n]
    BY <1>2 DEF StartServer, Up, Inv, TypeOK
<1>3. ASSUME NEW k \in Nodes, Crash(k) PROVE Successors'[n] = Successors[n]
    BY <1>3 DEF Crash, Up, Inv, TypeOK
<1>4. ASSUME NEW k \in Nodes, FindAlive(k) PROVE Successors'[n][1] = Successors[n][1]
  <2>1. CASE k # n
      BY <1>4, <2>1 DEF FindAlive, Inv, TypeOK
  <2>2. CASE k = n
    <3>1. PICK i \in DOMAIN Successors[n] :
            /\ \A j \in 1 .. i - 1 : ~Up(Successors[n][j])
            /\ Successors' = [Successors EXCEPT ![n] = SubSeq(@, i, Len(@))]
        BY <1>4, <2>2 DEF FindAlive
    <3>2. i = 1
        BY <3>1, <1>0
    <3>3. Successors'[n] = SubSeq(Successors[n], i, Len(Successors[n]))
        BY <3>1 DEF Inv, TypeOK
    <3> QED
        BY <3>2, <3>3, <1>0, ListFrom
  <2> QED
      BY <2>1, <2>2
<1>5. ASSUME NEW k \in Nodes, NoneAlive(k) PROVE Successors'[n] = Successors[n]
    BY <1>5, <1>0 DEF NoneAlive, Inv, TypeOK
<1>6. ASSUME NEW k \in Nodes, WriteList(k)
      PROVE  \/ Successors'[n][1] = Successors[n][1]
             \/ between(n, Successors'[n][1], Successors[n][1])
    BY <1>6 DEF WriteList, At, Inv, TypeOK, RoundInv, Towards
<1>7. ASSUME NEW k \in Nodes,
             \/ AskPredecessor(k) \/ Notify(k) \/ ReadList(k) \/ ReadFails(k)
             \/ CheckPredecessor(k) \/ PingTimesOut(k)
      PROVE  Successors'[n] = Successors[n]
    BY <1>7 DEF AskPredecessor, Notify, ReadList, ReadFails, CheckPredecessor, PingTimesOut, Forget
<1>8. CASE UNCHANGED vars
    BY <1>8 DEF vars
<1> QED
    BY <1>1, <1>2, <1>3, <1>4, <1>5, <1>6, <1>7, <1>8 DEF Next, Stabilize

\* stabilize never trades a successor that runs for one further away, however its steps
\* interleave with those of the successor and with joins and crashes.
THEOREM SuccessorsImprove == Spec => SuccessorImproves
<1>1. Inv /\ [Next]_vars => [Improves]_vars
    BY StepImproves
<1> QED
    BY <1>1, Invariance, PTL DEF Spec, SuccessorImproves, Improves

----------------------------------------------------------------------------
(* Whom a node goes for *)

NobodyDown == \A n \in Nodes : status[n] # "down"

\* m is the first of the list that runs.
Heads(list, m) ==
    \E i \in DOMAIN list : list[i] = m /\ Up(m) /\ \A j \in 1 .. i - 1 : ~Up(list[j])

\* n has a candidate that runs.
Pending(n) == stage[n] \in {"notify", "read"} /\ Up(succAddr[n])

\* The list that counts: the one n is about to write, if there is one.
Current(n) == IF stage[n] = "write" THEN newList[n] ELSE Successors[n]

\* n goes for m: m is the candidate of its round or the first of its list.
Aims(n, m) == IF Pending(n) THEN m = succAddr[n] ELSE Heads(Current(n), m)

\* Everybody named anywhere has joined, and a node that does not run names nobody.
Mentions ==
    \A n \in Nodes :
        /\ \A i \in DOMAIN Successors[n] : status[Successors[n][i]] # "absent"
        /\ \A i \in DOMAIN newList[n] : status[newList[n][i]] # "absent"
        /\ succAddr[n] # Nobody => status[succAddr[n]] # "absent"
        /\ Predecessor[n] # Nobody => status[Predecessor[n]] # "absent"
        /\ ~Up(n) => Predecessor[n] = Nobody

\* A node goes for whoever has it as predecessor.
PredecessorsAim ==
    \A m \in Live : Predecessor[m] \in Live => Aims(Predecessor[m], m)

AimInv == Mentions /\ PredecessorsAim

\* Nobody goes for two nodes.
LEMMA OneAim ==
    ASSUME Inv, NEW n \in Nodes, NEW m, NEW k, Aims(n, m), Aims(n, k) PROVE m = k
<1>1. CASE Pending(n)
    BY <1>1 DEF Aims
<1>2. CASE ~Pending(n)
  <2>1. Current(n) \in Seq(Nodes)
      BY DEF Inv, TypeOK, Current
  <2>2. PICK i \in DOMAIN Current(n) :
          Current(n)[i] = m /\ Up(m) /\ \A j \in 1 .. i - 1 : ~Up(Current(n)[j])
      BY <1>2 DEF Aims, Heads
  <2>3. PICK l \in DOMAIN Current(n) :
          Current(n)[l] = k /\ Up(k) /\ \A j \in 1 .. l - 1 : ~Up(Current(n)[j])
      BY <1>2 DEF Aims, Heads
  <2>4. i \in Nat /\ l \in Nat /\ i >= 1 /\ l >= 1
      BY <2>1
  <2>5. ~(i < l) /\ ~(l < i)
      BY <2>2, <2>3, <2>4
  <2> QED
      BY <2>2, <2>3, <2>4, <2>5
<1> QED
    BY <1>1, <1>2

\* Only a node that runs is gone for.
LEMMA AimsLive ==
    ASSUME Inv, NEW n \in Nodes, NEW m, Aims(n, m) PROVE m \in Live
<1>1. CASE Pending(n)
    BY <1>1 DEF Aims, Pending, Live, Inv, TypeOK
<1>2. CASE ~Pending(n)
  <2>1. Current(n) \in Seq(Nodes)
      BY DEF Inv, TypeOK, Current
  <2> QED
      BY <1>2, <2>1 DEF Aims, Heads, Live
<1> QED
    BY <1>1, <1>2

\* The tail of a list from its first that runs has the same first.
LEMMA HeadsFrom ==
    ASSUME NEW s \in Seq(Nodes), NEW i \in DOMAIN s, Up(s[i]), \A j \in 1 .. i - 1 : ~Up(s[j]),
           NEW m
    PROVE  Heads(SubSeq(s, i, Len(s)), m) <=> Heads(s, m)
<1> DEFINE rest == SubSeq(s, i, Len(s))
<1>1. /\ rest \in Seq(Nodes) /\ Len(rest) = Len(s) - i + 1 /\ rest[1] = s[i]
      /\ i \in Nat /\ i >= 1 /\ i <= Len(s) /\ Len(s) \in Nat
    BY ListFrom
<1> HIDE DEF rest
<1>2. Heads(rest, m) <=> m = s[i]
  <2>1. 1 \in DOMAIN rest /\ \A j \in DOMAIN rest : j # 1 => 1 \in 1 .. j - 1
      BY <1>1
  <2>2. Up(rest[1]) /\ 1 .. 1 - 1 = {}
      BY <1>1
  <2>3. ASSUME Heads(rest, m) PROVE m = rest[1]
    <3>1. PICK l \in DOMAIN rest : rest[l] = m /\ \A j \in 1 .. l - 1 : ~Up(rest[j])
        BY <2>3 DEF Heads
    <3>2. l = 1
        BY <2>1, <2>2, <3>1
    <3> QED
        BY <3>1, <3>2
  <2>4. Heads(rest, rest[1])
      BY <2>1, <2>2 DEF Heads
  <2> QED
      BY <1>1, <2>3, <2>4
<1>3. Heads(s, m) <=> m = s[i]
  <2>1. ASSUME NEW l \in DOMAIN s, Up(s[l]), \A j \in 1 .. l - 1 : ~Up(s[j]) PROVE l = i
    <3>1. l \in Nat /\ l >= 1
        OBVIOUS
    <3>2. ~(i < l) /\ ~(l < i)
        BY <1>1, <2>1, <3>1
    <3> QED
        BY <1>1, <3>1, <3>2
  <2> QED
      BY <2>1 DEF Heads
<1> QED
    BY <1>2, <1>3 DEF rest

----------------------------------------------------------------------------
(* What a step changes of that *)

\* Where the node stands the same, it goes for the same.
LEMMA SameAim ==
    ASSUME status' = status, NEW k, NEW t,
           Current(k)' = Current(k), Pending(k)' <=> Pending(k),
           Pending(k) => succAddr'[k] = succAddr[k]
    PROVE  Aims(k, t)' <=> Aims(k, t)
<1>1. \A m : Up(m)' <=> Up(m)
    BY DEF Up
<1>2. Heads(Current(k), t)' <=> Heads(Current(k), t)
    BY <1>1 DEF Heads
<1> QED
    BY <1>2 DEF Aims

\* The rounds change what their node goes for in two places only: where it takes its
\* successor's predecessor, and where it is left to itself.  The search for the first
\* that runs is none of them.
LEMMA FindAliveAims ==
    ASSUME Inv, NEW n \in Nodes, FindAlive(n), NEW k \in Nodes, NEW t
    PROVE  Aims(k, t)' <=> Aims(k, t)
<1>1. PICK i \in DOMAIN Successors[n] :
        /\ At(n, "idle")
        /\ Up(Successors[n][i]) /\ \A j \in 1 .. i - 1 : ~Up(Successors[n][j])
        /\ Successors' = [Successors EXCEPT ![n] = SubSeq(@, i, Len(@))]
        /\ stage' = [stage EXCEPT ![n] = "ask"]
        /\ succAddr' = [succAddr EXCEPT ![n] = Successors[n][i]]
        /\ UNCHANGED <<status, Predecessor, newList>>
    BY DEF FindAlive
<1>2. CASE k # n
  <2>1. Current(k)' = Current(k) /\ (Pending(k)' <=> Pending(k)) /\ succAddr'[k] = succAddr[k]
      BY <1>1, <1>2 DEF Current, Pending, Up, Inv, TypeOK
  <2>2. status' = status
      BY <1>1
  <2> QED
      BY <2>1, <2>2, SameAim
<1>3. CASE k = n
  <2> DEFINE s == Successors[n]
             rest == SubSeq(s, i, Len(s))
  <2>1. s \in Seq(Nodes) /\ i \in DOMAIN s
      BY <1>1 DEF Inv, TypeOK
  <2>2. Heads(rest, t) <=> Heads(s, t)
      BY <1>1, <2>1, HeadsFrom
  <2>3. Aims(n, t) <=> Heads(s, t)
      BY <1>1 DEF At, Aims, Pending, Current
  <2>4. stage'[n] = "ask" /\ Successors'[n] = rest
      BY <1>1 DEF Inv, TypeOK
  <2>5. \A m : Up(m)' <=> Up(m)
      BY <1>1 DEF Up
  <2>6. ~Pending(n)' /\ Current(n)' = rest
      BY <2>4 DEF Pending, Current
  <2> HIDE DEF rest
  <2>7. Aims(n, t)' <=> Heads(rest, t)
      BY <2>5, <2>6 DEF Aims, Heads
  <2> QED
      BY <1>3, <2>2, <2>3, <2>7
<1> QED
    BY <1>2, <1>3

\* A node that is left to itself goes for itself.
LEMMA NoneAliveAims ==
    ASSUME Inv, NEW n \in Nodes, NoneAlive(n), NEW k \in Nodes, NEW t
    PROVE  /\ k # n => (Aims(k, t)' <=> Aims(k, t))
           /\ ~Aims(n, t) /\ (Aims(n, t)' <=> t = n)
<1>1. /\ At(n, "idle") /\ \A i \in DOMAIN Successors[n] : ~Up(Successors[n][i])
      /\ Successors' = [Successors EXCEPT ![n] = <<n>>]
      /\ UNCHANGED <<status, Predecessor, stage, succAddr, newList>>
    BY DEF NoneAlive, locals
<1>2. ASSUME k # n PROVE Aims(k, t)' <=> Aims(k, t)
  <2>1. Current(k)' = Current(k) /\ (Pending(k)' <=> Pending(k)) /\ succAddr'[k] = succAddr[k]
      BY <1>1, <1>2 DEF Current, Pending, Up, Inv, TypeOK
  <2>2. status' = status
      BY <1>1
  <2> QED
      BY <2>1, <2>2, SameAim
<1>3. ~Aims(n, t)
    BY <1>1 DEF At, Aims, Pending, Current, Heads
<1>4. ~Pending(n)' /\ Current(n)' = <<n>>
    BY <1>1 DEF At, Pending, Current, Inv, TypeOK
<1>5. Up(n)'
    BY <1>1 DEF At, Up
<1>6. Heads(<<n>>, t)' <=> t = n
  <2>1. DOMAIN <<n>> = {1} /\ <<n>>[1] = n /\ 1 .. 1 - 1 = {}
      OBVIOUS
  <2> QED
      BY <1>5, <2>1 DEF Heads
<1>7. Aims(n, t)' <=> t = n
    BY <1>4, <1>6 DEF Aims, Heads
<1> QED
    BY <1>2, <1>3, <1>7

\* Nothing changes when it notifies its candidate,
LEMMA NotifyAims ==
    ASSUME Inv, NEW n \in Nodes, Notify(n), NEW k \in Nodes, NEW t
    PROVE  Aims(k, t)' <=> Aims(k, t)
<1>1. Current(k)' = Current(k) /\ (Pending(k)' <=> Pending(k)) /\ succAddr'[k] = succAddr[k]
    BY DEF Notify, At, Current, Pending, Up, Inv, TypeOK
<1>2. status' = status
    BY DEF Notify
<1> QED
    BY <1>1, <1>2, SameAim

\* or reads a list that starts with the candidate,
LEMMA ReadListAims ==
    ASSUME Inv, NEW n \in Nodes, ReadList(n), NEW k \in Nodes, NEW t
    PROVE  Aims(k, t)' <=> Aims(k, t)
<1> DEFINE m == succAddr[n]
           list == Truncated(<<m>> \o Successors[m])
<1>1. m \in Nodes /\ Successors[m] \in Seq(Nodes) /\ Up(m)
    BY DEF Inv, TypeOK, ReadList, At
<1>2. list \in Seq(Nodes) /\ list # <<>> /\ list[1] = m
    BY <1>1, Prepend
<1>3. /\ newList' = [newList EXCEPT ![n] = list]
      /\ stage' = [stage EXCEPT ![n] = "write"]
      /\ succAddr' = [succAddr EXCEPT ![n] = Nobody]
      /\ At(n, "read")
      /\ UNCHANGED <<status, Successors, Predecessor>>
    BY DEF ReadList
<1> HIDE DEF list
<1>4. CASE k # n
  <2>1. Current(k)' = Current(k) /\ (Pending(k)' <=> Pending(k)) /\ succAddr'[k] = succAddr[k]
      BY <1>3, <1>4 DEF Current, Pending, Up, Inv, TypeOK
  <2>2. status' = status
      BY <1>3
  <2> QED
      BY <2>1, <2>2, SameAim
<1>5. CASE k = n
  <2>1. Aims(n, t) <=> t = m
      BY <1>1, <1>3 DEF At, Aims, Pending
  <2>2. ~Pending(n)' /\ Current(n)' = list
      BY <1>3 DEF Pending, Current, Inv, TypeOK
  <2>3. \A j : Up(j)' <=> Up(j)
      BY <1>3 DEF Up
  <2>4. Heads(list, t) <=> t = m
    <3>1. 1 \in DOMAIN list /\ \A j \in DOMAIN list : j # 1 => 1 \in 1 .. j - 1
        BY <1>2
    <3> QED
        BY <1>1, <1>2, <3>1 DEF Heads
  <2>5. Aims(n, t)' <=> Heads(list, t)
      BY <2>2, <2>3 DEF Aims, Heads
  <2> QED
      BY <1>5, <2>1, <2>4, <2>5
<1> QED
    BY <1>4, <1>5

\* or gives up a candidate that has crashed,
LEMMA ReadFailsAims ==
    ASSUME Inv, NEW n \in Nodes, ReadFails(n), NEW k \in Nodes, NEW t
    PROVE  Aims(k, t)' <=> Aims(k, t)
<1>1. /\ Current(k)' = Current(k) /\ (Pending(k)' <=> Pending(k))
      /\ Pending(k) => succAddr'[k] = succAddr[k]
    BY NodeAssumption DEF ReadFails, At, Current, Pending, Up, Inv, TypeOK
<1>2. status' = status
    BY DEF ReadFails
<1> QED
    BY <1>1, <1>2, SameAim

\* or writes the list that counts already,
LEMMA WriteListAims ==
    ASSUME Inv, NEW n \in Nodes, WriteList(n), NEW k \in Nodes, NEW t
    PROVE  Aims(k, t)' <=> Aims(k, t)
<1>1. /\ Current(k)' = Current(k) /\ (Pending(k)' <=> Pending(k))
      /\ Pending(k) => succAddr'[k] = succAddr[k]
    BY DEF WriteList, At, Current, Pending, Up, Inv, TypeOK
<1>2. status' = status
    BY DEF WriteList
<1> QED
    BY <1>1, <1>2, SameAim

\* or forgets its predecessor.
LEMMA ForgetAims ==
    ASSUME Inv, NEW n \in Nodes, Forget(n), NEW k \in Nodes, NEW t
    PROVE  Aims(k, t)' <=> Aims(k, t)
<1>1. status' = status /\ Current(k)' = Current(k) /\ (Pending(k)' <=> Pending(k))
      /\ succAddr'[k] = succAddr[k]
    BY DEF Forget, locals, Current, Pending, Up
<1> QED
    BY <1>1, SameAim

\* A node that asks goes for the predecessor of its successor if that runs and lies between,
\* and otherwise for whom it went for before.
LEMMA AskPredecessorAims ==
    ASSUME Inv, NEW n \in Nodes, AskPredecessor(n), NEW k \in Nodes, NEW t,
           ~(Aims(k, t)' <=> Aims(k, t))
    PROVE  \E s, x \in Live :
               /\ k = n /\ x = Predecessor[s] /\ between(n, x, s)
               /\ Aims(n, s) /\ \A m : Aims(n, m)' <=> m = x
<1> DEFINE s == succAddr[n]
           x == Predecessor[s]
           y == IF Up(s) /\ Closer(n, x) THEN x ELSE s
<1>1. /\ At(n, "ask") /\ s \in Nodes /\ s = Successors[n][1]
      /\ Successors[n] \in Seq(Nodes) /\ Successors[n] # <<>>
    BY DEF AskPredecessor, At, Inv, TypeOK, RoundInv
<1>2. /\ stage' = [stage EXCEPT ![n] = "notify"]
      /\ succAddr' = [succAddr EXCEPT ![n] = y]
      /\ UNCHANGED <<status, Successors, Predecessor, newList>>
    BY DEF AskPredecessor
<1>3. stage'[n] = "notify" /\ succAddr'[n] = y /\ status' = status
    BY <1>2 DEF Inv, TypeOK
<1>4. ASSUME k # n PROVE FALSE
  <2>1. Current(k)' = Current(k) /\ (Pending(k)' <=> Pending(k)) /\ succAddr'[k] = succAddr[k]
      BY <1>2, <1>4 DEF Current, Pending, Up, Inv, TypeOK
  <2> QED
      BY <1>3, <2>1, SameAim
<1>5. Current(n)' = Current(n) /\ ~Pending(n) /\ Current(n) = Successors[n]
    BY <1>1, <1>2 DEF At, Current, Pending, Inv, TypeOK
<1>6. \A m : Up(m)' <=> Up(m)
    BY <1>2 DEF Up
<1>7. \A m : Up(s) => (Aims(n, m) <=> m = s)
  <2>1. 1 \in DOMAIN Successors[n] /\ \A j \in DOMAIN Successors[n] : j # 1 => 1 \in 1 .. j - 1
      BY <1>1
  <2> QED
      BY <1>1, <1>5, <2>1 DEF Aims, Heads
<1>8. y \in Nodes
    BY <1>1 DEF Closer, Inv, TypeOK
<1>9. PICK z \in Nodes : z = y
    BY <1>8
<1>10. CASE ~Up(z)
  <2>1. ~Pending(n)'
      BY <1>3, <1>6, <1>9, <1>10 DEF Pending
  <2> QED
      BY <1>4, <1>5, <1>6, <2>1 DEF Aims, Heads
<1>11. CASE Up(z)
  <2>1. Pending(n)' /\ \A m : Aims(n, m)' <=> m = z
    <3>1. succAddr'[n] = z /\ stage'[n] = "notify"
        BY <1>3, <1>9
    <3>2. Pending(n)'
        BY <3>1, <1>6, <1>11 DEF Pending
    <3> QED
        BY <3>1, <3>2 DEF Aims
  <2>2. k = n
      BY <1>4
  <2>3. Up(s) /\ Closer(n, x)
      BY <1>7, <1>9, <1>11, <2>1, <2>2
  <2>4. z = x /\ z \in Live /\ s \in Live /\ between(n, x, s)
      BY <1>1, <1>9, <1>11, <2>3 DEF Live, Closer
  <2>5. PICK r \in Live : r = s
      BY <2>4
  <2>6. z = Predecessor[r] /\ between(n, z, r) /\ Aims(n, r)
      BY <1>7, <2>3, <2>4, <2>5
  <2> QED
      BY <2>1, <2>2, <2>4, <2>6
<1> QED
    BY <1>10, <1>11

\* A node that joins goes for its contact; the others go for whom they went for.
LEMMA StartServerAims ==
    ASSUME Inv, Mentions, NEW n \in Nodes, NEW nprime \in Nodes, StartServer(n, nprime),
           NEW k \in Nodes, NEW t
    PROVE  /\ k # n => (Aims(k, t)' <=> Aims(k, t))
           /\ Aims(n, t)' <=> t = nprime
<1>1. /\ status[n] = "absent" /\ Up(nprime)
      /\ status' = [status EXCEPT ![n] = "up"]
      /\ Successors' = [Successors EXCEPT ![n] = <<nprime>>]
      /\ UNCHANGED <<Predecessor, stage, succAddr, newList>>
    BY DEF StartServer, locals
<1>2. \A m \in Nodes : m # n => (Up(m)' <=> Up(m))
    BY <1>1 DEF Up, Inv, TypeOK
<1>3. ASSUME k # n PROVE Aims(k, t)' <=> Aims(k, t)
  <2>1. Current(k)' = Current(k) /\ succAddr'[k] = succAddr[k] /\ stage'[k] = stage[k]
      BY <1>1, <1>3 DEF Current, Inv, TypeOK
  <2>2. \A i \in DOMAIN Current(k) : Current(k)[i] \in Nodes /\ Current(k)[i] # n
    <3>1. Current(k) \in Seq(Nodes)
        BY DEF Current, Inv, TypeOK
    <3>2. \A i \in DOMAIN Current(k) : status[Current(k)[i]] # "absent"
        BY DEF Current, Mentions
    <3> QED
        BY <1>1, <3>1, <3>2
  <2>3. \A i \in DOMAIN Current(k) : Up(Current(k)[i])' <=> Up(Current(k)[i])
    <3> SUFFICES ASSUME NEW i \in DOMAIN Current(k), NEW m \in Nodes, m = Current(k)[i]
                 PROVE  Up(Current(k)[i])' <=> Up(m)
        BY <2>2
    <3>1. m = (Current(k)[i])'
        BY <2>1
    <3> QED
        BY <1>2, <2>2, <3>1 DEF Up
  <2>4. DOMAIN Current(k) = 1 .. Len(Current(k)) /\ Len(Current(k)) \in Nat
      BY DEF Current, Inv, TypeOK
  <2>5. Heads(Current(k), t)' <=> Heads(Current(k), t)
    <3>1. \A i \in DOMAIN Current(k) : \A j \in 1 .. i - 1 : j \in DOMAIN Current(k)
        BY <2>4
    <3>2. \A i \in DOMAIN Current(k) : (Current(k)[i])' = Current(k)[i]
        BY <2>1
    <3> QED
        BY <2>1, <2>3, <3>1, <3>2 DEF Heads
  <2>6. Pending(k)' <=> Pending(k)
      BY <1>1, <1>2, <2>1, NodeAssumption DEF Pending, Mentions, Inv, TypeOK
  <2> QED
      BY <2>1, <2>5, <2>6 DEF Aims
<1>4. stage[n] = "idle" /\ nprime # n
    BY <1>1 DEF Inv, RoundInv, Up
<1>5. ~Pending(n)' /\ Current(n)' = <<nprime>> /\ Up(nprime)'
    BY <1>1, <1>2, <1>4 DEF Pending, Current, Inv, TypeOK
<1>6. Heads(<<nprime>>, t)' <=> t = nprime
  <2>1. DOMAIN <<nprime>> = {1} /\ <<nprime>>[1] = nprime /\ 1 .. 1 - 1 = {}
      OBVIOUS
  <2> QED
      BY <1>5, <2>1 DEF Heads
<1>7. Aims(n, t)' <=> t = nprime
    BY <1>5, <1>6 DEF Aims, Heads
<1> QED
    BY <1>3, <1>7

\* A crash moves only the nodes that went for the one that crashes.
LEMMA CrashAims ==
    ASSUME Inv, NEW n \in Nodes, Crash(n), NEW k \in Nodes \ {n}, NEW t, t # n, Aims(k, t)
    PROVE  Aims(k, t)'
<1>1. /\ status' = [status EXCEPT ![n] = "down"]
      /\ Successors' = [Successors EXCEPT ![n] = <<>>]
      /\ newList' = [newList EXCEPT ![n] = <<>>]
      /\ stage' = [stage EXCEPT ![n] = "idle"]
      /\ succAddr' = [succAddr EXCEPT ![n] = Nobody]
    BY DEF Crash
<1>2. /\ Current(k)' = Current(k) /\ succAddr'[k] = succAddr[k] /\ stage'[k] = stage[k]
    BY <1>1 DEF Current, Inv, TypeOK
<1>3. t \in Live /\ t \in Nodes
    BY AimsLive DEF Live
<1>4. \A m \in Nodes : Up(m)' <=> Up(m) /\ m # n
    BY <1>1 DEF Up, Inv, TypeOK
<1>5. CASE Pending(k)
  <2>1. t = succAddr[k]
      BY <1>5 DEF Aims
  <2>2. Pending(k)'
      BY <1>2, <1>3, <1>4, <1>5, <2>1 DEF Pending, Live
  <2> QED
      BY <1>2, <2>1, <2>2 DEF Aims
<1>6. CASE ~Pending(k)
  <2>1. ~Pending(k)'
      BY <1>2, <1>4, <1>6 DEF Pending, Inv, TypeOK
  <2>2. Current(k) \in Seq(Nodes)
      BY DEF Current, Inv, TypeOK
  <2>3. PICK i \in DOMAIN Current(k) :
          Current(k)[i] = t /\ Up(t) /\ \A j \in 1 .. i - 1 : ~Up(Current(k)[j])
      BY <1>6 DEF Aims, Heads
  <2>4. ASSUME NEW j \in 1 .. i - 1 PROVE ~Up(Current(k)[j])'
    <3>1. PICK m \in Nodes : m = Current(k)[j]
        BY <2>2
    <3>2. m = (Current(k)[j])' /\ ~Up(m)
        BY <1>2, <2>3, <3>1
    <3> QED
        BY <1>4, <3>2 DEF Up
  <2>5. Heads(Current(k), t)'
      BY <1>2, <1>3, <1>4, <2>3, <2>4 DEF Heads
  <2> QED
      BY <2>1, <2>5 DEF Aims
<1> QED
    BY <1>5, <1>6

----------------------------------------------------------------------------
(* A node goes for whoever has it as predecessor *)

\* Every entry of a tail is one of the list.
LEMMA TailEntries ==
    ASSUME NEW s \in Seq(Nodes), NEW i \in DOMAIN s, NEW j \in DOMAIN SubSeq(s, i, Len(s))
    PROVE  /\ SubSeq(s, i, Len(s))[j] = s[i + j - 1] /\ i + j - 1 \in DOMAIN s
           /\ j + 1 \in DOMAIN SubSeq(s, i, Len(s)) <=> i + j \in DOMAIN s
OBVIOUS

\* The entries of the new list are the neighbour and, one place later, its list.
LEMMA PrependEntries ==
    ASSUME NEW s \in Seq(Nodes), NEW m \in Nodes, NEW j \in DOMAIN Truncated(<<m>> \o s)
    PROVE  /\ j = 1 => Truncated(<<m>> \o s)[j] = m
           /\ j # 1 => Truncated(<<m>> \o s)[j] = s[j - 1] /\ j - 1 \in DOMAIN s
           /\ j \in Nat /\ j >= 1
<1>1. /\ <<m>> \o s \in Seq(Nodes) /\ Len(<<m>> \o s) = Len(s) + 1 /\ (<<m>> \o s)[1] = m
      /\ \A i \in 2 .. Len(s) + 1 : (<<m>> \o s)[i] = s[i - 1]
    OBVIOUS
<1>2. /\ j \in 1 .. Len(s) + 1 /\ Truncated(<<m>> \o s)[j] = (<<m>> \o s)[j]
    BY <1>1, NodeAssumption DEF Truncated
<1> QED
    BY <1>1, <1>2

\* A step that leaves the status and adds names only of nodes that have joined.
LEMMA NamesKept ==
    ASSUME Inv, Mentions, status' = status,
           \A k \in Nodes : \A i \in DOMAIN Successors'[k] : status[Successors'[k][i]] # "absent",
           \A k \in Nodes : \A i \in DOMAIN newList'[k] : status[newList'[k][i]] # "absent",
           \A k \in Nodes : succAddr'[k] # Nobody => status[succAddr'[k]] # "absent",
           \A k \in Nodes : Predecessor'[k] # Nobody => status[Predecessor'[k]] # "absent",
           \A k \in Nodes : ~Up(k) => Predecessor'[k] = Nobody
    PROVE  Mentions'
BY DEF Mentions, Up

\* Nobody is named before it joins.
LEMMA NextMentions ==
    ASSUME Inv, Mentions, [Next]_vars PROVE Mentions'
<1>0. /\ Successors \in [Nodes -> Seq(Nodes)] /\ newList \in [Nodes -> Seq(Nodes)]
      /\ Predecessor \in [Nodes -> Nodes \cup {Nobody}] /\ succAddr \in [Nodes -> Nodes \cup {Nobody}]
      /\ status \in [Nodes -> {"absent", "up", "down"}]
    BY DEF Inv, TypeOK
<1>1. ASSUME NEW n \in Nodes, NEW nprime \in Nodes, StartServer(n, nprime) PROVE Mentions'
  <2>1. /\ status' = [status EXCEPT ![n] = "up"] /\ status[nprime] = "up"
        /\ Successors' = [Successors EXCEPT ![n] = <<nprime>>]
        /\ UNCHANGED <<Predecessor, stage, succAddr, newList>>
      BY <1>1 DEF StartServer, locals, Up
  <2>2. \A k \in Nodes : status[k] # "absent" => status'[k] # "absent"
      BY <1>0, <2>1
  <2>3. ASSUME NEW k \in Nodes, NEW i \in DOMAIN Successors'[k]
        PROVE  status'[Successors'[k][i]] # "absent"
    <3>1. CASE k = n
        BY <1>0, <2>1, <2>2, <2>3, <3>1
    <3>2. CASE k # n
        BY <1>0, <2>1, <2>2, <2>3, <3>2 DEF Mentions
    <3> QED
        BY <3>1, <3>2
  <2>4. ASSUME NEW k \in Nodes, NEW i \in DOMAIN newList'[k]
        PROVE  status'[newList'[k][i]] # "absent"
      BY <1>0, <2>1, <2>2, <2>4 DEF Mentions
  <2>5. ASSUME NEW k \in Nodes
        PROVE  /\ succAddr'[k] # Nobody => status'[succAddr'[k]] # "absent"
               /\ Predecessor'[k] # Nobody => status'[Predecessor'[k]] # "absent"
               /\ ~Up(k)' => Predecessor'[k] = Nobody
      BY <1>0, <2>1, <2>2 DEF Mentions, Up
  <2> QED
      BY <2>3, <2>4, <2>5 DEF Mentions
<1>2. ASSUME NEW n \in Nodes, Crash(n) PROVE Mentions'
  <2>1. /\ status' = [status EXCEPT ![n] = "down"]
        /\ Successors' = [Successors EXCEPT ![n] = <<>>]
        /\ newList' = [newList EXCEPT ![n] = <<>>]
        /\ Predecessor' = [Predecessor EXCEPT ![n] = Nobody]
        /\ succAddr' = [succAddr EXCEPT ![n] = Nobody]
      BY <1>2 DEF Crash
  <2>2. \A k \in Nodes : status[k] # "absent" => status'[k] # "absent"
      BY <1>0, <2>1
  <2>3. ASSUME NEW k \in Nodes, NEW i \in DOMAIN Successors'[k]
        PROVE  status'[Successors'[k][i]] # "absent"
      BY <1>0, <2>1, <2>2, <2>3 DEF Mentions
  <2>4. ASSUME NEW k \in Nodes, NEW i \in DOMAIN newList'[k]
        PROVE  status'[newList'[k][i]] # "absent"
      BY <1>0, <2>1, <2>2, <2>4 DEF Mentions
  <2>5. ASSUME NEW k \in Nodes
        PROVE  /\ succAddr'[k] # Nobody => status'[succAddr'[k]] # "absent"
               /\ Predecessor'[k] # Nobody => status'[Predecessor'[k]] # "absent"
               /\ ~Up(k)' => Predecessor'[k] = Nobody
      BY <1>0, <2>1, <2>2 DEF Mentions, Up
  <2> QED
      BY <2>3, <2>4, <2>5 DEF Mentions
<1>3. ASSUME NEW n \in Nodes, FindAlive(n) PROVE Mentions'
  <2>1. PICK i \in DOMAIN Successors[n] :
          /\ Successors' = [Successors EXCEPT ![n] = SubSeq(@, i, Len(@))]
          /\ succAddr' = [succAddr EXCEPT ![n] = Successors[n][i]]
          /\ UNCHANGED <<status, Predecessor, newList>>
      BY <1>3 DEF FindAlive
  <2>2. ASSUME NEW k \in Nodes, NEW j \in DOMAIN Successors'[k]
        PROVE  status[Successors'[k][j]] # "absent"
    <3>1. CASE k = n
      <4>1. Successors'[n] = SubSeq(Successors[n], i, Len(Successors[n]))
          BY <1>0, <2>1
      <4>2. Successors'[n][j] = Successors[n][i + j - 1] /\ i + j - 1 \in DOMAIN Successors[n]
          BY <1>0, <2>2, <3>1, <4>1, TailEntries
      <4> QED
          BY <3>1, <4>2 DEF Mentions
    <3>2. CASE k # n
        BY <1>0, <2>1, <2>2, <3>2 DEF Mentions
    <3> QED
        BY <3>1, <3>2
  <2> QED
      BY <1>0, <2>1, <2>2, NamesKept DEF Mentions
<1>4. ASSUME NEW n \in Nodes, NoneAlive(n) PROVE Mentions'
  <2>1. /\ Successors' = [Successors EXCEPT ![n] = <<n>>] /\ status[n] = "up"
        /\ UNCHANGED <<status, Predecessor, stage, succAddr, newList>>
      BY <1>4 DEF NoneAlive, locals, At, Up
  <2>2. ASSUME NEW k \in Nodes, NEW j \in DOMAIN Successors'[k]
        PROVE  status[Successors'[k][j]] # "absent"
    <3>1. CASE k = n
        BY <1>0, <2>1, <2>2, <3>1
    <3>2. CASE k # n
        BY <1>0, <2>1, <2>2, <3>2 DEF Mentions
    <3> QED
        BY <3>1, <3>2
  <2> QED
      BY <1>0, <2>1, <2>2, NamesKept DEF Mentions
<1>5. ASSUME NEW n \in Nodes, AskPredecessor(n) PROVE Mentions'
  <2>1. \A k \in Nodes : succAddr'[k] # Nobody => status[succAddr'[k]] # "absent"
    <3>1. succAddr[n] \in Nodes
        BY <1>5, <1>0 DEF AskPredecessor, At, Inv, TypeOK
    <3> QED
        BY <1>0, <1>5, <3>1 DEF AskPredecessor, Closer, Mentions
  <2>2. UNCHANGED <<status, Successors, Predecessor, newList>>
      BY <1>5 DEF AskPredecessor
  <2> QED
      BY <2>1, <2>2, NamesKept DEF Mentions
<1>6. ASSUME NEW n \in Nodes, Notify(n) PROVE Mentions'
  <2>1. PICK m \in Nodes : m = succAddr[n]
      BY <1>0, <1>6 DEF Notify, At, Inv, TypeOK
  <2>2. /\ Predecessor' = [Predecessor EXCEPT ![m] = IF Up(m) THEN Notified(m, @, n) ELSE @]
        /\ UNCHANGED <<status, Successors, succAddr, newList>> /\ status[n] = "up"
      BY <1>6, <2>1 DEF Notify, At, Up
  <2>3. \A k \in Nodes : \/ Predecessor'[k] = Predecessor[k]
                         \/ k = m /\ Up(m) /\ Predecessor'[k] = n
    <3> SUFFICES ASSUME NEW k \in Nodes
                 PROVE  \/ Predecessor'[k] = Predecessor[k]
                        \/ k = m /\ Up(m) /\ Predecessor'[k] = n
        OBVIOUS
    <3>1. CASE k # m
        BY <1>0, <2>2, <3>1
    <3>2. CASE k = m
        BY <1>0, <2>2, <3>2 DEF Notified
    <3> QED
        BY <3>1, <3>2
  <2> QED
      BY <2>2, <2>3, NamesKept DEF Mentions
<1>7. ASSUME NEW n \in Nodes, ReadList(n) PROVE Mentions'
  <2>1. PICK m \in Nodes : m = succAddr[n] /\ status[m] = "up"
      BY <1>0, <1>7 DEF ReadList, At, Inv, TypeOK, Up
  <2> DEFINE list == Truncated(<<m>> \o Successors[m])
  <2>2. /\ newList' = [newList EXCEPT ![n] = list]
        /\ succAddr' = [succAddr EXCEPT ![n] = Nobody]
        /\ UNCHANGED <<status, Successors, Predecessor>>
      BY <1>7, <2>1 DEF ReadList
  <2>3. ASSUME NEW j \in DOMAIN list PROVE status[list[j]] # "absent"
    <3>1. /\ j = 1 => list[j] = m
          /\ j # 1 => list[j] = Successors[m][j - 1] /\ j - 1 \in DOMAIN Successors[m]
        BY <1>0, <2>3, PrependEntries
    <3> QED
        BY <2>1, <3>1 DEF Mentions
  <2> HIDE DEF list
  <2>4. ASSUME NEW k \in Nodes, NEW j \in DOMAIN newList'[k]
        PROVE  status[newList'[k][j]] # "absent"
    <3>1. CASE k = n
        BY <1>0, <2>2, <2>3, <2>4, <3>1
    <3>2. CASE k # n
        BY <1>0, <2>2, <2>4, <3>2 DEF Mentions
    <3> QED
        BY <3>1, <3>2
  <2>5. \A k \in Nodes : succAddr'[k] # Nobody => status[succAddr'[k]] # "absent"
      BY <1>0, <2>2 DEF Mentions
  <2> QED
      BY <2>2, <2>4, <2>5, NamesKept DEF Mentions
<1>8. ASSUME NEW n \in Nodes, ReadFails(n) PROVE Mentions'
  <2>1. \A k \in Nodes : succAddr'[k] # Nobody => status[succAddr'[k]] # "absent"
      BY <1>0, <1>8 DEF ReadFails, Mentions
  <2>2. UNCHANGED <<status, Successors, Predecessor, newList>>
      BY <1>8 DEF ReadFails
  <2> QED
      BY <2>1, <2>2, NamesKept DEF Mentions
<1>9. ASSUME NEW n \in Nodes, WriteList(n) PROVE Mentions'
  <2>1. /\ Successors' = [Successors EXCEPT ![n] = newList[n]]
        /\ newList' = [newList EXCEPT ![n] = <<>>]
        /\ UNCHANGED <<status, Predecessor, succAddr>>
      BY <1>9 DEF WriteList
  <2>2. ASSUME NEW k \in Nodes, NEW j \in DOMAIN Successors'[k]
        PROVE  status[Successors'[k][j]] # "absent"
      BY <1>0, <2>1, <2>2 DEF Mentions
  <2>3. ASSUME NEW k \in Nodes, NEW j \in DOMAIN newList'[k]
        PROVE  status[newList'[k][j]] # "absent"
      BY <1>0, <2>1, <2>3 DEF Mentions
  <2> QED
      BY <2>1, <2>2, <2>3, NamesKept DEF Mentions
<1>10. ASSUME NEW n \in Nodes, Forget(n) PROVE Mentions'
  <2>1. /\ Predecessor' = [Predecessor EXCEPT ![n] = Nobody]
        /\ UNCHANGED <<status, Successors, succAddr, newList>>
      BY <1>10 DEF Forget, locals
  <2>2. \A k \in Nodes : Predecessor'[k] \in {Nobody, Predecessor[k]}
      BY <1>0, <2>1
  <2> QED
      BY <2>1, <2>2, NamesKept DEF Mentions
<1>11. CASE UNCHANGED vars
    BY <1>11 DEF vars, Mentions, Up
<1> QED
    BY <1>1, <1>2, <1>3, <1>4, <1>5, <1>6, <1>7, <1>8, <1>9, <1>10, <1>11
       DEF Next, Stabilize, CheckPredecessor, PingTimesOut

\* What there is to show of the state after a step.
LEMMA PredecessorsAimAfter ==
    ASSUME \A m \in Live', p \in Live' : p = Predecessor'[m] => Aims(p, m)'
    PROVE  PredecessorsAim'
<1> SUFFICES ASSUME NEW m \in Live', Predecessor'[m] \in Live'
             PROVE  Aims(Predecessor[m], m)'
    BY DEF PredecessorsAim
<1>1. PICK p \in Live' : p = Predecessor'[m]
    OBVIOUS
<1>2. Aims(p, m)'
    BY <1>1
<1> QED
    BY <1>1, <1>2 DEF Aims, Heads, Pending, Current, Up

\* A step that moves nobody and adds no predecessor.
LEMMA AimsKept ==
    ASSUME Inv, PredecessorsAim, status' = status,
           \A m \in Nodes : Predecessor'[m] \in {Nobody, Predecessor[m]},
           \A k \in Nodes, t \in Nodes : Aims(k, t) => Aims(k, t)'
    PROVE  PredecessorsAim'
<1>1. Live' = Live
    BY DEF Live, Up
<1>2. ASSUME NEW m \in Live, NEW p \in Live, p = Predecessor'[m] PROVE Aims(p, m)'
  <2>1. p = Predecessor[m] /\ p \in Nodes /\ m \in Nodes
      BY <1>2, NodeAssumption DEF Live
  <2>2. Aims(p, m)
      BY <2>1 DEF PredecessorsAim
  <2> QED
      BY <2>1, <2>2
<1> QED
    BY <1>1, <1>2, PredecessorsAimAfter

\* A node becomes a predecessor by notifying the node that it goes for, and it goes for
\* another only when that has another predecessor.
LEMMA NextPredecessorsAim ==
    ASSUME Inv, AimInv, [Next]_vars PROVE PredecessorsAim'
<1>0. /\ Predecessor \in [Nodes -> Nodes \cup {Nobody}]
      /\ status \in [Nodes -> {"absent", "up", "down"}]
      /\ Live \subseteq Nodes /\ Mentions /\ PredecessorsAim
    BY DEF Inv, TypeOK, Live, AimInv
<1>1. ASSUME NEW n \in Nodes, NEW nprime \in Nodes, StartServer(n, nprime) PROVE PredecessorsAim'
  <2>1. /\ Live' = Live \cup {n} /\ n \notin Live /\ Predecessor' = Predecessor
        /\ status[n] = "absent"
      BY <1>0, <1>1 DEF StartServer, Live, Up
  <2>2. Predecessor[n] = Nobody
      BY <1>0, <2>1 DEF Mentions, Up
  <2>3. ASSUME NEW m \in Live', NEW p \in Live', p = Predecessor'[m] PROVE Aims(p, m)'
    <3>1. m # n /\ m \in Live /\ p \in Nodes
        BY <1>0, <2>1, <2>2, <2>3, NodeAssumption
    <3>2. p # n /\ p \in Live
        BY <1>0, <2>1, <2>3, <3>1, NodeAssumption DEF Mentions
    <3>3. Aims(p, m)
        BY <1>0, <2>1, <2>3, <3>1, <3>2 DEF PredecessorsAim
    <3> QED
        BY <1>0, <1>1, <3>1, <3>2, <3>3, StartServerAims
  <2> QED
      BY <2>3, PredecessorsAimAfter
<1>2. ASSUME NEW n \in Nodes, Crash(n) PROVE PredecessorsAim'
  <2>1. /\ Live' = Live \ {n}
        /\ Predecessor' = [Predecessor EXCEPT ![n] = Nobody]
      BY <1>0, <1>2 DEF Crash, Live, Up
  <2>2. ASSUME NEW m \in Live', NEW p \in Live', p = Predecessor'[m] PROVE Aims(p, m)'
    <3>1. m \in Live \ {n} /\ p \in Live \ {n} /\ p = Predecessor[m]
        BY <1>0, <2>1, <2>2
    <3>2. Aims(p, m)
        BY <1>0, <3>1 DEF PredecessorsAim
    <3> QED
        BY <1>0, <1>2, <3>1, <3>2, CrashAims
  <2> QED
      BY <2>2, PredecessorsAimAfter
<1>3. ASSUME NEW n \in Nodes, FindAlive(n) PROVE PredecessorsAim'
  <2>1. status' = status /\ Predecessor' = Predecessor
      BY <1>3 DEF FindAlive
  <2>2. \A k \in Nodes, t \in Nodes : Aims(k, t) => Aims(k, t)'
      BY <1>3, FindAliveAims
  <2> QED
      BY <1>0, <2>1, <2>2, AimsKept
<1>4. ASSUME NEW n \in Nodes, NoneAlive(n) PROVE PredecessorsAim'
  <2>1. status' = status /\ Predecessor' = Predecessor
      BY <1>4 DEF NoneAlive
  <2>2. \A k \in Nodes, t \in Nodes : Aims(k, t) => Aims(k, t)'
      BY <1>4, NoneAliveAims
  <2> QED
      BY <1>0, <2>1, <2>2, AimsKept
<1>5. ASSUME NEW n \in Nodes, AskPredecessor(n) PROVE PredecessorsAim'
  <2>1. Predecessor' = Predecessor /\ Live' = Live
      BY <1>5 DEF AskPredecessor, Live, Up
  <2>2. ASSUME NEW m \in Live, NEW p \in Live, p = Predecessor[m] PROVE Aims(p, m)'
    <3>1. Aims(p, m) /\ p \in Nodes
        BY <1>0, <2>2 DEF PredecessorsAim
    <3>2. CASE ~Aims(p, m)'
      <4>1. PICK s \in Live, x \in Live :
              p = n /\ x = Predecessor[s] /\ between(n, x, s) /\ Aims(n, s)
          BY <1>5, <3>1, <3>2, AskPredecessorAims
      <4>2. s = m
          BY <3>1, <4>1, OneAim
      <4>3. between(n, n, m) /\ n \in Nat /\ m \in Nat
          BY <1>0, <2>2, <4>1, <4>2, NodeAssumption
      <4> QED
          BY <4>3 DEF between
    <3> QED
        BY <3>2
  <2> QED
      BY <2>1, <2>2, PredecessorsAimAfter
<1>6. ASSUME NEW n \in Nodes, Notify(n) PROVE PredecessorsAim'
  <2>1. PICK m \in Nodes : m = succAddr[n]
      BY <1>0, <1>6 DEF Notify, At, Inv, TypeOK
  <2>2. /\ Predecessor' = [Predecessor EXCEPT ![m] = IF Up(m) THEN Notified(m, @, n) ELSE @]
        /\ Live' = Live
      BY <1>6, <2>1 DEF Notify, Live, Up
  <2>3. ASSUME NEW k \in Live, NEW p \in Live, p = Predecessor'[k] PROVE Aims(p, k)'
    <3>1. \/ p = Predecessor[k]
          \/ k = m /\ Up(m) /\ p = n
      <4>1. CASE k # m
          BY <1>0, <2>2, <2>3, <4>1
      <4>2. CASE k = m
          BY <1>0, <2>2, <2>3, <4>2 DEF Notified
      <4> QED
          BY <4>1, <4>2
    <3>2. CASE p = Predecessor[k]
        BY <1>0, <1>6, <3>2, NotifyAims DEF PredecessorsAim
    <3>3. CASE k = m /\ Up(m) /\ p = n
      <4>1. Aims(n, m)
          BY <1>6, <2>1, <3>3 DEF Notify, At, Aims, Pending
      <4> QED
          BY <1>6, <3>3, <4>1, NotifyAims
    <3> QED
        BY <3>1, <3>2, <3>3
  <2> QED
      BY <2>2, <2>3, PredecessorsAimAfter
<1>7. ASSUME NEW n \in Nodes, ReadList(n) PROVE PredecessorsAim'
  <2>1. status' = status /\ Predecessor' = Predecessor
      BY <1>7 DEF ReadList
  <2>2. \A k \in Nodes, t \in Nodes : Aims(k, t) => Aims(k, t)'
      BY <1>7, ReadListAims
  <2> QED
      BY <1>0, <2>1, <2>2, AimsKept
<1>8. ASSUME NEW n \in Nodes, ReadFails(n) PROVE PredecessorsAim'
  <2>1. status' = status /\ Predecessor' = Predecessor
      BY <1>8 DEF ReadFails
  <2>2. \A k \in Nodes, t \in Nodes : Aims(k, t) => Aims(k, t)'
      BY <1>8, ReadFailsAims
  <2> QED
      BY <1>0, <2>1, <2>2, AimsKept
<1>9. ASSUME NEW n \in Nodes, WriteList(n) PROVE PredecessorsAim'
  <2>1. status' = status /\ Predecessor' = Predecessor
      BY <1>9 DEF WriteList
  <2>2. \A k \in Nodes, t \in Nodes : Aims(k, t) => Aims(k, t)'
      BY <1>9, WriteListAims
  <2> QED
      BY <1>0, <2>1, <2>2, AimsKept
<1>10. ASSUME NEW n \in Nodes, Forget(n) PROVE PredecessorsAim'
  <2>1. status' = status /\ \A m \in Nodes : Predecessor'[m] \in {Nobody, Predecessor[m]}
      BY <1>0, <1>10 DEF Forget
  <2>2. \A k \in Nodes, t \in Nodes : Aims(k, t) => Aims(k, t)'
      BY <1>10, ForgetAims
  <2> QED
      BY <1>0, <2>1, <2>2, AimsKept
<1>11. CASE UNCHANGED vars
  <2>1. status' = status /\ Predecessor' = Predecessor
      BY <1>11 DEF vars
  <2>2. \A k \in Nodes, t \in Nodes : Aims(k, t) => Aims(k, t)'
      BY <1>11 DEF vars, Aims, Heads, Pending, Current, Up
  <2> QED
      BY <1>0, <2>1, <2>2, AimsKept
<1> QED
    BY <1>1, <1>2, <1>3, <1>4, <1>5, <1>6, <1>7, <1>8, <1>9, <1>10, <1>11
       DEF Next, Stabilize, CheckPredecessor, PingTimesOut

----------------------------------------------------------------------------
(* No step but a crash parts the nodes *)

\* Whom the nodes go for alone connects them.
Joined ==
    \A S \in SUBSET Live :
        S # {} /\ S # Live => \E n \in S, m \in Live \ S : Aims(n, m) \/ Aims(m, n)

\* Whom a node goes for it knows, so nodes that are joined are connected.
LEMMA JoinedConnects ==
    ASSUME Inv, OneDown => Joined PROVE Connected
<1> SUFFICES ASSUME Joined, NEW S \in SUBSET Live, S # {}, S # Live
             PROVE  \E n \in S, m \in Live \ S : m \in Known(n) \/ n \in Known(m)
    BY DEF Connected
<1>1. ASSUME NEW n \in Live, NEW m \in Live, Aims(n, m) PROVE m \in Known(n)
  <2>1. CASE Pending(n)
      BY <1>1, <2>1 DEF Aims, Known
  <2>2. CASE ~Pending(n)
      BY <1>1, <2>2 DEF Aims, Heads, Current, Known
  <2> QED
      BY <2>1, <2>2
<1>2. PICK n \in S, m \in Live \ S : Aims(n, m) \/ Aims(m, n)
    BY DEF Joined
<1>3. n \in Live
    OBVIOUS
<1> QED
    BY <1>1, <1>2, <1>3

\* Who goes for the same stays joined.
LEMMA JoinedKept ==
    ASSUME Inv, Joined, status' = status,
           \A k \in Nodes, t \in Nodes : Aims(k, t) => Aims(k, t)'
    PROVE  Joined'
<1>1. Live' = Live /\ Live \subseteq Nodes
    BY DEF Live, Up
<1> SUFFICES ASSUME NEW S \in SUBSET Live, S # {}, S # Live
             PROVE  \E n \in S, m \in Live \ S : Aims(n, m)' \/ Aims(m, n)'
    BY <1>1 DEF Joined
<1>2. PICK n \in S, m \in Live \ S : Aims(n, m) \/ Aims(m, n)
    BY DEF Joined
<1> QED
    BY <1>1, <1>2

\* A joiner goes for a node of the ring.
LEMMA StartServerJoins ==
    ASSUME Inv, Mentions, Joined, NEW n \in Nodes, NEW nprime \in Nodes, StartServer(n, nprime)
    PROVE  Joined'
<1>1. Live' = Live \cup {n} /\ n \notin Live /\ nprime \in Live /\ Live \subseteq Nodes
    BY DEF StartServer, Live, Up, Inv, TypeOK
<1>2. Aims(n, nprime)'
    BY StartServerAims
<1>3. \A k \in Live, t \in Live : Aims(k, t) => Aims(k, t)'
    BY <1>1, StartServerAims
<1> SUFFICES ASSUME NEW S \in SUBSET (Live \cup {n}), S # {}, S # Live \cup {n}
             PROVE  \E i \in S, m \in (Live \cup {n}) \ S : Aims(i, m)' \/ Aims(m, i)'
    BY <1>1 DEF Joined
<1>4. CASE S \ {n} = {}
  <2>1. n \in S /\ nprime \in (Live \cup {n}) \ S
      BY <1>1, <1>4
  <2> QED
      BY <1>2, <2>1
<1>5. CASE S \ {n} = Live
  <2>1. n \notin S /\ nprime \in S
      BY <1>1, <1>5
  <2> QED
      BY <1>2, <2>1
<1>6. CASE S \ {n} # {} /\ S \ {n} # Live
  <2>1. PICK i \in S \ {n}, m \in Live \ (S \ {n}) : Aims(i, m) \/ Aims(m, i)
      BY <1>6 DEF Joined
  <2>2. i \in Live /\ m \in Live /\ m \notin S /\ i \in S
      BY <1>1, <2>1
  <2>3. Aims(i, m)' \/ Aims(m, i)'
      BY <1>3, <2>1, <2>2
  <2> QED
      BY <2>2, <2>3
<1> QED
    BY <1>4, <1>5, <1>6

\* The node that one goes for instead of its successor goes for that.
LEMMA AskPredecessorJoins ==
    ASSUME Inv, AimInv, Joined, NEW n \in Nodes, AskPredecessor(n) PROVE Joined'
<1>1. status' = status /\ Live' = Live /\ Live \subseteq Nodes
    BY DEF AskPredecessor, Live, Up
<1>2. CASE \A k \in Nodes, t \in Nodes : Aims(k, t) => Aims(k, t)'
    BY <1>1, <1>2, JoinedKept
<1>3. ASSUME NEW k \in Nodes, NEW t \in Nodes, ~(Aims(k, t) => Aims(k, t)') PROVE Joined'
  <2>1. PICK s \in Live, x \in Live :
          /\ x = Predecessor[s] /\ between(n, x, s)
          /\ Aims(n, s) /\ \A m : Aims(n, m)' <=> m = x
      BY <1>3, AskPredecessorAims
  <2>2. Aims(x, s)
      BY <2>1 DEF AimInv, PredecessorsAim
  <2>3. \A j \in Nodes \ {n}, m \in Nodes : Aims(j, m) => Aims(j, m)'
      BY AskPredecessorAims
  <2>4. x # n
    <3>1. x \in Nat /\ s \in Nat
        BY <1>1, NodeAssumption
    <3> QED
        BY <2>1, <3>1 DEF between
  <2>5. Aims(x, s)' /\ Aims(n, x)'
      BY <1>1, <2>1, <2>2, <2>3, <2>4
  <2> SUFFICES ASSUME NEW S \in SUBSET Live, S # {}, S # Live
               PROVE  \E i \in S, m \in Live \ S : Aims(i, m)' \/ Aims(m, i)'
      BY <1>1 DEF Joined
  <2>6. PICK i \in S, m \in Live \ S : Aims(i, m) \/ Aims(m, i)
      BY DEF Joined
  <2>7. CASE i # n /\ m # n
      BY <1>1, <2>3, <2>6, <2>7
  <2>8. CASE i = n /\ Aims(n, m)
    <3>1. m = s
        BY <2>1, <2>8, OneAim
    <3> QED
        BY <2>5, <2>6, <2>8, <3>1
  <2>9. CASE m = n /\ Aims(n, i)
    <3>1. i = s
        BY <2>1, <2>9, OneAim
    <3> QED
        BY <2>5, <2>6, <2>9, <3>1
  <2>10. CASE i = n /\ Aims(m, n)
    <3>1. m # n
        BY <2>6, <2>10
    <3> QED
        BY <1>1, <2>3, <2>6, <2>10, <3>1
  <2>11. CASE m = n /\ Aims(i, n)
    <3>1. i # n
        BY <2>6, <2>11
    <3> QED
        BY <1>1, <2>3, <2>6, <2>11, <3>1
  <2> QED
      BY <2>6, <2>7, <2>8, <2>9, <2>10, <2>11
<1> QED
    BY <1>2, <1>3

\* However many nodes have crashed, the other steps leave those that run together.
LEMMA StepJoins ==
    ASSUME Inv, AimInv, Joined, [Next]_vars, \A n \in Nodes : ~Crash(n) PROVE Joined'
<1>1. ASSUME NEW n \in Nodes, NEW nprime \in Nodes, StartServer(n, nprime) PROVE Joined'
    BY <1>1, StartServerJoins DEF AimInv
<1>2. ASSUME NEW n \in Nodes, FindAlive(n) PROVE Joined'
  <2>1. status' = status
      BY <1>2 DEF FindAlive
  <2> QED
      BY <1>2, <2>1, FindAliveAims, JoinedKept
<1>3. ASSUME NEW n \in Nodes, NoneAlive(n) PROVE Joined'
  <2>1. status' = status
      BY <1>3 DEF NoneAlive
  <2>2. \A k \in Nodes, t \in Nodes : Aims(k, t) => Aims(k, t)'
      BY <1>3, NoneAliveAims
  <2> QED
      BY <2>1, <2>2, JoinedKept
<1>4. ASSUME NEW n \in Nodes, AskPredecessor(n) PROVE Joined'
    BY <1>4, AskPredecessorJoins
<1>5. ASSUME NEW n \in Nodes, Notify(n) PROVE Joined'
  <2>1. status' = status
      BY <1>5 DEF Notify
  <2> QED
      BY <1>5, <2>1, NotifyAims, JoinedKept
<1>6. ASSUME NEW n \in Nodes, ReadList(n) PROVE Joined'
  <2>1. status' = status
      BY <1>6 DEF ReadList
  <2> QED
      BY <1>6, <2>1, ReadListAims, JoinedKept
<1>7. ASSUME NEW n \in Nodes, ReadFails(n) PROVE Joined'
  <2>1. status' = status
      BY <1>7 DEF ReadFails
  <2> QED
      BY <1>7, <2>1, ReadFailsAims, JoinedKept
<1>8. ASSUME NEW n \in Nodes, WriteList(n) PROVE Joined'
  <2>1. status' = status
      BY <1>8 DEF WriteList
  <2> QED
      BY <1>8, <2>1, WriteListAims, JoinedKept
<1>9. ASSUME NEW n \in Nodes, Forget(n) PROVE Joined'
  <2>1. status' = status
      BY <1>9 DEF Forget
  <2> QED
      BY <1>9, <2>1, ForgetAims, JoinedKept
<1>10. CASE UNCHANGED vars
  <2>1. status' = status
      BY <1>10 DEF vars
  <2>2. \A k \in Nodes, t \in Nodes : Aims(k, t) => Aims(k, t)'
      BY <1>10 DEF vars, Aims, Heads, Pending, Current, Up
  <2> QED
      BY <2>1, <2>2, JoinedKept
<1> QED
    BY <1>1, <1>2, <1>3, <1>4, <1>5, <1>6, <1>7, <1>8, <1>9, <1>10
       DEF Next, Stabilize, CheckPredecessor, PingTimesOut

----------------------------------------------------------------------------
(* Before the first crash, every list follows the ring *)

\* Clockwise from a, k comes before b, and is maybe a.
From(a, k, b) == k = a \/ between(a, k, b)

\* Clockwise from a, k comes not after b.
UpTo(a, k, b) == k = b \/ between(a, k, b)

\* T has whom its nodes from a to b go for, if that is not past b.
Closed(T, a, b) ==
    \A k \in T \cap Live, t \in Live : From(a, k, b) /\ Aims(k, t) /\ UpTo(k, t, b) => t \in T

\* From node to the node that it goes for, clockwise and never past b, there is a way from
\* a to b: every set that is closed under these steps and has a has b.
Leads(a, b) == \A T \in SUBSET Nodes : a \in T /\ Closed(T, a, b) => b \in T

\* Each of a list leads to the next.
InOrder(list) == \A i \in DOMAIN list : i + 1 \in DOMAIN list => Leads(list[i], list[i + 1])

\* The lists are in order, and whom a node goes for leads to its successor.
ListsLead ==
    \A n \in Live :
        /\ InOrder(Successors[n])
        /\ stage[n] = "write" => InOrder(newList[n])
        /\ \A t \in Live : Aims(n, t) => Leads(t, Successors[n][1])

\* Everybody who is named runs.
LEMMA AllUp ==
    ASSUME Inv, Mentions, NobodyDown, NEW n \in Live
    PROVE  /\ n \in Nodes /\ n \in Nat
           /\ Successors[n] \in Seq(Live) /\ newList[n] \in Seq(Live)
           /\ Successors[n] # <<>> /\ Successors[n][1] \in Live
           /\ Predecessor[n] \in Live \cup {Nobody} /\ succAddr[n] \in Live \cup {Nobody}
<1>1. n \in Nodes /\ Up(n) /\ \A m \in Nodes : status[m] # "absent" => m \in Live
    BY DEF Live, Up, NobodyDown, Inv, TypeOK
<1>2. Successors[n] \in Seq(Nodes) /\ newList[n] \in Seq(Nodes) /\ Successors[n] # <<>>
    BY <1>1 DEF Inv, TypeOK
<1>3. \A i \in DOMAIN Successors[n] : Successors[n][i] \in Live
    BY <1>1, <1>2 DEF Mentions
<1>4. \A i \in DOMAIN newList[n] : newList[n][i] \in Live
    BY <1>1, <1>2 DEF Mentions
<1>5. Successors[n] \in Seq(Live) /\ newList[n] \in Seq(Live)
    BY <1>2, <1>3, <1>4
<1>6. 1 \in DOMAIN Successors[n]
    BY <1>2
<1>7. Predecessor[n] \in Live \cup {Nobody} /\ succAddr[n] \in Live \cup {Nobody}
    BY <1>1 DEF Mentions, Inv, TypeOK
<1> QED
    BY <1>1, <1>2, <1>3, <1>5, <1>6, <1>7, NodeAssumption

\* Every node goes for a node, its successor or one that lies before it.
LEMMA SomeAim ==
    ASSUME Inv, Mentions, NobodyDown, NEW n \in Live
    PROVE  \E t \in Live : /\ Aims(n, t)
                           /\ t = Successors[n][1] \/ between(n, t, Successors[n][1])
                           /\ stage[n] \in {"idle", "ask"} => t = Successors[n][1]
                           /\ stage[n] = "write" => t = newList[n][1]
<1>1. n \in Nodes /\ stage[n] \in {"idle", "ask", "notify", "read", "write"}
    BY AllUp DEF Inv, TypeOK
<1>2. CASE stage[n] \in {"notify", "read"}
  <2>1. succAddr[n] \in Live
      BY <1>1, <1>2, AllUp DEF Inv, TypeOK
  <2>2. Pending(n)
      BY <1>2, <2>1 DEF Pending, Live
  <2> QED
      BY <1>1, <1>2, <2>1, <2>2 DEF Aims, Inv, RoundInv, Towards
<1>3. CASE stage[n] = "write"
  <2>1. newList[n] \in Seq(Live) /\ newList[n] # <<>>
      BY <1>1, <1>3, AllUp DEF Inv, TypeOK
  <2>2. 1 \in DOMAIN newList[n] /\ newList[n][1] \in Live /\ 1 .. 1 - 1 = {}
      BY <2>1
  <2>3. Up(newList[n][1])
      BY <2>2 DEF Live
  <2>4. Heads(newList[n], newList[n][1])
      BY <2>2, <2>3 DEF Heads
  <2>5. Aims(n, newList[n][1])
      BY <1>3, <2>4 DEF Aims, Pending, Current
  <2> QED
      BY <1>1, <1>3, <2>2, <2>5 DEF Inv, RoundInv, Towards
<1>4. CASE stage[n] \in {"idle", "ask"}
  <2>1. Successors[n] \in Seq(Live) /\ Successors[n] # <<>>
      BY AllUp
  <2>2. 1 \in DOMAIN Successors[n] /\ Successors[n][1] \in Live /\ 1 .. 1 - 1 = {}
      BY <2>1
  <2>3. Up(Successors[n][1])
      BY <2>2 DEF Live
  <2>4. Heads(Successors[n], Successors[n][1])
      BY <2>2, <2>3 DEF Heads
  <2>5. Aims(n, Successors[n][1])
      BY <1>4, <2>4 DEF Aims, Pending, Current
  <2> QED
      BY <1>4, <2>2, <2>5
<1> QED
    BY <1>1, <1>2, <1>3, <1>4

\* A node leads to itself,
LEMMA LeadsToSelf == \A a : Leads(a, a)
BY DEF Leads

\* and to whom it goes for.
LEMMA LeadsToAim ==
    ASSUME NEW a \in Live, NEW b \in Live, Aims(a, b) PROVE Leads(a, b)
BY DEF Leads, Closed, From, UpTo

\* A node leads to its successor, by way of whom it goes for.
LEMMA LeadsToSuccessor ==
    ASSUME Inv, Mentions, NobodyDown, ListsLead, NEW n \in Live
    PROVE  Leads(n, Successors[n][1])
<1>1. PICK h \in Live : h = Successors[n][1]
    BY AllUp
<1>2. PICK t \in Live : Aims(n, t) /\ (t = h \/ between(n, t, h))
    BY <1>1, SomeAim
<1>3. Leads(t, h)
    BY <1>1, <1>2 DEF ListsLead
<1>4. n \in Nat /\ h \in Nat /\ t \in Nat
    BY AllUp
<1> SUFFICES ASSUME NEW T \in SUBSET Nodes, n \in T, Closed(T, n, h) PROVE h \in T
    BY <1>1 DEF Leads
<1>5. t \in T
    BY <1>2, Zenon DEF Closed, From, UpTo
<1>6. CASE t = h
    BY <1>5, <1>6
<1>7. CASE between(n, t, h)
  <2>1. ASSUME NEW k \in T \cap Live, From(t, k, h) PROVE From(n, k, h)
    <3>1. k \in Nat
        BY AllUp
    <3> QED
        BY <1>4, <1>7, <2>1, <3>1 DEF From, between
  <2>2. Closed(T, t, h)
      BY <2>1 DEF Closed
  <2> QED
      BY <1>3, <1>5, <2>2 DEF Leads
<1> QED
    BY <1>2, <1>6, <1>7

\* Where everybody goes for the same or joins, the ways stay.
LEMMA LeadsKept ==
    ASSUME Live \subseteq Live', \A k \in Live, t \in Live : Aims(k, t) => Aims(k, t)',
           NEW a, NEW b, Leads(a, b)
    PROVE  Leads(a, b)'
<1> SUFFICES ASSUME NEW T \in SUBSET Nodes, a \in T, Closed(T, a, b)' PROVE b \in T
    BY DEF Leads
<1>1. Closed(T, a, b)
    BY DEF Closed
<1> QED
    BY <1>1 DEF Leads

\* When x lies between n and s, and n and then s on the way from a to b, so does x.
LEMMA TurnHere ==
    ASSUME NEW a \in Nat, NEW b \in Nat, NEW n \in Nat, NEW x \in Nat, NEW s \in Nat,
           between(n, x, s), From(a, n, b), UpTo(n, s, b)
    PROVE  UpTo(n, x, b)
BY DEF between, From, UpTo

\* A node that goes for a closer one first is still on the way to the other.
LEMMA AskPredecessorLeads ==
    ASSUME Inv, AimInv, NEW n \in Nodes, AskPredecessor(n),
           NEW a \in Live, NEW b \in Live, Leads(a, b)
    PROVE  Leads(a, b)'
<1>1. Live' = Live /\ Live \subseteq Nodes /\ Live \subseteq Nat
    BY NodeAssumption DEF AskPredecessor, Live, Up
<1>2. CASE \A k \in Nodes, t \in Nodes : Aims(k, t) => Aims(k, t)'
  <2>1. \A k \in Live, t \in Live : Aims(k, t) => Aims(k, t)'
      BY <1>1, <1>2
  <2> QED
      BY <1>1, <2>1, LeadsKept
<1>3. ASSUME NEW k \in Nodes, NEW t \in Nodes, ~(Aims(k, t) => Aims(k, t)') PROVE Leads(a, b)'
  <2>1. PICK s \in Live, x \in Live :
          /\ x = Predecessor[s] /\ between(n, x, s)
          /\ Aims(n, s) /\ \A m : Aims(n, m)' <=> m = x
      BY <1>3, AskPredecessorAims
  <2>2. Aims(x, s)
      BY <2>1 DEF AimInv, PredecessorsAim
  <2>3. \A j \in Nodes \ {n}, m \in Nodes : Aims(j, m) => Aims(j, m)'
      BY AskPredecessorAims
  <2>4. n \in Live
      BY DEF AskPredecessor, At, Live
  <2>5. n \in Nat /\ x \in Nat /\ s \in Nat /\ a \in Nat /\ b \in Nat
      BY <1>1, <2>1, <2>4
  <2>6. x # n
      BY <2>1, <2>5 DEF between
  <2>7. Aims(x, s)' /\ Aims(n, x)'
      BY <1>1, <2>1, <2>2, <2>3, <2>6
  <2> SUFFICES ASSUME NEW T \in SUBSET Nodes, a \in T, Closed(T, a, b)' PROVE b \in T
      BY DEF Leads
  <2>8. ASSUME NEW j \in T \cap Live, NEW m \in Live,
               From(a, j, b), Aims(j, m)', UpTo(j, m, b)
        PROVE  m \in T
      BY <1>1, <2>8 DEF Closed
  <2>9. ASSUME NEW j \in T \cap Live, NEW m \in Live,
               From(a, j, b), Aims(j, m), UpTo(j, m, b)
        PROVE  m \in T
    <3>1. CASE j # n
        BY <1>1, <2>3, <2>8, <2>9, <3>1
    <3>2. CASE j = n
      <4>1. m = s /\ From(a, n, b) /\ UpTo(n, s, b)
          BY <2>1, <2>9, <3>2, OneAim
      <4>2. UpTo(n, x, b)
          BY <2>1, <2>5, <4>1, TurnHere
      <4>3. x \in T
          BY <2>1, <2>4, <2>7, <2>8, <3>2, <4>1, <4>2
      <4>4. From(a, x, b)
          BY <2>1, <2>5, <4>1 DEF From, UpTo, between
      <4>5. UpTo(x, s, b)
          BY <2>1, <2>5, <4>1 DEF From, UpTo, between
      <4> QED
          BY <2>1, <2>7, <2>8, <4>1, <4>3, <4>4, <4>5
    <3> QED
        BY <3>1, <3>2
  <2>10. Closed(T, a, b)
      BY <2>9 DEF Closed
  <2> QED
      BY <2>10 DEF Leads
<1> QED
    BY <1>2, <1>3

\* What there is to show of the lists after a step.
LEMMA ListsLeadAfter ==
    ASSUME \A n \in Live' : \A i, u, v :
               /\ i \in DOMAIN Successors'[n] /\ i + 1 \in DOMAIN Successors'[n]
               /\ u = Successors'[n][i] /\ v = Successors'[n][i + 1]
               => Leads(u, v)',
           \A n \in Live' : \A i, u, v :
               /\ stage'[n] = "write"
               /\ i \in DOMAIN newList'[n] /\ i + 1 \in DOMAIN newList'[n]
               /\ u = newList'[n][i] /\ v = newList'[n][i + 1]
               => Leads(u, v)',
           \A n \in Live', t \in Live' : \A h : h = Successors'[n][1] /\ Aims(n, t)' => Leads(t, h)'
    PROVE  ListsLead'
<1>1. ASSUME NEW n \in Live' PROVE InOrder(Successors[n])'
  <2> SUFFICES ASSUME NEW i \in DOMAIN Successors'[n], i + 1 \in DOMAIN Successors'[n]
               PROVE  Leads(Successors[n][i], Successors[n][i + 1])'
      BY DEF InOrder
  <2>1. PICK u, v : u = Successors'[n][i] /\ v = Successors'[n][i + 1]
      OBVIOUS
  <2>2. Leads(u, v)'
      BY <2>1
  <2> QED
      BY <2>1, <2>2 DEF Leads, Closed
<1>2. ASSUME NEW n \in Live', stage'[n] = "write" PROVE InOrder(newList[n])'
  <2> SUFFICES ASSUME NEW i \in DOMAIN newList'[n], i + 1 \in DOMAIN newList'[n]
               PROVE  Leads(newList[n][i], newList[n][i + 1])'
      BY DEF InOrder
  <2>1. PICK u, v : u = newList'[n][i] /\ v = newList'[n][i + 1]
      OBVIOUS
  <2>2. Leads(u, v)'
      BY <1>2, <2>1
  <2> QED
      BY <2>1, <2>2 DEF Leads, Closed
<1>3. ASSUME NEW n \in Live', NEW t \in Live', Aims(n, t)' PROVE Leads(t, Successors[n][1])'
  <2>1. PICK h : h = Successors'[n][1]
      OBVIOUS
  <2>2. Leads(t, h)'
      BY <1>3, <2>1
  <2> QED
      BY <2>1, <2>2 DEF Leads, Closed
<1> QED
    BY <1>1, <1>2, <1>3 DEF ListsLead

\* The lists stay as they are, whoever goes for the same.
LEMMA ListsLeadKept ==
    ASSUME Inv, Mentions, NobodyDown, ListsLead, Live' = Live,
           Successors' = Successors, newList' = newList,
           \A n \in Live : stage'[n] = "write" => stage[n] = "write",
           \A a \in Live, b \in Live : Leads(a, b) => Leads(a, b)',
           \A n \in Live, t \in Live : \/ Aims(n, t)' => Aims(n, t)
                                       \/ Aims(n, t)' /\ Leads(t, Successors[n][1])
    PROVE  ListsLead'
<1>1. ASSUME NEW n \in Live, NEW i, NEW u, NEW v,
             i \in DOMAIN Successors[n], i + 1 \in DOMAIN Successors[n],
             u = Successors[n][i], v = Successors[n][i + 1]
      PROVE  Leads(u, v)'
  <2>1. u \in Live /\ v \in Live
      BY <1>1, AllUp
  <2>2. Leads(u, v)
      BY <1>1 DEF ListsLead, InOrder
  <2> QED
      BY <2>1, <2>2
<1>2. ASSUME NEW n \in Live, NEW i, NEW u, NEW v, stage'[n] = "write",
             i \in DOMAIN newList[n], i + 1 \in DOMAIN newList[n],
             u = newList[n][i], v = newList[n][i + 1]
      PROVE  Leads(u, v)'
  <2>1. u \in Live /\ v \in Live
      BY <1>2, AllUp
  <2>2. Leads(u, v)
      BY <1>2 DEF ListsLead, InOrder
  <2> QED
      BY <2>1, <2>2
<1>3. ASSUME NEW n \in Live, NEW t \in Live, NEW h, h = Successors[n][1], Aims(n, t)'
      PROVE  Leads(t, h)'
  <2>1. h \in Live
      BY <1>3, AllUp
  <2>2. Leads(t, h)
      BY <1>3 DEF ListsLead
  <2> QED
      BY <2>1, <2>2
<1> QED
    BY <1>1, <1>2, <1>3, ListsLeadAfter

\* Steps where nobody moves and no list changes.
LEMMA ListsStay ==
    ASSUME Inv, Mentions, NobodyDown, ListsLead, status' = status,
           Successors' = Successors, newList' = newList,
           \A n \in Live : stage'[n] = "write" => stage[n] = "write",
           \A n \in Nodes, t \in Nodes : Aims(n, t)' <=> Aims(n, t)
    PROVE  ListsLead'
<1>1. Live' = Live /\ Live \subseteq Nodes
    BY DEF Live, Up
<1>2. \A k \in Live, t \in Live : Aims(k, t) => Aims(k, t)'
    BY <1>1
<1>3. \A a \in Live, b \in Live : Leads(a, b) => Leads(a, b)'
    BY <1>1, <1>2, LeadsKept
<1>4. \A n \in Live, t \in Live : Aims(n, t)' => Aims(n, t)
    BY <1>1
<1> QED
    BY <1>1, <1>3, <1>4, ListsLeadKept

\* The list of a joiner has one entry, whom it goes for.
LEMMA StartServerLists ==
    ASSUME Inv, Mentions, NobodyDown, ListsLead,
           NEW n \in Nodes, NEW nprime \in Nodes, StartServer(n, nprime)
    PROVE  ListsLead'
<1>1. /\ Live' = Live \cup {n} /\ n \notin Live /\ Live \subseteq Nodes
      /\ Successors' = [Successors EXCEPT ![n] = <<nprime>>] /\ newList' = newList
    BY DEF StartServer, locals, Live, Up, Inv, TypeOK
<1>2. \A k \in Live, t \in Live : Aims(k, t) => Aims(k, t)'
    BY <1>1, StartServerAims
<1>3. ASSUME NEW a \in Live, NEW b \in Live, Leads(a, b) PROVE Leads(a, b)'
    BY <1>1, <1>2, <1>3, LeadsKept
<1>4. /\ Successors'[n] = <<nprime>>
      /\ \A k \in Live : Successors'[k] = Successors[k]
    BY <1>1 DEF Inv, TypeOK
<1>5. stage' = stage /\ stage[n] = "idle"
    BY <1>1 DEF StartServer, locals, Inv, RoundInv, Live
<1>6. ASSUME NEW k \in Live', NEW i, NEW u, NEW v,
             i \in DOMAIN Successors'[k], i + 1 \in DOMAIN Successors'[k],
             u = Successors'[k][i], v = Successors'[k][i + 1]
      PROVE  Leads(u, v)'
  <2>1. CASE k = n
    <3>1. i \in {1} /\ i + 1 \in {1}
        BY <1>4, <1>6, <2>1
    <3> QED
        BY <3>1
  <2>2. CASE k \in Live
    <3>1. u \in Live /\ v \in Live
        BY <1>4, <1>6, <2>2, AllUp
    <3>2. Leads(u, v)
        BY <1>4, <1>6, <2>2 DEF ListsLead, InOrder
    <3> QED
        BY <1>3, <3>1, <3>2
  <2> QED
      BY <1>1, <2>1, <2>2
<1>7. ASSUME NEW k \in Live', NEW i, NEW u, NEW v, stage'[k] = "write",
             i \in DOMAIN newList'[k], i + 1 \in DOMAIN newList'[k],
             u = newList'[k][i], v = newList'[k][i + 1]
      PROVE  Leads(u, v)'
  <2>1. CASE k \in Live
    <3>1. u \in Live /\ v \in Live
        BY <1>1, <1>7, <2>1, AllUp
    <3>2. Leads(u, v)
        BY <1>1, <1>5, <1>7, <2>1 DEF ListsLead, InOrder
    <3> QED
        BY <1>3, <3>1, <3>2
  <2>2. CASE k = n
      BY <1>5, <1>7, <2>2
  <2> QED
      BY <1>1, <2>1, <2>2
<1>8. ASSUME NEW k \in Live', NEW t \in Live', NEW h, h = Successors'[k][1], Aims(k, t)'
      PROVE  Leads(t, h)'
  <2>1. CASE k = n
    <3>1. t = nprime /\ h = nprime
        BY <1>4, <1>8, <2>1, StartServerAims
    <3> QED
        BY <3>1 DEF Leads
  <2>2. CASE k \in Live
    <3>1. Aims(k, t)
        BY <1>1, <1>8, <2>2, StartServerAims
    <3>2. t \in Live /\ h \in Live /\ h = Successors[k][1]
        BY <1>1, <1>4, <1>8, <2>2, <3>1, AllUp, AimsLive
    <3>3. Leads(t, h)
        BY <2>2, <3>1, <3>2 DEF ListsLead
    <3> QED
        BY <1>3, <3>2, <3>3
  <2> QED
      BY <1>1, <2>1, <2>2
<1> QED
    BY <1>6, <1>7, <1>8, ListsLeadAfter

\* A node that asks goes for its successor or for one that goes for its successor.
LEMMA AskPredecessorLists ==
    ASSUME Inv, AimInv, NobodyDown, ListsLead, NEW n \in Nodes, AskPredecessor(n)
    PROVE  ListsLead'
<1>1. /\ Live' = Live /\ Live \subseteq Nodes /\ n \in Live /\ stage[n] = "ask"
      /\ Successors' = Successors /\ newList' = newList
      /\ stage' = [stage EXCEPT ![n] = "notify"]
    BY DEF AskPredecessor, At, Live, Up
<1>2. \A k \in Live : stage'[k] = "write" => stage[k] = "write"
    BY <1>1 DEF Inv, TypeOK
<1>3. \A a \in Live, b \in Live : Leads(a, b) => Leads(a, b)'
    BY AskPredecessorLeads
<1>4. ASSUME NEW k \in Live, NEW t \in Live, Aims(k, t)', ~Aims(k, t)
      PROVE  Leads(t, Successors[k][1])
  <2>1. PICK s \in Live, x \in Live :
          /\ k = n /\ x = Predecessor[s]
          /\ Aims(n, s) /\ \A m : Aims(n, m)' <=> m = x
      BY <1>1, <1>4, AskPredecessorAims
  <2>2. t = x /\ Aims(x, s)
      BY <1>4, <2>1 DEF AimInv, PredecessorsAim
  <2>3. PICK h \in Live : Aims(n, h) /\ h = Successors[n][1]
      BY <1>1, SomeAim DEF AimInv
  <2>4. h = s
      BY <1>1, <2>1, <2>3, OneAim
  <2> QED
      BY <2>1, <2>2, <2>3, <2>4, LeadsToAim
<1>5. \A k \in Live, t \in Live : \/ Aims(k, t)' => Aims(k, t)
                                  \/ Aims(k, t)' /\ Leads(t, Successors[k][1])
    BY <1>4
<1> QED
    BY <1>1, <1>2, <1>3, <1>5, ListsLeadKept DEF AimInv

\* A node reads the list of whom it goes for: that leads to its successor.
LEMMA ReadListLists ==
    ASSUME Inv, Mentions, NobodyDown, ListsLead, NEW n \in Nodes, ReadList(n)
    PROVE  ListsLead'
<1> DEFINE list == Truncated(<<succAddr[n]>> \o Successors[succAddr[n]])
<1>1. PICK m \in Live : m = succAddr[n]
    BY DEF ReadList, At, Live, Inv, TypeOK
<1>2. /\ Live' = Live /\ Live \subseteq Nodes /\ n \in Live
      /\ Successors' = Successors
      /\ newList' = [newList EXCEPT ![n] = list]
      /\ stage' = [stage EXCEPT ![n] = "write"]
    BY DEF ReadList, At, Live, Up
<1>3. newList'[n] = list /\ \A k \in Nodes : k # n => newList'[k] = newList[k] /\ stage'[k] = stage[k]
    BY <1>2 DEF Inv, TypeOK
<1>4. \A k \in Nodes, t \in Nodes : Aims(k, t)' <=> Aims(k, t)
    BY ReadListAims
<1>5. ASSUME NEW a \in Live, NEW b \in Live, Leads(a, b) PROVE Leads(a, b)'
    BY <1>2, <1>4, <1>5, LeadsKept
<1>6. ASSUME NEW k \in Live', NEW i, NEW u, NEW v,
             i \in DOMAIN Successors'[k], i + 1 \in DOMAIN Successors'[k],
             u = Successors'[k][i], v = Successors'[k][i + 1]
      PROVE  Leads(u, v)'
  <2>1. u \in Live /\ v \in Live
      BY <1>2, <1>6, AllUp
  <2>2. Leads(u, v)
      BY <1>2, <1>6 DEF ListsLead, InOrder
  <2> QED
      BY <1>5, <2>1, <2>2
<1>7. ASSUME NEW i, NEW u, NEW v, i \in DOMAIN list, i + 1 \in DOMAIN list,
             u = list[i], v = list[i + 1]
      PROVE  u \in Live /\ v \in Live /\ Leads(u, v)
  <2> DEFINE s == Successors[m]
  <2>1. s \in Seq(Live) /\ s \in Seq(Nodes) /\ m \in Nodes /\ s # <<>> /\ s[1] \in Live
      BY <1>1, <1>2, AllUp
  <2>2. list = Truncated(<<m>> \o s)
      BY <1>1
  <2>3. i \in Nat /\ i >= 1
      BY <1>7, <2>1, <2>2, PrependEntries
  <2>4. i + 1 \in Nat /\ i + 1 # 1 /\ i + 1 - 1 = i
      BY <2>3
  <2>5. v = s[i] /\ i \in DOMAIN s
      BY <1>7, <2>1, <2>2, <2>4, PrependEntries
  <2>6. CASE i = 1
    <3>1. u = m
        BY <1>7, <2>1, <2>2, <2>6, PrependEntries
    <3> QED
        BY <2>1, <2>5, <2>6, <3>1, LeadsToSuccessor
  <2>7. CASE i # 1
    <3>1. u = s[i - 1] /\ i - 1 \in DOMAIN s
        BY <1>7, <2>1, <2>2, <2>7, PrependEntries
    <3>2. i - 1 + 1 = i
        BY <2>3
    <3>3. InOrder(s)
        BY DEF ListsLead
    <3>4. PICK j \in DOMAIN s : j = i - 1 /\ j + 1 = i
        BY <3>1, <3>2
    <3>5. Leads(s[j], s[j + 1])
        BY <2>5, <3>3, <3>4 DEF InOrder
    <3> QED
        BY <2>1, <2>5, <3>1, <3>4, <3>5
  <2> QED
      BY <2>6, <2>7
<1>8. ASSUME NEW k \in Live', NEW i, NEW u, NEW v, stage'[k] = "write",
             i \in DOMAIN newList'[k], i + 1 \in DOMAIN newList'[k],
             u = newList'[k][i], v = newList'[k][i + 1]
      PROVE  Leads(u, v)'
  <2>1. CASE k = n
    <3>1. u \in Live /\ v \in Live /\ Leads(u, v)
        BY <1>3, <1>7, <1>8, <2>1
    <3> QED
        BY <1>5, <3>1
  <2>2. CASE k # n
    <3>1. k \in Live /\ newList'[k] = newList[k] /\ stage[k] = "write"
        BY <1>2, <1>3, <1>8, <2>2
    <3>2. u \in Live /\ v \in Live
        BY <1>8, <3>1, AllUp
    <3>3. Leads(u, v)
        BY <1>8, <3>1 DEF ListsLead, InOrder
    <3> QED
        BY <1>5, <3>2, <3>3
  <2> QED
      BY <2>1, <2>2
<1>9. ASSUME NEW k \in Live', NEW t \in Live', NEW h, h = Successors'[k][1], Aims(k, t)'
      PROVE  Leads(t, h)'
  <2>1. k \in Live /\ t \in Live /\ Aims(k, t) /\ h = Successors[k][1]
      BY <1>2, <1>4, <1>9
  <2>2. h \in Live /\ Leads(t, h)
      BY <2>1, AllUp DEF ListsLead
  <2> QED
      BY <1>5, <2>1, <2>2
<1> QED
    BY <1>6, <1>8, <1>9, ListsLeadAfter

\* The new list was in order when it was read, and it starts with whom the node goes for.
LEMMA WriteListLists ==
    ASSUME Inv, Mentions, NobodyDown, ListsLead, NEW n \in Nodes, WriteList(n)
    PROVE  ListsLead'
<1>1. /\ Live' = Live /\ Live \subseteq Nodes /\ n \in Live /\ stage[n] = "write"
      /\ Successors' = [Successors EXCEPT ![n] = newList[n]]
      /\ newList' = [newList EXCEPT ![n] = <<>>]
      /\ stage' = [stage EXCEPT ![n] = "idle"]
    BY DEF WriteList, At, Live, Up
<1>2. /\ Successors'[n] = newList[n] /\ stage'[n] = "idle"
      /\ \A k \in Nodes : k # n => /\ Successors'[k] = Successors[k]
                                   /\ newList'[k] = newList[k] /\ stage'[k] = stage[k]
    BY <1>1 DEF Inv, TypeOK
<1>3. \A k \in Nodes, t \in Nodes : Aims(k, t)' <=> Aims(k, t)
    BY WriteListAims
<1>4. ASSUME NEW a \in Live, NEW b \in Live, Leads(a, b) PROVE Leads(a, b)'
    BY <1>1, <1>3, <1>4, LeadsKept
<1>5. ASSUME NEW k \in Live', NEW i, NEW u, NEW v,
             i \in DOMAIN Successors'[k], i + 1 \in DOMAIN Successors'[k],
             u = Successors'[k][i], v = Successors'[k][i + 1]
      PROVE  Leads(u, v)'
  <2>1. CASE k = n
    <3>1. u \in Live /\ v \in Live
        BY <1>1, <1>2, <1>5, <2>1, AllUp
    <3>2. InOrder(newList[n])
        BY <1>1 DEF ListsLead
    <3>3. Leads(u, v)
        BY <1>2, <1>5, <2>1, <3>2 DEF InOrder
    <3> QED
        BY <1>4, <3>1, <3>3
  <2>2. CASE k # n
    <3>1. k \in Live /\ Successors'[k] = Successors[k]
        BY <1>1, <1>2, <2>2
    <3>2. u \in Live /\ v \in Live
        BY <1>5, <3>1, AllUp
    <3>3. Leads(u, v)
        BY <1>5, <3>1 DEF ListsLead, InOrder
    <3> QED
        BY <1>4, <3>2, <3>3
  <2> QED
      BY <2>1, <2>2
<1>6. ASSUME NEW k \in Live', NEW i, NEW u, NEW v, stage'[k] = "write",
             i \in DOMAIN newList'[k], i + 1 \in DOMAIN newList'[k],
             u = newList'[k][i], v = newList'[k][i + 1]
      PROVE  Leads(u, v)'
  <2>1. k # n /\ k \in Live /\ newList'[k] = newList[k] /\ stage[k] = "write"
      BY <1>1, <1>2, <1>6
  <2>2. u \in Live /\ v \in Live
      BY <1>6, <2>1, AllUp
  <2>3. Leads(u, v)
      BY <1>6, <2>1 DEF ListsLead, InOrder
  <2> QED
      BY <1>4, <2>2, <2>3
<1>7. ASSUME NEW k \in Live', NEW t \in Live', NEW h, h = Successors'[k][1], Aims(k, t)'
      PROVE  Leads(t, h)'
  <2>1. k \in Live /\ t \in Live /\ Aims(k, t)
      BY <1>1, <1>3, <1>7
  <2>2. CASE k = n
    <3>1. PICK g \in Live : Aims(n, g) /\ g = newList[n][1]
        BY <1>1, SomeAim
    <3>2. g = t /\ h = t
        BY <1>2, <1>7, <2>1, <2>2, <3>1, OneAim
    <3> QED
        BY <3>2 DEF Leads
  <2>3. CASE k # n
    <3>1. h = Successors[k][1]
        BY <1>1, <1>2, <1>7, <2>1, <2>3
    <3>2. h \in Live /\ Leads(t, h)
        BY <2>1, <3>1, AllUp DEF ListsLead
    <3> QED
        BY <1>4, <2>1, <3>2
  <2> QED
      BY <2>2, <2>3
<1> QED
    BY <1>5, <1>6, <1>7, ListsLeadAfter

\* While everybody runs, a step that is no crash keeps the lists in order.
LEMMA StepListsLead ==
    ASSUME Inv, AimInv, NobodyDown, ListsLead, [Next]_vars, \A n \in Nodes : ~Crash(n)
    PROVE  ListsLead'
<1>0. Mentions
    BY DEF AimInv
<1>1. ASSUME NEW n \in Nodes, NEW nprime \in Nodes, StartServer(n, nprime) PROVE ListsLead'
    BY <1>0, <1>1, StartServerLists
<1>2. ASSUME NEW n \in Nodes, FindAlive(n) PROVE ListsLead'
  <2>1. n \in Live /\ stage[n] = "idle"
      BY <1>2 DEF FindAlive, At, Live
  <2>2. /\ Successors[n] \in Seq(Live) /\ Successors \in [Nodes -> Seq(Nodes)]
        /\ Successors[n] # <<>>
      BY <1>0, <2>1, AllUp DEF Inv, TypeOK
  <2>3. PICK i \in DOMAIN Successors[n] :
          /\ \A j \in 1 .. i - 1 : ~Up(Successors[n][j])
          /\ Successors' = [Successors EXCEPT ![n] = SubSeq(@, i, Len(@))]
          /\ stage' = [stage EXCEPT ![n] = "ask"]
          /\ UNCHANGED <<status, newList>>
      BY <1>2 DEF FindAlive
  <2>4. 1 \in DOMAIN Successors[n] /\ i \in Nat /\ i >= 1
      BY <2>2
  <2>5. Up(Successors[n][1])
    <3>1. Successors[n][1] \in Live
        BY <2>2, <2>4
    <3> QED
        BY <3>1 DEF Live
  <2>6. i = 1
      BY <2>3, <2>4, <2>5
  <2>7. SubSeq(Successors[n], 1, Len(Successors[n])) = Successors[n]
      BY <2>2
  <2>8. Successors' = Successors
      BY <2>2, <2>3, <2>6, <2>7
  <2>9. \A k \in Live : stage'[k] = "write" => stage[k] = "write"
      BY <2>3 DEF Live, Inv, TypeOK
  <2>10. \A k \in Nodes, t \in Nodes : Aims(k, t)' <=> Aims(k, t)
      BY <1>2, FindAliveAims
  <2> QED
      BY <1>0, <2>3, <2>8, <2>9, <2>10, ListsStay
<1>3. ASSUME NEW n \in Nodes, NoneAlive(n) PROVE ListsLead'
  <2>1. n \in Live /\ \A i \in DOMAIN Successors[n] : ~Up(Successors[n][i])
      BY <1>3 DEF NoneAlive, At, Live
  <2>2. Successors[n] \in Seq(Live) /\ Successors[n] # <<>>
      BY <1>0, <2>1, AllUp
  <2>3. 1 \in DOMAIN Successors[n] /\ Successors[n][1] \in Live
      BY <2>2
  <2> QED
      BY <2>1, <2>3 DEF Live
<1>4. ASSUME NEW n \in Nodes, AskPredecessor(n) PROVE ListsLead'
    BY <1>4, AskPredecessorLists
<1>5. ASSUME NEW n \in Nodes, Notify(n) PROVE ListsLead'
  <2>1. /\ status' = status /\ Successors' = Successors /\ newList' = newList
        /\ \A k \in Live : stage'[k] = "write" => stage[k] = "write"
      BY <1>5 DEF Notify, Live, Inv, TypeOK
  <2>2. \A k \in Nodes, t \in Nodes : Aims(k, t)' <=> Aims(k, t)
      BY <1>5, NotifyAims
  <2> QED
      BY <1>0, <2>1, <2>2, ListsStay
<1>6. ASSUME NEW n \in Nodes, ReadList(n) PROVE ListsLead'
    BY <1>0, <1>6, ReadListLists
<1>7. ASSUME NEW n \in Nodes, ReadFails(n) PROVE ListsLead'
  <2>1. /\ status' = status /\ Successors' = Successors /\ newList' = newList
        /\ \A k \in Live : stage'[k] = "write" => stage[k] = "write"
      BY <1>7 DEF ReadFails, Live, Inv, TypeOK
  <2>2. \A k \in Nodes, t \in Nodes : Aims(k, t)' <=> Aims(k, t)
      BY <1>7, ReadFailsAims
  <2> QED
      BY <1>0, <2>1, <2>2, ListsStay
<1>8. ASSUME NEW n \in Nodes, WriteList(n) PROVE ListsLead'
    BY <1>0, <1>8, WriteListLists
<1>9. ASSUME NEW n \in Nodes, Forget(n) PROVE ListsLead'
  <2>1. /\ status' = status /\ Successors' = Successors /\ newList' = newList
        /\ \A k \in Live : stage'[k] = "write" => stage[k] = "write"
      BY <1>9 DEF Forget, locals
  <2>2. \A k \in Nodes, t \in Nodes : Aims(k, t)' <=> Aims(k, t)
      BY <1>9, ForgetAims
  <2> QED
      BY <1>0, <2>1, <2>2, ListsStay
<1>10. CASE UNCHANGED vars
  <2>1. /\ status' = status /\ Successors' = Successors /\ newList' = newList
        /\ \A k \in Live : stage'[k] = "write" => stage[k] = "write"
      BY <1>10 DEF vars, locals
  <2>2. \A k \in Nodes, t \in Nodes : Aims(k, t)' <=> Aims(k, t)
      BY <1>10 DEF vars, locals, Aims, Heads, Pending, Current, Up
  <2> QED
      BY <1>0, <2>1, <2>2, ListsStay
<1> QED
    BY <1>1, <1>2, <1>3, <1>4, <1>5, <1>6, <1>7, <1>8, <1>9, <1>10
       DEF Next, Stabilize, CheckPredecessor, PingTimesOut

----------------------------------------------------------------------------
(* The first crash parts nobody *)

\* A list with more than c has a first entry that is not c.
LEMMA FirstOther ==
    ASSUME NEW s \in Seq(Nodes), NEW c, NEW l \in DOMAIN s, s[l] # c
    PROVE  \E i \in DOMAIN s : s[i] # c /\ \A j \in 1 .. i - 1 : s[j] = c
<1> DEFINE others == {i \in DOMAIN s : s[i] # c}
           before == {ss \in Nat \X Nat : ss[1] < ss[2]}
<1>1. IsWellFoundedOn(before, Nat)
    BY NatLessThanWellFounded DEF OpToRel
<1>2. others \subseteq Nat /\ others # {}
    OBVIOUS
<1>3. PICK i \in others : \A j \in others : <<j, i>> \notin before
    BY <1>1, <1>2, WFMin, Zenon
<1>4. ASSUME NEW j \in 1 .. i - 1 PROVE s[j] = c
  <2>1. j \in Nat /\ i \in Nat /\ j < i /\ j \in DOMAIN s
      BY <1>2
  <2>2. j \notin others
      BY <1>3, <2>1
  <2> QED
      BY <2>1, <2>2
<1> QED
    BY <1>3, <1>4

\* Who went for the node that crashes goes for one that it leads to.
LEMMA OrphanAims ==
    ASSUME Inv, Mentions, NobodyDown, ListsLead, NEW c \in Nodes, Crash(c),
           NEW r \in Live \ {c}, Aims(r, c), Live # {c, r}
    PROVE  \E z \in Live \ {c} : Aims(r, z)' /\ Leads(c, z)
<1> DEFINE list == Current(r)
<1>1. /\ c \in Live /\ r \in Nodes /\ Backed(Live \ {c})
      /\ status' = [status EXCEPT ![c] = "down"]
      /\ Successors' = [Successors EXCEPT ![c] = <<>>]
      /\ newList' = [newList EXCEPT ![c] = <<>>]
      /\ stage' = [stage EXCEPT ![c] = "idle"]
      /\ succAddr' = [succAddr EXCEPT ![c] = Nobody]
    BY DEF Crash, Live
<1>2. list \in Seq(Live) /\ list \in Seq(Nodes)
    BY AllUp DEF Current, Inv, TypeOK
<1>3. PICK l \in DOMAIN list : list[l] \in (Live \ {c}) \ {r}
  <2>1. list \in Lists(r) /\ Live \ {c} # {r}
      BY <1>1 DEF Current, Lists
  <2> QED
      BY <1>1, <2>1 DEF Backed
<1>4. PICK i \in DOMAIN list : list[i] # c /\ \A j \in 1 .. i - 1 : list[j] = c
    BY <1>2, <1>3, FirstOther
<1>5. PICK z \in Live \ {c} : z = list[i]
    BY <1>2, <1>4
<1>6. /\ Current(r)' = list /\ stage'[r] = stage[r] /\ succAddr'[r] = succAddr[r]
    BY <1>1 DEF Current, Inv, TypeOK
<1>7. \A m \in Nodes : Up(m)' <=> Up(m) /\ m # c
    BY <1>1 DEF Up, Inv, TypeOK
<1>8. ~Pending(r)'
  <2>1. CASE stage[r] \in {"notify", "read"}
    <3>1. Pending(r) => succAddr[r] = c
      <4>1. Pending(r) => c = succAddr[r]
          BY DEF Aims
      <4> QED
          BY <4>1
    <3>2. succAddr[r] \in Live
        BY <1>1, <2>1, AllUp DEF Inv, TypeOK
    <3>3. succAddr[r] = c
        BY <2>1, <3>1, <3>2 DEF Pending, Live
    <3> QED
        BY <1>1, <1>6, <1>7, <3>3 DEF Pending
  <2>2. CASE stage[r] \notin {"notify", "read"}
      BY <1>6, <2>2 DEF Pending
  <2> QED
      BY <2>1, <2>2
<1>9. Aims(r, z)'
  <2>1. ASSUME NEW j \in 1 .. i - 1 PROVE ~Up(list[j])'
    <3>1. c = list'[j]
        BY <1>4, <1>6, <2>1
    <3>2. ~Up(c)'
        BY <1>1, <1>7
    <3> QED
        BY <3>1, <3>2 DEF Up
  <2>2. Up(z)'
      BY <1>7 DEF Live
  <2>3. Heads(list, z)'
      BY <1>5, <1>6, <2>1, <2>2 DEF Heads
  <2> QED
      BY <1>8, <2>3 DEF Aims
<1>10. Leads(c, z)
  <2>1. PICK h \in Live : /\ Aims(r, h)
                          /\ stage[r] \in {"idle", "ask"} => h = Successors[r][1]
                          /\ stage[r] = "write" => h = newList[r][1]
      BY SomeAim
  <2>2. h = c
      BY <1>1, <2>1, OneAim
  <2>3. CASE i = 1
    <3>1. stage[r] # "write"
        BY <1>5, <2>1, <2>2, <2>3 DEF Current
    <3>2. z = Successors[r][1]
        BY <1>5, <2>3, <3>1 DEF Current
    <3> QED
        BY <1>1, <3>2 DEF ListsLead
  <2>4. CASE i # 1
    <3>1. i - 1 \in 1 .. i - 1 /\ i - 1 \in DOMAIN list /\ i - 1 + 1 = i
        BY <1>2, <2>4
    <3>2. PICK j \in DOMAIN list : j \in 1 .. i - 1 /\ j + 1 = i
        BY <3>1
    <3>3. InOrder(list)
        BY DEF Current, ListsLead
    <3>4. Leads(list[j], list[j + 1])
        BY <3>2, <3>3 DEF InOrder
    <3>5. list[j] = c
        BY <1>4, <3>2
    <3> QED
        BY <1>5, <3>2, <3>4, <3>5
  <2> QED
      BY <2>3, <2>4
<1> QED
    BY <1>9, <1>10

\* No set of nodes is parted from the rest by the first crash: the nodes that the crashed
\* node led to hold on to those that went for it.
LEMMA FirstCrashJoins ==
    ASSUME Inv, AimInv, NobodyDown, Joined, ListsLead, NEW c \in Nodes, Crash(c)
    PROVE  Joined'
<1>0. Mentions
    BY DEF AimInv
<1>1. c \in Live /\ Live \subseteq Nodes /\ Live' = Live \ {c}
    BY DEF Crash, Live, Up, Inv, TypeOK
<1>2. PICK d \in Live : Aims(c, d)
    BY <1>0, <1>1, SomeAim
<1>3. ASSUME NEW k \in Live \ {c}, NEW t \in Live \ {c}, Aims(k, t) PROVE Aims(k, t)'
    BY <1>1, <1>3, CrashAims
<1>4. ASSUME NEW S, NEW R, S # {}, R # {}, S \cup R = Live \ {c}, S \cap R = {},
             d \in S \cup {c}, \A n \in S, m \in R : ~Aims(n, m)' /\ ~Aims(m, n)'
      PROVE  FALSE
  <2> DEFINE U == S \cup {c}
  <2>1. U \in SUBSET Live /\ U # {} /\ U # Live /\ Live \ U = R /\ R \subseteq Live \ {c}
      BY <1>1, <1>4
  <2>2. PICK n \in U, r \in R : Aims(n, r) \/ Aims(r, n)
      BY <2>1 DEF Joined
  <2>3. n = c
    <3> SUFFICES ASSUME n \in S PROVE FALSE
        BY <2>2
    <3>1. n \in Live \ {c} /\ r \in Live \ {c}
        BY <1>4, <2>1
    <3> QED
        BY <1>3, <1>4, <2>2, <3>1
  <2>4. Aims(r, c)
    <3> SUFFICES ASSUME Aims(c, r) PROVE FALSE
        BY <2>2, <2>3
    <3>1. r = d
        BY <1>2, OneAim
    <3> QED
        BY <1>4, <2>1, <3>1
  <2>5. Live # {c, r}
      BY <1>4
  <2>6. PICK z \in Live \ {c} : Aims(r, z)' /\ Leads(c, z)
      BY <1>0, <2>1, <2>4, <2>5, OrphanAims
  <2>7. z \in R
      BY <1>4, <2>2, <2>6
  <2>8. ASSUME NEW k \in U \cap Live, NEW t \in Live, Aims(k, t) PROVE t \in U
    <3>1. CASE k = c
        BY <1>2, <1>4, <2>8, <3>1, OneAim
    <3>2. CASE k # c
      <4> SUFFICES ASSUME t \in R PROVE FALSE
          BY <2>1
      <4>1. k \in S /\ k \in Live \ {c} /\ t \in Live \ {c}
          BY <2>1, <3>2
      <4>2. Aims(k, t)'
          BY <1>3, <2>8, <4>1
      <4> QED
          BY <1>4, <4>1, <4>2
    <3> QED
        BY <3>1, <3>2
  <2>9. Closed(U, c, z)
      BY <2>8 DEF Closed
  <2>10. z \in U
      BY <1>1, <2>1, <2>6, <2>9 DEF Leads
  <2> QED
      BY <2>1, <2>7, <2>10
<1> SUFFICES ASSUME NEW S \in SUBSET (Live \ {c}), S # {}, S # Live \ {c},
                    \A n \in S, m \in (Live \ {c}) \ S : ~Aims(n, m)' /\ ~Aims(m, n)'
             PROVE  FALSE
    BY <1>1 DEF Joined
<1>5. CASE d \in S \cup {c}
  <2>1. PICK R : R = (Live \ {c}) \ S
      OBVIOUS
  <2>2. R # {} /\ S \cup R = Live \ {c} /\ S \cap R = {}
      BY <2>1
  <2> QED
      BY <1>4, <1>5, <2>1, <2>2
<1>6. CASE d \notin S \cup {c}
  <2>1. PICK R : R = (Live \ {c}) \ S
      OBVIOUS
  <2>2. R # {} /\ R \cup S = Live \ {c} /\ R \cap S = {} /\ d \in R \cup {c}
      BY <1>6, <2>1
  <2>3. \A n \in R, m \in S : ~Aims(n, m)' /\ ~Aims(m, n)'
      BY <2>1
  <2> QED
      BY <1>4, <2>2, <2>3
<1> QED
    BY <1>5, <1>6

----------------------------------------------------------------------------
(* The ring is connected *)

ConnInv == AimInv /\ (OneDown => Joined) /\ (NobodyDown => ListsLead)

\* The node that creates the ring is alone in it and is its own successor.
LEMMA InitConn == Init => ConnInv
<1> SUFFICES ASSUME Init PROVE ConnInv
    OBVIOUS
<1>0. /\ First \in Nodes /\ Nobody \notin Nodes
      /\ status = [n \in Nodes |-> IF n = First THEN "up" ELSE "absent"]
      /\ Successors = [n \in Nodes |-> IF n = First THEN <<First>> ELSE <<>>]
      /\ Predecessor = [n \in Nodes |-> Nobody]
      /\ stage = [n \in Nodes |-> "idle"] /\ succAddr = [n \in Nodes |-> Nobody]
      /\ newList = [n \in Nodes |-> <<>>]
    BY NodeAssumption DEF Init
<1>1. Live = {First} /\ status[First] = "up"
    BY <1>0 DEF Live, Up
<1>2. Mentions
  <2> SUFFICES ASSUME NEW n \in Nodes
               PROVE  /\ \A i \in DOMAIN Successors[n] : status[Successors[n][i]] # "absent"
                      /\ \A i \in DOMAIN newList[n] : status[newList[n][i]] # "absent"
                      /\ succAddr[n] = Nobody /\ Predecessor[n] = Nobody
      BY DEF Mentions
  <2>1. \A i \in DOMAIN Successors[n] : Successors[n][i] = First
      BY <1>0
  <2>2. DOMAIN newList[n] = {}
      BY <1>0
  <2> QED
      BY <1>0, <1>1, <2>1, <2>2
<1>3. PredecessorsAim
    BY <1>0, <1>1 DEF PredecessorsAim
<1>4. Joined
    BY <1>1 DEF Joined
<1>5. ListsLead
  <2>1. Successors[First] = <<First>> /\ stage[First] = "idle"
      BY <1>0
  <2>2. \A i \in DOMAIN <<First>> : i + 1 \notin DOMAIN <<First>>
      OBVIOUS
  <2>3. InOrder(Successors[First])
      BY <2>1, <2>2 DEF InOrder
  <2>4. Leads(First, First)
      BY LeadsToSelf
  <2>5. Successors[First][1] = First
      BY <2>1
  <2> QED
      BY <1>1, <2>1, <2>3, <2>4, <2>5 DEF ListsLead
<1> QED
    BY <1>2, <1>3, <1>4, <1>5 DEF ConnInv, AimInv

\* A node that has crashed stays so.
LEMMA DownStays ==
    ASSUME Inv, [Next]_vars, NEW m \in Nodes, status[m] = "down" PROVE status'[m] = "down"
<1>1. status \in [Nodes -> {"absent", "up", "down"}]
    BY DEF Inv, TypeOK
<1>2. ASSUME NEW n \in Nodes, NEW nprime \in Nodes, StartServer(n, nprime)
      PROVE  status'[m] = "down"
    BY <1>1, <1>2 DEF StartServer
<1>3. ASSUME NEW n \in Nodes, Crash(n) PROVE status'[m] = "down"
    BY <1>1, <1>3 DEF Crash
<1>4. ASSUME NEW n \in Nodes, Stabilize(n) PROVE status' = status
    BY <1>4 DEF Stabilize, FindAlive, NoneAlive, AskPredecessor, Notify, ReadList, ReadFails,
                WriteList
<1>5. ASSUME NEW n \in Nodes, Forget(n) PROVE status' = status
    BY <1>5 DEF Forget
<1>6. CASE UNCHANGED vars
    BY <1>6 DEF vars
<1> QED
    BY <1>2, <1>3, <1>4, <1>5, <1>6 DEF Next, CheckPredecessor, PingTimesOut

\* When a node crashes and is the only one that has, none had before.
LEMMA FirstCrash ==
    ASSUME Inv, NEW c \in Nodes, Crash(c), OneDown' PROVE NobodyDown
<1>1. status' = [status EXCEPT ![c] = "down"] /\ status[c] = "up"
    BY DEF Crash, Up
<1> SUFFICES ASSUME NEW n \in Nodes, status[n] = "down" PROVE FALSE
    BY DEF NobodyDown
<1>2. status'[n] = "down" /\ status'[c] = "down" /\ n # c
    BY <1>1 DEF Inv, TypeOK
<1> QED
    BY <1>2 DEF OneDown

\* Every step keeps the nodes joined until two have crashed.
LEMMA NextConn == Inv /\ ConnInv /\ [Next]_vars => ConnInv'
<1> SUFFICES ASSUME Inv, ConnInv, [Next]_vars PROVE ConnInv'
    OBVIOUS
<1>1. AimInv'
    BY NextMentions, NextPredecessorsAim DEF ConnInv, AimInv
<1>2. NobodyDown' => NobodyDown /\ \A c \in Nodes : ~Crash(c)
  <2>1. NobodyDown' => NobodyDown
      BY DownStays DEF NobodyDown
  <2>2. ASSUME NEW c \in Nodes, Crash(c) PROVE ~NobodyDown'
      BY <2>2 DEF Crash, NobodyDown, Inv, TypeOK
  <2> QED
      BY <2>1, <2>2
<1>3. OneDown' => OneDown
    BY DownStays DEF OneDown
<1>4. NobodyDown => OneDown
    BY DEF NobodyDown, OneDown
<1>5. ASSUME OneDown' PROVE Joined'
  <2>1. CASE \A c \in Nodes : ~Crash(c)
      BY <1>3, <1>5, <2>1, StepJoins DEF ConnInv
  <2>2. ASSUME NEW c \in Nodes, Crash(c) PROVE Joined'
    <3>1. NobodyDown
        BY <1>5, <2>2, FirstCrash
    <3> QED
        BY <1>4, <2>2, <3>1, FirstCrashJoins DEF ConnInv
  <2> QED
      BY <2>1, <2>2
<1>6. ASSUME NobodyDown' PROVE ListsLead'
    BY <1>2, <1>6, StepListsLead DEF ConnInv
<1> QED
    BY <1>1, <1>5, <1>6 DEF ConnInv

\* While at most one node has crashed, in however large a ring and whatever rounds,
\* joins and late answers there were, no running nodes have lost the others in their
\* lists, predecessors and calls: stabilize's steps, between which the other nodes move
\* on, never cut the ring in two, and neither does the first crash.
THEOREM NodesConnected == Spec => []Connected
<1>1. Inv /\ ConnInv => Connected
    BY JoinedConnects DEF ConnInv
<1> QED
    BY <1>1, InitConn, NextConn, Invariance, PTL DEF Spec

=============================================================================
