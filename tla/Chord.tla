-------------------------------- MODULE Chord --------------------------------
(***************************************************************************)
(* The Chord ring of lab-3: nodes that join through any node of the ring,   *)
(* crash, and keep their successor lists and predecessors by stabilize,     *)
(* notify and checkPredecessor.                                             *)
(*                                                                          *)
(* A node's maintenance runs in one goroutine; the handlers of the calls it *)
(* makes run at the other nodes in between, so every call is an action.     *)
(* A node is its identifier, the hash of its address.                       *)
(***************************************************************************)
EXTENDS Integers, Sequences, FiniteSets

CONSTANTS
    Nodes,                  \* the identifiers of the nodes
    First,                  \* the node that creates the ring
    NumberOfSuccessors,     \* the flag -r
    Nobody,                 \* the empty address
    Contacts,               \* bound: whom a node may join through
    Mortal,                 \* bound: the nodes that may crash
    Slow                    \* bound: the nodes whose answer to a ping may be late

ASSUME NodeAssumption ==
    /\ Nodes \subseteq Nat /\ IsFiniteSet(Nodes)
    /\ First \in Nodes
    /\ NumberOfSuccessors \in Nat \ {0}
    /\ Nobody \notin Nodes
    /\ Contacts \subseteq Nodes \X Nodes
    /\ Mortal \subseteq Nodes /\ Slow \subseteq Nodes

VARIABLES
    status,         \* whether the node has started, runs, or has crashed
    Successors,
    Predecessor,
    stage,          \* where its stabilize is
    succAddr,       \* stabilize's local variable
    newList         \* stabilize's local variable

vars == <<status, Successors, Predecessor, stage, succAddr, newList>>

locals == <<stage, succAddr, newList>>

Up(n) == status[n] = "up"
Live == {n \in Nodes : Up(n)}

Init ==
    /\ status = [n \in Nodes |-> IF n = First THEN "up" ELSE "absent"]
    /\ Successors = [n \in Nodes |-> IF n = First THEN <<First>> ELSE <<>>]
    /\ Predecessor = [n \in Nodes |-> Nobody]
    /\ stage = [n \in Nodes |-> "idle"]
    /\ succAddr = [n \in Nodes |-> Nobody]
    /\ newList = [n \in Nodes |-> <<>>]

\* elt comes strictly between start and end, clockwise.  A start that is the end
\* stands for the whole ring.
between(start, elt, end) ==
    IF end > start THEN start < elt /\ elt < end
                   ELSE start < elt \/ elt < end

----------------------------------------------------------------------------
(* Joining and crashing *)

StartServer(n, nprime) ==
    /\ <<n, nprime>> \in Contacts
    /\ status[n] = "absent" /\ Up(nprime)
    /\ status' = [status EXCEPT ![n] = "up"]
    /\ Successors' = [Successors EXCEPT ![n] = <<nprime>>]
    /\ UNCHANGED <<Predecessor, locals>>

\* The list n has, and the one it is about to have.
Lists(n) == {Successors[n]} \cup (IF stage[n] = "write" THEN {newList[n]} ELSE {})

\* Bound: no node loses with the nodes that crash all of a list it has.
Backed(live) ==
    \A n \in live : \A list \in Lists(n) :
        live = {n} \/ \E i \in DOMAIN list : list[i] \in live \ {n}

Crash(n) ==
    /\ n \in Mortal /\ Up(n)
    /\ Backed(Live \ {n})
    /\ status' = [status EXCEPT ![n] = "down"]
    /\ Successors' = [Successors EXCEPT ![n] = <<>>]
    /\ Predecessor' = [Predecessor EXCEPT ![n] = Nobody]
    /\ stage' = [stage EXCEPT ![n] = "idle"]
    /\ succAddr' = [succAddr EXCEPT ![n] = Nobody]
    /\ newList' = [newList EXCEPT ![n] = <<>>]

----------------------------------------------------------------------------
(* stabilize *)

At(n, s) == Up(n) /\ stage[n] = s

\* The loop over succList, up to the first that answers; the list loses the others.
FindAlive(n) ==
    \E i \in DOMAIN Successors[n] :
        /\ At(n, "idle")
        /\ Up(Successors[n][i]) /\ \A j \in 1 .. i - 1 : ~Up(Successors[n][j])
        /\ Successors' = [Successors EXCEPT ![n] = SubSeq(@, i, Len(@))]
        /\ stage' = [stage EXCEPT ![n] = "ask"]
        /\ succAddr' = [succAddr EXCEPT ![n] = Successors[n][i]]
        /\ UNCHANGED <<status, Predecessor, newList>>

\* A mutation: gives up on the whole list when the first successor is dead.
NoneAliveFirst(n) ==
    /\ At(n, "idle") /\ ~Up(Successors[n][1])
    /\ Successors' = [Successors EXCEPT ![n] = <<n>>]
    /\ UNCHANGED <<status, Predecessor, locals>>

NoneAlive(n) ==
    /\ At(n, "idle") /\ \A i \in DOMAIN Successors[n] : ~Up(Successors[n][i])
    /\ Successors' = [Successors EXCEPT ![n] = <<n>>]
    /\ UNCHANGED <<status, Predecessor, locals>>

\* A mutation: takes any predecessor of the successor.
CloserAlways(n, x) == x # Nobody

\* succAddr's predecessor is the better successor when it lies between.
Closer(n, x) == x # Nobody /\ between(n, x, succAddr[n])

AskPredecessor(n) ==
    LET x == Predecessor[succAddr[n]]
    IN  /\ At(n, "ask")
        /\ stage' = [stage EXCEPT ![n] = "notify"]
        /\ succAddr' = [succAddr EXCEPT ![n] = IF Up(@) /\ Closer(n, x) THEN x ELSE @]
        /\ UNCHANGED <<status, Successors, Predecessor, newList>>

\* A mutation: drops the empty case.
NotifiedBetween(m, p, cand) == IF p # Nobody /\ between(p, cand, m) THEN cand ELSE p

\* What the handler Notify of m makes of its predecessor p when cand calls.
Notified(m, p, cand) ==
    IF p = Nobody \/ between(p, cand, m) THEN cand ELSE p

Notify(n) ==
    LET m == succAddr[n]
    IN  /\ At(n, "notify")
        /\ stage' = [stage EXCEPT ![n] = "read"]
        /\ Predecessor' = [Predecessor EXCEPT ![m] = IF Up(m) THEN Notified(m, @, n) ELSE @]
        /\ UNCHANGED <<status, Successors, succAddr, newList>>

\* A mutation: one entry too many.
TruncatedLate(list) ==
    IF Len(list) > NumberOfSuccessors + 1 THEN SubSeq(list, 1, NumberOfSuccessors + 1) ELSE list

Truncated(list) ==
    IF Len(list) > NumberOfSuccessors THEN SubSeq(list, 1, NumberOfSuccessors) ELSE list

ReadList(n) ==
    LET m == succAddr[n]
    IN  /\ At(n, "read") /\ Up(m)
        /\ stage' = [stage EXCEPT ![n] = "write"]
        /\ newList' = [newList EXCEPT ![n] = Truncated(<<m>> \o Successors[m])]
        /\ succAddr' = [succAddr EXCEPT ![n] = Nobody]
        /\ UNCHANGED <<status, Successors, Predecessor>>

ReadFails(n) ==
    /\ At(n, "read") /\ ~Up(succAddr[n])
    /\ stage' = [stage EXCEPT ![n] = "idle"]
    /\ succAddr' = [succAddr EXCEPT ![n] = Nobody]
    /\ UNCHANGED <<status, Successors, Predecessor, newList>>

WriteList(n) ==
    /\ At(n, "write")
    /\ Successors' = [Successors EXCEPT ![n] = newList[n]]
    /\ stage' = [stage EXCEPT ![n] = "idle"]
    /\ newList' = [newList EXCEPT ![n] = <<>>]
    /\ UNCHANGED <<status, Predecessor, succAddr>>

----------------------------------------------------------------------------
(* checkPredecessor *)

Forget(n) ==
    /\ At(n, "idle") /\ Predecessor[n] # Nobody
    /\ Predecessor' = [Predecessor EXCEPT ![n] = Nobody]
    /\ UNCHANGED <<status, Successors, locals>>

\* A mutation: never forgets a predecessor that has crashed.
CheckPredecessorNever(n) == Predecessor[n] \notin Nodes /\ Forget(n)

CheckPredecessor(n) == Predecessor[n] \notin Live /\ Forget(n)

\* The ping of a node that runs takes longer than its 500 ms.
PingTimesOut(n) == Predecessor[n] \in Live \cap Slow /\ Forget(n)

----------------------------------------------------------------------------

Stabilize(n) ==
    \/ FindAlive(n) \/ NoneAlive(n) \/ AskPredecessor(n) \/ Notify(n)
    \/ ReadList(n) \/ ReadFails(n) \/ WriteList(n)

Next ==
    \/ \E n, nprime \in Nodes : StartServer(n, nprime)
    \/ \E n \in Nodes : Crash(n) \/ Stabilize(n) \/ CheckPredecessor(n) \/ PingTimesOut(n)

\* The goroutine of a node that runs goes on, and its select takes every ticker
\* again and again.
Fairness ==
    \A n \in Nodes : WF_vars(Stabilize(n)) /\ SF_vars(CheckPredecessor(n))

Spec == Init /\ [][Next]_vars /\ Fairness

----------------------------------------------------------------------------
(* Properties *)

\* Addresses where the code has addresses; a list is never longer than -r and a node
\* that runs never without a successor, which findSuccessor and stabilize rely on.
TypeOK ==
    /\ status \in [Nodes -> {"absent", "up", "down"}]
    /\ Successors \in [Nodes -> Seq(Nodes)] /\ newList \in [Nodes -> Seq(Nodes)]
    /\ Predecessor \in [Nodes -> Nodes \cup {Nobody}]
    /\ stage \in [Nodes -> {"idle", "ask", "notify", "read", "write"}]
    /\ succAddr \in [Nodes -> Nodes \cup {Nobody}]
    /\ \A n \in Nodes :
        /\ Len(Successors[n]) <= NumberOfSuccessors /\ Len(newList[n]) <= NumberOfSuccessors
        /\ Up(n) => Successors[n] # <<>>
        /\ stage[n] \in {"ask", "notify", "read"} => succAddr[n] # Nobody
        /\ stage[n] = "write" => newList[n] # <<>>

\* The nodes n will call, or tell others of.
Known(n) ==
    {m \in Live : \/ m \in {Predecessor[n], succAddr[n]}
                  \/ \E i \in DOMAIN Successors[n] : Successors[n][i] = m
                  \/ \E i \in DOMAIN newList[n] : newList[n][i] = m}

\* No two nodes have crashed.
OneDown == \A m, n \in Nodes : status[m] = "down" /\ status[n] = "down" => m = n

\* While at most one node has crashed, no running nodes have lost the others, in their
\* lists, predecessors and calls under way: two rings that know nothing of each other
\* never become one again, whatever stabilize does.  A second crash may leave two rings.
Connected ==
    OneDown => \A S \in (SUBSET Live) \ {{}, Live} :
                   \E n \in S, m \in Live \ S : m \in Known(n) \/ n \in Known(m)

\* As long as a node's first successor runs, stabilize replaces it only by a node that
\* lies before it, although the predecessor was asked, the list read and the list
\* written in steps between which the successor changed its own.
SuccessorImproves ==
    [][\A n \in Nodes :
         LET old == Successors[n][1]
             new == Successors'[n][1]
         IN  Up(n) /\ Up(n)' /\ Up(old) => new = old \/ between(n, new, old)]_vars

\* m comes next after n among the nodes that run.
Follows(m, n) ==
    /\ m \in Live
    /\ m = n => Live = {n}
    /\ \A k \in Live \ {m, n} : ~between(n, k, m)

\* Every list is the nodes that follow on the ring, and every predecessor the last before.
Ideal ==
    \A n \in Live :
        /\ Len(Successors[n]) = NumberOfSuccessors
        /\ Follows(Successors[n][1], n)
        /\ \A i \in 1 .. NumberOfSuccessors - 1 : Follows(Successors[n][i + 1], Successors[n][i])
        /\ Predecessor[n] \in Live /\ Follows(n, Predecessor[n])

\* The fault detector is right from some time on.
PingsAnswered == <>[][\A n \in Nodes : ~PingTimesOut(n)]_vars

\* Joins and crashes are bounded, so they end: then stabilize, notify and
\* checkPredecessor bring the ring of the nodes that are left about, and keep it.
RingConverges == PingsAnswered => <>[]Ideal

=============================================================================
