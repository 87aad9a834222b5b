--------------------------- MODULE RaftLogProofs ---------------------------
(***************************************************************************)
(* What holds of the logs of Raft for every set of peers and every          *)
(* environment.                                                             *)
(*                                                                          *)
(* The peers keep no record of what was, and what makes their logs right    *)
(* is about what was: which leaders there were, what their logs were, and   *)
(* who held which entry in which term.  The invariant says that there is    *)
(* such a history, and each step shows how it goes on:                      *)
(*   led[t]     the peer that was elected in term t,                        *)
(*   logOf[t]   its log, as it is or as it was when it stopped to lead,     *)
(*   held       <<q, t, k>>: peer q, in term t, held entry k, of term t.    *)
(***************************************************************************)
EXTENDS RaftProofs

----------------------------------------------------------------------------
(* The history *)

\* l holds, at index k, the entry of term t.
Holds(l, k, t) == k \in 1 .. Len(l) /\ l[k] = t

\* a and b are the same up to n.
SamePrefix(a, b, n) == \A k \in 1 .. n : a[k] = b[k]

\* Each entry of l came, with all that precedes it, from the leader of its term.
FromLeaders(l, logOf) ==
    \A k \in 1 .. Len(l) :
        /\ l[k] \in DOMAIN logOf
        /\ k <= Len(logOf[l[k]])
        /\ SamePrefix(l, logOf[l[k]], k)

\* The leaders' logs came from the leaders of their terms and of earlier ones.
HistoryOK(led, logOf) ==
    /\ DOMAIN logOf \subseteq Nat
    /\ \A t \in DOMAIN logOf :
          /\ led[t] \in Server
          /\ logOf[t] \in Seq(Nat)
          /\ FromLeaders(logOf[t], logOf)
          /\ \A k \in 1 .. Len(logOf[t]) : logOf[t][k] <= t

\* Whatever q still does, its vote in term t is j's or nobody's.
Backs(q, j, t) ==
    /\ t <= currentTerm[q]
    /\ currentTerm[q] = t => votedFor[q] = j
    /\ \A m \in rpc : Granting(m) /\ m.src = q /\ m.asked = t => m.dst = j
    /\ \A i \in Server : q \in Supporters(i) /\ currentTerm[i] = t => i = j

\* No peer but j was or will be elected in term t.
Elected(j, t) == \E Q \in SUBSET Server : Majority(Q) /\ \A q \in Q : Backs(q, j, t)

\* Who was elected in a term was so once, and does not stand in it again.
ElectionsHeld(led, logOf) ==
    \A t \in DOMAIN logOf :
        /\ Elected(led[t], t)
        /\ t <= currentTerm[led[t]]
        /\ currentTerm[led[t]] = t => state[led[t]] # "Candidate"

\* The log of who leads is the log of its term's leader.
LeadersKnown(led, logOf) ==
    \A i \in Server : state[i] = "Leader" =>
        /\ currentTerm[i] \in DOMAIN logOf
        /\ led[currentTerm[i]] = i
        /\ logOf[currentTerm[i]] = log[i]

\* All logs came from leaders, of no term their peers have not reached.
LogsKnown(logOf) ==
    \A i \in Server :
        /\ FromLeaders(log[i], logOf)
        /\ \A k \in 1 .. Len(log[i]) : log[i][k] <= currentTerm[i]

\* A request with entries or a snapshot is of the leader of its term, to
\* another peer, and holds a piece of its log.
RequestKnown(m, led, logOf) ==
    /\ m.type \in {"AppendEntries", "InstallSnapshot"} =>
          m.term \in DOMAIN logOf /\ led[m.term] = m.src /\ m.src # m.dst
    /\ m.type = "AppendEntries" =>
          /\ m.prev + Len(m.entries) <= Len(logOf[m.term])
          /\ m.prevTerm = TermAt(logOf[m.term], m.prev)
          /\ \A k \in 1 .. Len(m.entries) : m.entries[k] = logOf[m.term][m.prev + k]
    /\ m.type = "InstallSnapshot" =>
          m.lii <= Len(logOf[m.term]) /\ SamePrefix(m.data, logOf[m.term], m.lii)

\* A vote is asked for in a term the candidate has reached, and while it still
\* stands in it, for the log it has.
AskKnown(m) ==
    /\ m.type = "RequestVote" =>
          /\ m.term <= currentTerm[m.src]
          /\ m.term = currentTerm[m.src] /\ state[m.src] = "Candidate" =>
                m.lastIndex = LastLogIndex(m.src) /\ m.lastTerm = LastLogTerm(m.src)
    /\ m.type = "VoteReply" => m.asked <= currentTerm[m.dst]

MessagesKnown(led, logOf) ==
    /\ \A m \in rpc : RequestKnown(m, led, logOf) /\ AskKnown(m)
    /\ \A p \in snapDue : p[1] # p[2]

\* A leader of a term after t and up to b has another entry at k, or none.
Passed(t, k, b, logOf) == \E u \in DOMAIN logOf : t < u /\ u <= b /\ ~Holds(logOf[u], k, t)

\* What was held is still there, unless a later leader did not have it.
HeldKept(logOf, held) ==
    /\ held \subseteq Server \X Nat \X Nat
    /\ \A q \in Server, t \in Nat, k \in Nat : <<q, t, k>> \in held =>
          /\ t \in DOMAIN logOf
          /\ Holds(logOf[t], k, t)
          /\ t <= currentTerm[q]
          /\ Holds(log[q], k, t) \/ Passed(t, k, currentTerm[q], logOf)

\* held is complete.
HoldingHeld(held) ==
    \A q \in Server : \A k \in 1 .. Len(log[q]) :
        log[q][k] = currentTerm[q] => <<q, currentTerm[q], k>> \in held

\* The vote of q for the candidate i is sound: what q held in earlier terms the
\* candidate has, or an earlier leader did not.
VoteSound(q, i, logOf, held) ==
    \A t \in Nat, k \in Nat : <<q, t, k>> \in held /\ t < currentTerm[i] =>
        Holds(log[i], k, t) \/ Passed(t, k, currentTerm[i] - 1, logOf)

\* ... as all votes of those who may still win their term are.
VotesSound(logOf, held) ==
    \A i \in Server : state[i] = "Candidate" /\ currentTerm[i] \notin DOMAIN logOf =>
        /\ \A q \in votes[i] : VoteSound(q, i, logOf, held)
        /\ \A m \in rpc : Granting(m) /\ m.dst = i /\ m.asked = currentTerm[i] =>
              VoteSound(m.src, i, logOf, held)

\* A majority has left term t and never held its entry k: nobody commits it.
Blocked(t, k, held) ==
    \E Q \in SUBSET Server :
        Majority(Q) /\ \A q \in Q : t < currentTerm[q] /\ <<q, t, k>> \notin held

\* A leader has each entry of earlier terms that may still be committed.
LeadersSafe(logOf, held) ==
    \A u \in DOMAIN logOf, t \in Nat, k \in Nat :
        t < u => Holds(logOf[u], k, t) \/ Blocked(t, k, held)

----------------------------------------------------------------------------
(* What is committed, when no reply arrives in a later term of its leader *)

\* What the passing run of replication assumes too: the check of the term that
\* the reply branch of broadcastHeartBeat (raft.go:254-281) does not make.
NoLateReplies == LateReplies = {}

\* Entry n of term t, and all before it, is committed.
Chosen(t, n, logOf, held) ==
    /\ t \in DOMAIN logOf
    /\ Holds(logOf[t], n, t)
    /\ Majority({q \in Server : <<q, t, n>> \in held})

\* The first c entries of l are committed, in a term up to b.
Settled(l, c, b, logOf, held) ==
    /\ c <= Len(l)
    /\ c > 0 => \E t \in DOMAIN logOf, n \in Nat :
                    /\ t <= b /\ c <= n
                    /\ Chosen(t, n, logOf, held)
                    /\ SamePrefix(l, logOf[t], c)

CommitsSettled(logOf, held) ==
    \A i \in Server :
        /\ Settled(log[i], commitIndex[i], currentTerm[i], logOf, held)
        /\ lii[i] <= commitIndex[i]

\* Peer q held, in term t, every entry of that term up to index n.
HeldUpTo(q, t, n, logOf, held) ==
    /\ t \in DOMAIN logOf
    /\ n <= Len(logOf[t])
    /\ \A k \in 1 .. n : logOf[t][k] = t => <<q, t, k>> \in held

\* What leaders tell of commitment is so, and what followers acknowledge too.
CommitKnown(m, logOf, held) ==
    /\ m.type = "AppendEntries" =>
          /\ m.commit <= m.prev + Len(m.entries)
          /\ Settled(logOf[m.term], m.commit, m.term, logOf, held)
    /\ m.type = "InstallSnapshot" => Settled(logOf[m.term], m.lii, m.term, logOf, held)
    /\ m.type = "AppendReply" /\ m.ok => HeldUpTo(m.src, m.asked, m.match, logOf, held)
    /\ m.type = "AppendReply" /\ ~m.ok /\ m.conflictIndex > 0 =>
          m.asked \in DOMAIN logOf /\ m.conflictIndex <= Len(logOf[m.asked]) + 1
    /\ m.type = "SnapshotReply" =>
          /\ m.asked <= m.term
          /\ m.asked = m.term => HeldUpTo(m.src, m.asked, m.lii, logOf, held)

\* A leader's indexes are within its log, and a peer holds what it counts on.
LeadersMatch(logOf, held) ==
    \A i, j \in Server : state[i] = "Leader" =>
        /\ nextIndex[i][j] <= LastLogIndex(i) + 1
        /\ HeldUpTo(j, currentTerm[i], matchIndex[i][j], logOf, held)

CommitInv(logOf, held) ==
    /\ CommitsSettled(logOf, held)
    /\ \A m \in rpc : CommitKnown(m, logOf, held)
    /\ LeadersMatch(logOf, held)

\* The inductive invariant, of a history.
LogInv(led, logOf) ==
    /\ HistoryOK(led, logOf)
    /\ ElectionsHeld(led, logOf)
    /\ LeadersKnown(led, logOf)
    /\ LogsKnown(logOf)
    /\ MessagesKnown(led, logOf)

HeldInv(logOf, held) ==
    /\ HeldKept(logOf, held)
    /\ HoldingHeld(held)
    /\ VotesSound(logOf, held)
    /\ LeadersSafe(logOf, held)

\* There is a history that explains the state.
HistoryInv ==
    \E led, logOf, held :
        /\ LogInv(led, logOf)
        /\ HeldInv(logOf, held)
        /\ NoLateReplies => CommitInv(logOf, held)

----------------------------------------------------------------------------
(* Logs *)

\* Logs that came from leaders and hold the same entry are the same up to it.
LEMMA SameEntrySamePrefix ==
    ASSUME NEW logOf, NEW a \in Seq(Nat), NEW b \in Seq(Nat),
           FromLeaders(a, logOf), FromLeaders(b, logOf),
           NEW k \in 1 .. Len(a), k \in 1 .. Len(b), a[k] = b[k]
    PROVE  SamePrefix(a, b, k)
BY DEF FromLeaders, SamePrefix

\* The entries of a log after index p up to index n.
LEMMA PieceOf ==
    ASSUME NEW l \in Seq(Nat), NEW p \in Nat, NEW n \in Nat, p <= n, n <= Len(l)
    PROVE  /\ SubSeq(l, p + 1, n) \in Seq(Nat)
           /\ Len(SubSeq(l, p + 1, n)) = n - p
           /\ \A k \in 1 .. n - p : SubSeq(l, p + 1, n)[k] = l[p + k]
<1> DEFINE e == SubSeq(l, p + 1, n)
<1>1. Len(l) \in Nat
    BY LenProperties
<1>2. \A k \in p + 1 .. n : l[k] \in Nat
  <2> SUFFICES ASSUME NEW k \in p + 1 .. n PROVE l[k] \in Nat
      OBVIOUS
  <2>1. k \in 1 .. Len(l)
      BY <1>1
  <2> QED
      BY <2>1, ElementOfSeq
<1>3. /\ e \in Seq(Nat)
      /\ Len(e) = IF p + 1 <= n THEN n - (p + 1) + 1 ELSE 0
      /\ \A k \in 1 .. n - (p + 1) + 1 : e[k] = l[p + 1 + k - 1]
    BY <1>1, <1>2, SubSeqProperties
<1> HIDE DEF e
<1>4. Len(e) = n - p
    BY <1>1, <1>3
<1>5. ASSUME NEW k \in 1 .. n - p PROVE e[k] = l[p + k]
  <2>1. k \in Nat /\ k \in 1 .. n - (p + 1) + 1
      BY <1>1
  <2>2. e[k] = l[p + 1 + k - 1]
      BY <1>3, <2>1
  <2>3. p + 1 + k - 1 = p + k
      BY <2>1
  <2> QED
      BY <2>2, <2>3
<1> QED
    BY <1>3, <1>4, <1>5 DEF e

\* The entries after index p of a log.
LEMMA RestOf ==
    ASSUME NEW l \in Seq(Nat), NEW p \in 0 .. Len(l)
    PROVE  /\ SubSeq(l, p + 1, Len(l)) \in Seq(Nat)
           /\ Len(SubSeq(l, p + 1, Len(l))) = Len(l) - p
           /\ \A k \in 1 .. Len(l) - p : SubSeq(l, p + 1, Len(l))[k] = l[p + k]
BY LenProperties, PieceOf

\* A peer that follows a leader whose log is L keeps its log l if it agrees with
\* L up to n, and takes L's first n entries otherwise.
Adopts(l, r, L, n) ==
    /\ n \in Nat /\ n <= Len(L)
    /\ r \in Seq(Nat)
    /\ IF n <= Len(l) /\ SamePrefix(l, L, n)
         THEN r = l
         ELSE Len(r) = n /\ SamePrefix(r, L, n)

LEMMA AdoptsPrefix ==
    ASSUME NEW l \in Seq(Nat), NEW L \in Seq(Nat), NEW r \in Seq(Nat), NEW n \in Nat, Adopts(l, r, L, n)
    PROVE  n <= Len(r) /\ SamePrefix(r, L, n)
BY DEF Adopts

\* What agrees with the leader's log is kept.
LEMMA AdoptsKeeps ==
    ASSUME NEW l \in Seq(Nat), NEW L \in Seq(Nat), NEW r \in Seq(Nat), NEW n \in Nat, Adopts(l, r, L, n),
           NEW c \in Nat, c <= Len(l), c <= Len(L), SamePrefix(l, L, c)
    PROVE  c <= Len(r) /\ SamePrefix(r, l, c)
<1>1. Len(l) \in Nat /\ Len(L) \in Nat /\ n \in Nat /\ n <= Len(L)
    BY DEF Adopts
<1>2. CASE r = l
    BY <1>2 DEF SamePrefix
<1>3. CASE c <= n /\ r # l
  <2>1. Len(r) = n /\ SamePrefix(r, L, n)
      BY <1>3 DEF Adopts
  <2>2. ASSUME NEW k \in 1 .. c PROVE r[k] = l[k]
    <3>1. k \in 1 .. n
        BY <1>1, <1>3
    <3> QED
        BY <2>1, <3>1 DEF SamePrefix
  <2> QED
      BY <1>3, <2>1, <2>2 DEF SamePrefix
<1>4. CASE n < c
  <2>1. n <= Len(l) /\ SamePrefix(l, L, n)
      BY <1>1, <1>4 DEF SamePrefix
  <2> QED
      BY <2>1, <1>2 DEF Adopts
<1> QED
    BY <1>1, <1>2, <1>3, <1>4

LEMMA AdoptsFromLeaders ==
    ASSUME NEW logOf, NEW l \in Seq(Nat), NEW L \in Seq(Nat), NEW r \in Seq(Nat), NEW n \in Nat,
           Adopts(l, r, L, n), FromLeaders(l, logOf), FromLeaders(L, logOf)
    PROVE  FromLeaders(r, logOf)
<1>1. CASE r = l
    BY <1>1
<1>2. CASE Len(r) = n /\ SamePrefix(r, L, n)
  <2>1. Len(L) \in Nat /\ n <= Len(L)
      BY LenProperties DEF Adopts
  <2> SUFFICES ASSUME NEW k \in 1 .. n
               PROVE  /\ r[k] \in DOMAIN logOf
                      /\ k <= Len(logOf[r[k]])
                      /\ \A j \in 1 .. k : r[j] = logOf[r[k]][j]
      BY <1>2 DEF FromLeaders, SamePrefix
  <2>2. k \in 1 .. Len(L) /\ \A j \in 1 .. k : r[j] = L[j]
      BY <2>1, <1>2 DEF SamePrefix
  <2>3. r[k] = L[k]
      BY <2>2
  <2> QED
      BY <2>2, <2>3 DEF FromLeaders, SamePrefix
<1> QED
    BY <1>1, <1>2 DEF Adopts

\* AppendEntries lays a piece of the leader's log over the follower's, whose
\* entry before it is the leader's.
LEMMA OverlayAdopts ==
    ASSUME NEW logOf, NEW l \in Seq(Nat), NEW L \in Seq(Nat),
           FromLeaders(l, logOf), FromLeaders(L, logOf),
           NEW prev \in 0 .. Len(l), NEW entries \in Seq(Nat),
           prev + Len(entries) <= Len(L), TermAt(l, prev) = TermAt(L, prev),
           \A k \in 1 .. Len(entries) : entries[k] = L[prev + k]
    PROVE  Adopts(l, Overlay(l, prev, entries), L, prev + Len(entries))
<1> DEFINE n == prev + Len(entries)
           same == prev + Len(entries) <= Len(l)
                   /\ SubSeq(l, prev + 1, prev + Len(entries)) = entries
<1>1. Len(entries) \in Nat /\ Len(l) \in Nat /\ Len(L) \in Nat /\ n \in Nat
    BY LenProperties
<1>2. SamePrefix(l, L, prev)
  <2>1. CASE prev = 0
      BY <2>1 DEF SamePrefix
  <2>2. CASE prev # 0
      BY <2>2, <1>1, SameEntrySamePrefix DEF TermAt
  <2> QED
      BY <2>1, <2>2
<1>3. CASE same
  <2>1. \A k \in 1 .. Len(entries) : l[prev + k] = entries[k]
    <3>1. prev \in Nat /\ prev + Len(entries) \in Nat /\ (prev + Len(entries)) - prev = Len(entries)
          /\ prev <= prev + Len(entries)
        BY <1>1
    <3>2. \A k \in 1 .. (prev + Len(entries)) - prev :
             SubSeq(l, prev + 1, prev + Len(entries))[k] = l[prev + k]
        BY <3>1, <1>3, PieceOf
    <3> QED
        BY <3>1, <3>2, <1>3
  <2>2. SamePrefix(l, L, n)
    <3> SUFFICES ASSUME NEW k \in 1 .. n PROVE l[k] = L[k]
        BY DEF SamePrefix
    <3>1. CASE k <= prev
        BY <3>1, <1>2 DEF SamePrefix
    <3>2. CASE k > prev
      <4>1. k - prev \in 1 .. Len(entries) /\ prev + (k - prev) = k
          BY <3>2, <1>1
      <4> QED
          BY <4>1, <2>1
    <3> QED
        BY <3>1, <3>2, <1>1
  <2>3. Overlay(l, prev, entries) = l
      BY <1>3 DEF Overlay
  <2> QED
      BY <2>2, <2>3, <1>1, <1>3 DEF Adopts
<1>4. CASE ~same
  <2> DEFINE r == SubSeq(l, 1, prev) \o entries
  <2>1. /\ SubSeq(l, 1, prev) \in Seq(Nat) /\ Len(SubSeq(l, 1, prev)) = prev
        /\ \A k \in 1 .. prev : SubSeq(l, 1, prev)[k] = l[k]
    <3>1. \A k \in 1 .. prev : l[k] \in Nat
        BY <1>1
    <3> QED
        BY <3>1, SubSeqProperties
  <2>2. /\ r \in Seq(Nat) /\ Len(r) = n
        /\ \A k \in 1 .. n : r[k] = IF k <= prev THEN l[k] ELSE entries[k - prev]
    <3>1. /\ r \in Seq(Nat) /\ Len(r) = Len(SubSeq(l, 1, prev)) + Len(entries)
          /\ \A k \in 1 .. Len(SubSeq(l, 1, prev)) + Len(entries) : r[k] =
                 IF k <= Len(SubSeq(l, 1, prev)) THEN SubSeq(l, 1, prev)[k]
                 ELSE entries[k - Len(SubSeq(l, 1, prev))]
        BY <2>1, ConcatProperties
    <3>2. Len(SubSeq(l, 1, prev)) + Len(entries) = n
        BY <2>1
    <3>3. \A k \in 1 .. n : r[k] = IF k <= prev THEN SubSeq(l, 1, prev)[k] ELSE entries[k - prev]
        BY <3>1, <3>2, <2>1
    <3> QED
        BY <3>1, <3>2, <3>3, <2>1
  <2>3. Overlay(l, prev, entries) = r
      BY <1>4 DEF Overlay
  <2> HIDE DEF r
  <2>4. SamePrefix(r, L, n)
    <3> SUFFICES ASSUME NEW k \in 1 .. n PROVE r[k] = L[k]
        BY DEF SamePrefix
    <3>1. CASE k <= prev
      <4>1. k \in 1 .. prev /\ r[k] = l[k]
          BY <3>1, <2>2
      <4> QED
          BY <4>1, <1>2 DEF SamePrefix
    <3>2. CASE k > prev
      <4>1. k - prev \in 1 .. Len(entries) /\ prev + (k - prev) = k
          BY <3>2, <1>1
      <4>2. r[k] = entries[k - prev]
          BY <3>2, <2>2
      <4>3. entries[k - prev] = L[prev + (k - prev)]
          BY <4>1
      <4> QED
          BY <4>1, <4>2, <4>3
    <3> QED
        BY <3>1, <3>2, <1>1
  <2>5. ~(n <= Len(l) /\ SamePrefix(l, L, n))
    <3> SUFFICES ASSUME n <= Len(l), SamePrefix(l, L, n) PROVE same
        BY <1>4
    <3>1. prev \in Nat /\ n \in Nat /\ n - prev = Len(entries) /\ prev <= n
        BY <1>1
    <3>2. /\ SubSeq(l, prev + 1, n) \in Seq(Nat)
          /\ Len(SubSeq(l, prev + 1, n)) = n - prev
          /\ \A k \in 1 .. n - prev : SubSeq(l, prev + 1, n)[k] = l[prev + k]
      <4> HIDE DEF n
      <4> QED
          BY <3>1, PieceOf
    <3>3. \A k \in 1 .. Len(entries) : SubSeq(l, prev + 1, n)[k] = entries[k]
      <4> SUFFICES ASSUME NEW k \in 1 .. Len(entries)
                   PROVE  SubSeq(l, prev + 1, n)[k] = entries[k]
          OBVIOUS
      <4>1. SubSeq(l, prev + 1, n)[k] = l[prev + k]
          BY <3>1, <3>2
      <4>2. prev + k \in 1 .. n
          BY <1>1
      <4>3. l[prev + k] = L[prev + k]
          BY <4>2 DEF SamePrefix
      <4> QED
          BY <4>1, <4>3
    <3> QED
        BY <3>1, <3>2, <3>3, SeqEqual
  <2> QED
      BY <2>2, <2>3, <2>4, <2>5, <1>1 DEF Adopts
<1> QED
    BY <1>3, <1>4

\* InstallSnapshot puts the first entries of the leader's log there.
LEMMA UnderSnapshotAdopts ==
    ASSUME NEW logOf, NEW l \in Seq(Nat), NEW L \in Seq(Nat),
           FromLeaders(l, logOf), FromLeaders(L, logOf),
           NEW m, NEW d \in Seq(Nat), NEW n \in Nat, m.data = d, m.lii = n,
           n = Len(d), n > 0, n <= Len(L), SamePrefix(d, L, n)
    PROVE  Adopts(l, UnderSnapshot(l, m), L, n)
<1>1. n \in Nat /\ Len(l) \in Nat /\ n \in 1 .. n
    BY LenProperties
<1>2. TermAt(l, n) = l[n] /\ TermAt(d, n) = L[n]
  <2>1. d[n] = L[n]
      BY <1>1 DEF SamePrefix
  <2> QED
      BY <2>1 DEF TermAt
<1>3. CASE n <= Len(l) /\ l[n] = L[n]
  <2>1. SamePrefix(l, L, n)
      BY <1>1, <1>3, SameEntrySamePrefix
  <2>0. n \in 0 .. Len(l)
      BY <1>1, <1>3
  <2> DEFINE kept == SubSeq(l, n + 1, Len(l))
             r    == d \o kept
  <2>2. /\ kept \in Seq(Nat) /\ Len(kept) = Len(l) - n
        /\ \A k \in 1 .. Len(l) - n : kept[k] = l[n + k]
      BY <2>0, RestOf
  <2> HIDE DEF kept
  <2>3. r \in Seq(Nat) /\ Len(r) = Len(l)
        /\ \A k \in 1 .. Len(l) : r[k] = IF k <= n THEN d[k] ELSE kept[k - n]
    <3>1. /\ r \in Seq(Nat) /\ Len(r) = Len(d) + Len(kept)
          /\ \A k \in 1 .. Len(d) + Len(kept) :
                r[k] = IF k <= Len(d) THEN d[k] ELSE kept[k - Len(d)]
      <4>1. kept \in Seq(Nat)
          BY <2>2
      <4> QED
          BY <4>1, ConcatProperties
    <3>2. Len(d) + Len(kept) = Len(l)
        BY <2>2, <1>1
    <3> HIDE DEF r
    <3> QED
        BY <3>1, <3>2
  <2> HIDE DEF r
  <2>4. \A k \in 1 .. Len(l) : r[k] = l[k]
    <3> SUFFICES ASSUME NEW k \in 1 .. Len(l) PROVE r[k] = l[k]
        OBVIOUS
    <3>1. CASE k <= n
      <4>1. k \in 1 .. n /\ r[k] = d[k]
          BY <3>1, <2>3, <1>1
      <4> QED
          BY <4>1, <2>1 DEF SamePrefix
    <3>2. CASE k > n
      <4>1. k - n \in 1 .. Len(l) - n /\ n + (k - n) = k
          BY <3>2, <1>1
      <4>2. r[k] = kept[k - n]
          BY <3>2, <2>3, <1>1
      <4>3. kept[k - n] = l[n + (k - n)]
          BY <4>1, <2>2
      <4> QED
          BY <4>1, <4>2, <4>3
    <3> QED
        BY <3>1, <3>2, <1>1
  <2>5. r = l
      BY <2>3, <2>4, SeqEqual
  <2>6. UnderSnapshot(l, m) = r
      BY <1>2, <1>3 DEF UnderSnapshot, r, kept
  <2> QED
      BY <2>1, <2>5, <2>6, <1>1, <1>3 DEF Adopts
<1>4. CASE ~(n <= Len(l) /\ l[n] = L[n])
  <2>1. UnderSnapshot(l, m) = d
      BY <1>2, <1>4 DEF UnderSnapshot
  <2>2. ~(n <= Len(l) /\ SamePrefix(l, L, n))
      BY <1>1, <1>4 DEF SamePrefix
  <2> QED
      BY <2>1, <2>2, <1>1 DEF Adopts
<1> QED
    BY <1>3, <1>4

----------------------------------------------------------------------------
(* How the history goes on *)

\* The history goes on: no leader is forgotten, and its log only gets new
\* entries of its own term.
Extends(led, logOf, led2, logOf2) ==
    \A t \in DOMAIN logOf :
        /\ t \in DOMAIN logOf2
        /\ led2[t] = led[t]
        /\ Len(logOf[t]) <= Len(logOf2[t])
        /\ SamePrefix(logOf[t], logOf2[t], Len(logOf[t]))
        /\ \A k \in Len(logOf[t]) + 1 .. Len(logOf2[t]) : logOf2[t][k] = t

\* An entry of a leader's log stays, and one of another term does not come.
LEMMA ExtendsHolds ==
    ASSUME NEW led, NEW logOf, NEW led2, NEW logOf2,
           HistoryOK(led, logOf), HistoryOK(led2, logOf2), Extends(led, logOf, led2, logOf2),
           NEW u \in DOMAIN logOf, NEW k \in Nat, NEW t \in Nat
    PROVE  /\ Holds(logOf[u], k, t) => Holds(logOf2[u], k, t)
           /\ t # u /\ Holds(logOf2[u], k, t) => Holds(logOf[u], k, t)
<1>1. /\ u \in DOMAIN logOf2 /\ logOf[u] \in Seq(Nat) /\ logOf2[u] \in Seq(Nat)
      /\ Len(logOf[u]) \in Nat /\ Len(logOf2[u]) \in Nat
      /\ Len(logOf[u]) <= Len(logOf2[u])
    BY LenProperties DEF HistoryOK, Extends
<1>2. \A n \in 1 .. Len(logOf[u]) : logOf2[u][n] = logOf[u][n]
    BY DEF Extends, SamePrefix
<1>3. \A n \in Len(logOf[u]) + 1 .. Len(logOf2[u]) : logOf2[u][n] = u
    BY DEF Extends
<1> QED
    BY <1>1, <1>2, <1>3 DEF Holds

LEMMA ExtendsFromLeaders ==
    ASSUME NEW led, NEW logOf, NEW led2, NEW logOf2,
           HistoryOK(led, logOf), Extends(led, logOf, led2, logOf2),
           \A t \in DOMAIN logOf2 : logOf2[t] \in Seq(Nat),
           NEW l \in Seq(Nat), FromLeaders(l, logOf)
    PROVE  FromLeaders(l, logOf2)
<1> SUFFICES ASSUME NEW k \in 1 .. Len(l)
             PROVE  /\ l[k] \in DOMAIN logOf2
                    /\ k <= Len(logOf2[l[k]])
                    /\ \A n \in 1 .. k : l[n] = logOf2[l[k]][n]
    BY DEF FromLeaders, SamePrefix
<1> DEFINE t == l[k]
<1>1. t \in DOMAIN logOf /\ k <= Len(logOf[t]) /\ \A n \in 1 .. k : l[n] = logOf[t][n]
    BY DEF FromLeaders, SamePrefix
<1>2. /\ t \in DOMAIN logOf2
      /\ Len(logOf[t]) \in Nat /\ Len(logOf2[t]) \in Nat
      /\ Len(logOf[t]) <= Len(logOf2[t])
    BY <1>1, LenProperties DEF Extends, HistoryOK
<1>3. \A n \in 1 .. Len(logOf[t]) : logOf[t][n] = logOf2[t][n]
    BY <1>1 DEF Extends, SamePrefix
<1> QED
    BY <1>1, <1>2, <1>3

LEMMA ExtendsPassed ==
    ASSUME NEW led, NEW logOf, NEW led2, NEW logOf2,
           HistoryOK(led, logOf), HistoryOK(led2, logOf2), Extends(led, logOf, led2, logOf2),
           NEW t \in Nat, NEW k \in Nat, NEW b \in Int, NEW c \in Int, b <= c,
           Passed(t, k, b, logOf)
    PROVE  Passed(t, k, c, logOf2)
<1>1. PICK u \in DOMAIN logOf : t < u /\ u <= b /\ ~Holds(logOf[u], k, t)
    BY DEF Passed
<1>2. u \in Nat /\ u \in DOMAIN logOf2
    BY DEF HistoryOK, Extends
<1>3. ~Holds(logOf2[u], k, t)
    BY <1>1, <1>2, ExtendsHolds
<1>4. u <= c
    BY <1>1, <1>2
<1> QED
    BY <1>1, <1>2, <1>3, <1>4 DEF Passed

----------------------------------------------------------------------------
(* What steps do to terms, votes and roles *)

\* A step that casts and counts no vote leaves who backs whom.
LEMMA NoNewVoteBacks ==
    ASSUME Typed, Typed', NoNewVote, NEW q \in Server, NEW j \in Server, NEW t \in Nat,
           Backs(q, j, t)
    PROVE  Backs(q, j, t)'
<1>1. currentTerm[q] \in Nat /\ currentTerm'[q] \in Nat /\ currentTerm[q] <= currentTerm'[q]
    BY DEF NoNewVote, Typed, PeersTyped
<1>2. t <= currentTerm'[q] /\ (currentTerm'[q] = t => votedFor'[q] = j)
    BY <1>1 DEF NoNewVote, Backs
<1>3. \A m \in rpc' : Granting(m) /\ m.src = q /\ m.asked = t => m.dst = j
    BY DEF NoNewVote, Backs
<1>4. \A i \in Server : q \in Supporters(i)' /\ currentTerm'[i] = t => i = j
    BY DEF NoNewVote, Backs, Supporters
<1> QED
    BY <1>2, <1>3, <1>4 DEF Backs, Granting

LEMMA StartElectionBacks ==
    ASSUME Typed, NEW i \in Server, StartElection(i),
           NEW q \in Server, NEW j \in Server, NEW t \in Nat, Backs(q, j, t)
    PROVE  Backs(q, j, t)'
<1>1. /\ currentTerm'[i] = currentTerm[i] + 1 /\ votes'[i] = {i}
      /\ \A k \in Server : currentTerm[k] \in Nat
      /\ \A k \in Server \ {i} : /\ currentTerm'[k] = currentTerm[k]
                                 /\ votedFor'[k] = votedFor[k]
                                 /\ state'[k] = state[k] /\ votes'[k] = votes[k]
    BY DEF StartElection, Typed, PeersTyped
<1>2. \A m \in rpc' : Granting(m) => m \in rpc
    BY ExchangeNoVote DEF StartElection, Granting
<1>3. t <= currentTerm'[q] /\ (currentTerm'[q] = t => votedFor'[q] = j)
    BY <1>1 DEF Backs
<1>4. \A k \in Server : q \in Supporters(k)' /\ currentTerm'[k] = t => k = j
    BY <1>1 DEF Backs, Supporters
<1> QED
    BY <1>2, <1>3, <1>4 DEF Backs, Granting

LEMMA HandleRequestVoteBacks ==
    ASSUME Typed, NEW m \in rpc, HandleRequestVote(m),
           NEW q \in Server, NEW j \in Server, NEW t \in Nat, Backs(q, j, t)
    PROVE  Backs(q, j, t)'
<1> DEFINE i     == m.dst
           new   == m.term > currentTerm[i]
           v     == IF new THEN Nil ELSE votedFor[i]
           yes   == Grants(i, m, v)
           reply == VoteReply(m, m.term, yes)
<1>1. /\ i \in Server /\ m.src \in Server /\ m.term \in Nat
      /\ \A k \in Server : currentTerm[k] \in Nat
    BY MessageTypes DEF Typed, PeersTyped
<1>2. /\ m.term >= currentTerm[i] /\ currentTerm'[i] = m.term
      /\ votedFor'[i] = IF yes THEN m.src ELSE v
      /\ state'[i] = IF new THEN "Follower" ELSE state[i]
      /\ \A k \in Server \ {i} : /\ currentTerm'[k] = currentTerm[k]
                                 /\ votedFor'[k] = votedFor[k]
                                 /\ state'[k] = state[k]
      /\ votes' = votes
    BY <1>1 DEF HandleRequestVote, Typed, PeersTyped
<1>3. yes => v \in {Nil, m.src}
    BY DEF Grants
<1>4. reply.src = i /\ reply.dst = m.src /\ reply.asked = m.term /\ reply.granted = yes
    BY DEF VoteReply
<1>5. \A n \in rpc' : Granting(n) => n \in rpc \/ (n = reply /\ yes)
    BY <1>4 DEF HandleRequestVote, Answer, Exchange, Granting
<1> HIDE DEF reply, yes
\* If q is the voter and in term t already, its vote is j's.
<1>6. q = i /\ m.term = t => (yes => m.src = j) /\ v = j
    BY <1>1, <1>2, <1>3, ServerAssumption DEF Backs
<1>7. t <= currentTerm'[q] /\ (currentTerm'[q] = t => votedFor'[q] = j)
    BY <1>1, <1>2, <1>6 DEF Backs
<1>8. \A n \in rpc' : Granting(n) /\ n.src = q /\ n.asked = t => n.dst = j
    BY <1>4, <1>5, <1>6 DEF Backs
<1>9. \A k \in Server : q \in Supporters(k)' /\ currentTerm'[k] = t => k = j
    BY <1>1, <1>2 DEF Backs, Supporters
<1> QED
    BY <1>7, <1>8, <1>9 DEF Backs, Granting

LEMMA HandleVoteReplyBacks ==
    ASSUME Typed, NEW m \in rpc, HandleVoteReply(m),
           NEW q \in Server, NEW j \in Server, NEW t \in Nat, Backs(q, j, t)
    PROVE  Backs(q, j, t)'
<1> DEFINE i == m.dst
           v == IF m.granted THEN votes[i] \cup {m.src} ELSE votes[i]
<1>1. /\ i \in Server /\ m.src \in Server /\ m.asked = currentTerm[i]
      /\ state[i] = "Candidate" /\ m.type = "VoteReply"
    BY MessageTypes DEF Typed, HandleVoteReply, CountsFor
<1>2. currentTerm' = currentTerm /\ votedFor' = votedFor /\ votes'[i] = v
    BY <1>1 DEF HandleVoteReply, termVars, Typed, PeersTyped
<1>3. \A k \in Server \ {i} : votes'[k] = votes[k] /\ state'[k] = state[k]
    BY <1>1 DEF HandleVoteReply, BecomeLeader, Typed, PeersTyped
<1>4. \A n \in rpc' : Granting(n) => n \in rpc
    BY ExchangeNoVote DEF HandleVoteReply
<1>5. \A k \in Server : q \in Supporters(k)' =>
          q \in Supporters(k) \/ (k = i /\ q = m.src /\ Granting(m))
    BY <1>1, <1>3, <1>2 DEF Supporters, Granting
<1>6. \A k \in Server : q \in Supporters(k)' /\ currentTerm'[k] = t => k = j
    BY <1>1, <1>2, <1>5 DEF Backs
<1> QED
    BY <1>2, <1>4, <1>6 DEF Backs, Granting

\* Who backs whom is for good.
LEMMA BacksStable ==
    ASSUME Typed, Typed', DiskInSync, [Next]_vars,
           NEW q \in Server, NEW j \in Server, NEW t \in Nat, Backs(q, j, t)
    PROVE  Backs(q, j, t)'
<1>1. ASSUME NEW i \in Server, StartElection(i) PROVE Backs(q, j, t)'
    BY <1>1, StartElectionBacks
<1>2. ASSUME NEW i \in Server, Start(i) PROVE Backs(q, j, t)'
    BY <1>2, StartNoNewVote, NoNewVoteBacks
<1>3. ASSUME NEW i \in Server, Restart(i) PROVE Backs(q, j, t)'
    BY <1>3, RestartNoNewVote, NoNewVoteBacks
<1>4. ASSUME NEW i \in Server, NEW k \in Server,
             SendAppendEntries(i, k) \/ SnapshotNeeded(i, k) \/ SendInstallSnapshot(i, k)
      PROVE  Backs(q, j, t)'
    BY <1>4, SendNoNewVote, NoNewVoteBacks
<1>5. ASSUME NEW i \in Server, NEW index, Snapshot(i, index) PROVE Backs(q, j, t)'
    BY <1>5, SnapshotNoNewVote, NoNewVoteBacks
<1>6. ASSUME NEW m \in rpc, HandleRequestVote(m) PROVE Backs(q, j, t)'
    BY <1>6, HandleRequestVoteBacks
<1>7. ASSUME NEW m \in rpc, HandleVoteReply(m) PROVE Backs(q, j, t)'
    BY <1>7, HandleVoteReplyBacks
<1>8. ASSUME NEW m \in rpc, Receive(m), ~HandleRequestVote(m), ~HandleVoteReply(m)
      PROVE  Backs(q, j, t)'
    BY <1>8, ReceiveNoNewVote, NoNewVoteBacks
<1>9. CASE UNCHANGED vars
  <2>1. NoNewVote
      BY <1>9, QuietNoNewVote DEF vars, termVars
  <2> QED
      BY <2>1, NoNewVoteBacks
<1> QED
    BY <1>1, <1>2, <1>3, <1>4, <1>5, <1>6, <1>7, <1>8, <1>9 DEF Next

LEMMA ElectedStable ==
    ASSUME Typed, Typed', DiskInSync, [Next]_vars,
           NEW j \in Server, NEW t \in Nat, Elected(j, t)
    PROVE  Elected(j, t)'
<1>1. PICK Q \in SUBSET Server : Majority(Q) /\ \A q \in Q : Backs(q, j, t)
    BY DEF Elected
<1>2. \A q \in Q : Backs(q, j, t)'
    BY <1>1, BacksStable
<1> QED
    BY <1>1, <1>2 DEF Elected, Majority

\* A term has one elected peer, counting who wins it in the step.
LEMMA ElectedOnce ==
    ASSUME Typed', ElectionInv', NEW i \in Server, Majority(votes'[i]), state'[i] # "Follower",
           NEW j \in Server, Elected(j, currentTerm[i])'
    PROVE  i = j
<1>1. PICK Q \in SUBSET Server : Majority(Q) /\ \A q \in Q : Backs(q, j, currentTerm[i])'
    BY DEF Elected, Majority
<1>2. votes'[i] \in SUBSET Server
    BY DEF Typed, PeersTyped
<1>3. PICK q \in Server : q \in Q /\ q \in votes'[i]
    BY <1>1, <1>2, MajoritiesMeet
<1> QED
    BY <1>1, <1>3 DEF Backs, Supporters

\* Who has counted a majority of votes in a step is elected.
LEMMA MajorityElectsNext ==
    ASSUME Typed', ElectionInv', NEW i \in Server, NEW t, currentTerm'[i] = t,
           Majority(votes'[i]), state'[i] # "Follower"
    PROVE  Elected(i, t)'
<1>1. votes'[i] \in SUBSET Server /\ Supporters(i)' = votes'[i]
    BY DEF Typed, PeersTyped, Supporters
<1>2. ASSUME NEW q \in votes'[i] PROVE Backs(q, i, t)'
  <2>1. q \in Supporters(i)' /\ q \in Server
      BY <1>1
  <2>2. t <= currentTerm'[q] /\ (currentTerm'[q] = t => votedFor'[q] = i)
      BY <2>1 DEF ElectionInv, VotesBind
  <2>3. \A m \in rpc' : Granting(m) /\ m.src = q /\ m.asked = t => m.dst = i
      BY <2>1 DEF ElectionInv, VotesUnique, Granting
  <2>4. \A k \in Server : q \in Supporters(k)' /\ currentTerm'[k] = t => k = i
      BY <2>1 DEF ElectionInv, VotesUnique
  <2> QED
      BY <2>2, <2>3, <2>4 DEF Backs, Granting
<1> QED
    BY <1>1, <1>2 DEF Elected, Majority

----------------------------------------------------------------------------
(* What steps do to roles and logs *)

\* A peer leads only if it led, in this term, or just counted a majority.
LEMMA LeaderStep ==
    ASSUME Typed, DiskInSync, [Next]_vars, NEW i \in Server, state'[i] = "Leader"
    PROVE  /\ currentTerm'[i] = currentTerm[i]
           /\ state[i] # "Leader" => /\ \E m \in rpc : HandleVoteReply(m) /\ m.dst = i
                                     /\ state[i] = "Candidate"
                                     /\ Majority(votes'[i])
                                     /\ log' = log /\ currentTerm' = currentTerm
                                     /\ \A j \in Server \ {i} : state'[j] = state[j]
<1>1. CASE NoNewVote
    BY <1>1 DEF NoNewVote
<1>2. ASSUME NEW j \in Server, StartElection(j) PROVE state[i] = "Leader" /\ currentTerm'[i] = currentTerm[i]
    BY <1>2 DEF StartElection, Typed, PeersTyped
<1>3. ASSUME NEW m \in rpc, HandleRequestVote(m) PROVE state[i] = "Leader" /\ currentTerm'[i] = currentTerm[i]
  <2>1. m.dst \in Server /\ m.term \in Nat /\ currentTerm[m.dst] \in Nat
      BY MessageTypes DEF Typed, PeersTyped
  <2>2. /\ m.term >= currentTerm[m.dst] /\ currentTerm'[m.dst] = m.term
        /\ state'[m.dst] = IF m.term > currentTerm[m.dst] THEN "Follower" ELSE state[m.dst]
      BY <2>1, <1>3 DEF HandleRequestVote, Typed, PeersTyped
  <2>3. CASE m.dst = i
      BY <2>1, <2>2, <2>3
  <2>4. CASE m.dst # i
      BY <2>4, <1>3 DEF HandleRequestVote, Typed, PeersTyped
  <2> QED
      BY <2>3, <2>4
<1>4. ASSUME NEW m \in rpc, HandleVoteReply(m)
      PROVE  /\ currentTerm' = currentTerm
             /\ state[i] # "Leader" => /\ m.dst = i /\ state[i] = "Candidate"
                                       /\ Majority(votes'[i]) /\ log' = log
                                       /\ \A j \in Server \ {i} : state'[j] = state[j]
  <2>1. m.dst \in Server
      BY MessageTypes DEF Typed
  <2>2. currentTerm' = currentTerm /\ log' = log
      BY <1>4 DEF HandleVoteReply, termVars, logVars
  <2>3. state[i] # "Leader" => m.dst = i
      BY <2>1, <1>4 DEF HandleVoteReply, BecomeLeader, Typed, PeersTyped
  <2>4. state[i] # "Leader" => state[i] = "Candidate" /\ Majority(votes'[i])
                               /\ \A j \in Server \ {i} : state'[j] = state[j]
      BY <2>1, <2>3, <1>4 DEF HandleVoteReply, BecomeLeader, CountsFor, Typed, PeersTyped
  <2> QED
      BY <2>2, <2>3, <2>4
<1>5. CASE UNCHANGED vars
    BY <1>5 DEF vars
<1> QED
    BY <1>1, <1>2, <1>3, <1>4, <1>5, StartNoNewVote, RestartNoNewVote, SendNoNewVote,
       SnapshotNoNewVote, ReceiveNoNewVote DEF Next

\* A log changes when a leader starts a command, or a peer follows a leader.
LEMMA LogStep ==
    ASSUME Typed, DiskInSync, [Next]_vars
    PROVE  \/ log' = log
           \/ \E i \in Server : Start(i)
           \/ \E m \in rpc : AcceptEntries(m)
           \/ \E m \in rpc : HandleInstallSnapshot(m) /\ m.lii > lii[m.dst]
<1>1. ASSUME NEW i \in Server, StartElection(i) PROVE log' = log
    BY <1>1 DEF StartElection, logVars
<1>2. ASSUME NEW i \in Server, Restart(i) PROVE log' = log
  <2>1. disk[i] = [term |-> currentTerm[i], vote |-> votedFor[i],
                   log  |-> log[i],         lii  |-> lii[i]]
      BY DEF DiskInSync
  <2>2. disk[i].log = log[i]
      BY <2>1
  <2> QED
      BY <2>2, <1>2 DEF Restart, Typed, LogsTyped
<1>3. ASSUME NEW i \in Server, NEW j \in Server,
             SendAppendEntries(i, j) \/ SnapshotNeeded(i, j) \/ SendInstallSnapshot(i, j)
      PROVE  log' = log
    BY <1>3 DEF SendAppendEntries, SnapshotNeeded, SendInstallSnapshot, logVars
<1>4. ASSUME NEW i \in Server, NEW index, Snapshot(i, index) PROVE log' = log
    BY <1>4 DEF Snapshot
<1>5. ASSUME NEW m \in rpc, Receive(m), ~AcceptEntries(m), ~(HandleInstallSnapshot(m) /\ m.lii > lii[m.dst])
      PROVE  log' = log
  <2>1. CASE HandleRequestVote(m) \/ HandleVoteReply(m) \/ IgnoreVoteReply(m) \/ VoteReplyStepDown(m)
      BY <2>1 DEF HandleRequestVote, HandleVoteReply, IgnoreVoteReply, VoteReplyStepDown, logVars
  <2>2. CASE RefuseEntries(m) \/ HandleAppendSuccess(m) \/ HandleAppendConflict(m) \/ IgnoreAppendReply(m)
      BY <2>2 DEF RefuseEntries, HandleAppendSuccess, HandleAppendConflict, IgnoreAppendReply, logVars
  <2>3. CASE ReplyStepDown(m) \/ HandleSnapshotReply(m) \/ IgnoreSnapshotReply(m) \/ RefuseStaleTerm(m)
      BY <2>3 DEF ReplyStepDown, HandleSnapshotReply, IgnoreSnapshotReply, RefuseStaleTerm, logVars
  <2>4. CASE HandleInstallSnapshot(m)
      BY <2>4, <1>5 DEF HandleInstallSnapshot, logVars
  <2> QED
      BY <2>1, <2>2, <2>3, <2>4, <1>5 DEF Receive
<1>6. CASE UNCHANGED vars
    BY <1>6 DEF vars
<1> QED
    BY <1>1, <1>2, <1>3, <1>4, <1>5, <1>6 DEF Next

\* Following a leader, a peer does not stand, and does not lead a new term.
LEMMA FollowState ==
    ASSUME PeersTyped, NEW i \in Server, NEW t \in Nat, Follow(i, t), t >= currentTerm[i]
    PROVE  /\ currentTerm'[i] = t /\ state'[i] # "Candidate"
           /\ \A j \in Server \ {i} : currentTerm'[j] = currentTerm[j] /\ state'[j] = state[j]
           /\ state'[i] = "Leader" => state[i] = "Leader" /\ t = currentTerm[i]
<1>1. currentTerm[i] \in Nat /\ state[i] \in {"Follower", "Candidate", "Leader"}
    BY DEF PeersTyped
<1>2. /\ currentTerm'[i] = t
      /\ state'[i] = IF t > currentTerm[i] \/ state[i] = "Candidate" THEN "Follower" ELSE state[i]
    BY DEF Follow, PeersTyped
<1>3. \A j \in Server \ {i} : currentTerm'[j] = currentTerm[j] /\ state'[j] = state[j]
    BY DEF Follow, PeersTyped
<1> QED
    BY <1>1, <1>2, <1>3

\* A candidate has just stood, or goes on as it was, with perhaps a new vote.
LEMMA CandidateStep ==
    ASSUME Typed, Typed', DiskInSync, [Next]_vars, NEW i \in Server, state'[i] = "Candidate"
    PROVE  \/ StartElection(i)
           \/ /\ state[i] = "Candidate" /\ currentTerm'[i] = currentTerm[i]
              /\ log'[i] = log[i]
              /\ \A q \in votes'[i] : q \in votes[i] \/
                    \E m \in rpc : Granting(m) /\ m.dst = i /\ m.asked = currentTerm[i] /\ q = m.src
<1> DEFINE Goes == /\ state[i] = "Candidate" /\ currentTerm'[i] = currentTerm[i]
                   /\ \A q \in votes'[i] : q \in votes[i] \/
                         \E m \in rpc : Granting(m) /\ m.dst = i /\ m.asked = currentTerm[i] /\ q = m.src
<1>1. ASSUME NoNewVote PROVE Goes
  <2>1. state'[i] = state[i] /\ currentTerm'[i] = currentTerm[i] /\ votes'[i] = votes[i]
      BY <1>1 DEF NoNewVote
  <2> QED
      BY <2>1
<1>2. ASSUME NEW j \in Server, StartElection(j) PROVE StartElection(i) \/ Goes
  <2>1. CASE j = i
      BY <1>2, <2>1
  <2>2. CASE j # i
    <3>1. state'[i] = state[i] /\ currentTerm'[i] = currentTerm[i] /\ votes'[i] = votes[i]
        BY <1>2, <2>2 DEF StartElection, Typed, PeersTyped
    <3> QED
        BY <3>1
  <2> QED
      BY <2>1, <2>2
<1>3. ASSUME NEW m \in rpc, HandleRequestVote(m) PROVE Goes
  <2>1. m.dst \in Server /\ m.term \in Nat /\ currentTerm[m.dst] \in Nat
      BY MessageTypes DEF Typed, PeersTyped
  <2>2. /\ votes' = votes /\ m.term >= currentTerm[m.dst] /\ currentTerm'[m.dst] = m.term
        /\ state'[m.dst] = IF m.term > currentTerm[m.dst] THEN "Follower" ELSE state[m.dst]
      BY <2>1, <1>3 DEF HandleRequestVote, Typed, PeersTyped
  <2>3. CASE m.dst = i
      BY <2>1, <2>2, <2>3
  <2>4. CASE m.dst # i
      BY <2>2, <2>4, <1>3 DEF HandleRequestVote, Typed, PeersTyped
  <2> QED
      BY <2>3, <2>4
<1>4. ASSUME NEW m \in rpc, HandleVoteReply(m) PROVE Goes
  <2>1. m.dst \in Server /\ m.src \in Server
      BY MessageTypes DEF Typed
  <2>2. currentTerm' = currentTerm
      BY <1>4 DEF HandleVoteReply, termVars
  <2>3. state[i] = "Candidate"
      BY <2>1, <1>4 DEF HandleVoteReply, BecomeLeader, CountsFor, Typed, PeersTyped
  <2>4. CASE m.dst = i
    <3>1. votes'[i] = IF m.granted THEN votes[i] \cup {m.src} ELSE votes[i]
        BY <2>1, <2>4, <1>4 DEF HandleVoteReply, Typed, PeersTyped
    <3>2. m.type = "VoteReply" /\ m.asked = currentTerm[i]
        BY <2>4, <1>4 DEF HandleVoteReply, CountsFor
    <3> QED
        BY <3>1, <3>2, <2>2, <2>3, <2>4 DEF Granting
  <2>5. CASE m.dst # i
      BY <2>1, <2>2, <2>3, <2>5, <1>4 DEF HandleVoteReply, Typed, PeersTyped
  <2> QED
      BY <2>4, <2>5
<1>5. CASE UNCHANGED vars
    BY <1>5 DEF vars
<1>6. StartElection(i) \/ Goes
    BY <1>1, <1>2, <1>3, <1>4, <1>5, StartNoNewVote, RestartNoNewVote, SendNoNewVote,
       SnapshotNoNewVote, ReceiveNoNewVote DEF Next
<1>7. ASSUME Goes PROVE log'[i] = log[i]
  <2>1. ASSUME NEW j \in Server, Start(j) PROVE log'[i] = log[i]
      BY <2>1, <1>7 DEF Start, Typed, LogsTyped
  <2>2. ASSUME NEW m \in rpc, AcceptEntries(m) PROVE log'[i] = log[i]
    <3>1. m.dst \in Server /\ m.term \in Nat
        BY MessageTypes DEF Typed
    <3>2. m.dst # i
        BY <3>1, <2>2, FollowState DEF AcceptEntries, Typed
    <3> QED
        BY <3>1, <3>2, <2>2 DEF AcceptEntries, Typed, LogsTyped
  <2>3. ASSUME NEW m \in rpc, HandleInstallSnapshot(m), m.lii > lii[m.dst] PROVE log'[i] = log[i]
    <3>1. m.dst \in Server /\ m.term \in Nat
        BY MessageTypes DEF Typed
    <3>2. m.dst # i
        BY <3>1, <2>3, FollowState DEF HandleInstallSnapshot, Typed
    <3> QED
        BY <3>1, <3>2, <2>3 DEF HandleInstallSnapshot, Typed, LogsTyped
  <2> QED
      BY <2>1, <2>2, <2>3, LogStep
<1> QED
    BY <1>6, <1>7

----------------------------------------------------------------------------
(* The logs go on *)

\* The log of i goes on as it is, or as that of the leader it follows.
GoesOn(i, logOf) ==
    \/ log'[i] = log[i]
    \/ \E n \in Nat : /\ currentTerm'[i] \in DOMAIN logOf
                      /\ Adopts(log[i], log'[i], logOf[currentTerm'[i]], n)

\* i is elected in term t.
Wins(i, t) ==
    /\ state[i] = "Candidate" /\ state'[i] = "Leader"
    /\ currentTerm[i] = t /\ currentTerm'[i] = t
    /\ Majority(votes'[i])
    /\ log' = log /\ currentTerm' = currentTerm
    /\ \A j \in Server \ {i} : state'[j] = state[j]
    /\ \E m \in rpc : HandleVoteReply(m) /\ m.dst = i

\* A step, seen with the history before it and after it.
HistoryStep(led, logOf, led2, logOf2) ==
    /\ Extends(led, logOf, led2, logOf2)
    /\ \A i \in Server : GoesOn(i, logOf2)
    /\ \A t \in DOMAIN logOf2 \ DOMAIN logOf :
          \E i \in Server : Wins(i, t) /\ led2[t] = i /\ logOf2[t] = log[i]

\* What an AppendEntries that is accepted makes of the log.
LEMMA AcceptAdopts ==
    ASSUME Typed, NEW led, NEW logOf, LogInv(led, logOf), NEW m \in rpc, AcceptEntries(m)
    PROVE  /\ m.dst \in Server /\ m.term \in DOMAIN logOf /\ led[m.term] = m.src /\ m.src # m.dst
           /\ m.prev + Len(m.entries) \in Nat
           /\ logOf[m.term] \in Seq(Nat)
           /\ Adopts(log[m.dst], log'[m.dst], logOf[m.term], m.prev + Len(m.entries))
           /\ \A j \in Server \ {m.dst} : log'[j] = log[j]
           /\ currentTerm'[m.dst] = m.term /\ m.term >= currentTerm[m.dst]
           /\ state'[m.dst] # "Candidate"
           /\ state'[m.dst] = "Leader" => state[m.dst] = "Leader" /\ m.term = currentTerm[m.dst]
<1> DEFINE i == m.dst
<1>1. /\ i \in Server /\ m.term \in Nat /\ m.prev \in Nat /\ m.entries \in Seq(Nat)
      /\ m.type = "AppendEntries" /\ Len(m.entries) \in Nat
    BY MessageTypes, LenProperties DEF Typed, AcceptEntries
<1>2. /\ m.term \in DOMAIN logOf /\ led[m.term] = m.src /\ m.src # m.dst
      /\ m.prev + Len(m.entries) <= Len(logOf[m.term])
      /\ m.prevTerm = TermAt(logOf[m.term], m.prev)
      /\ \A k \in 1 .. Len(m.entries) : m.entries[k] = logOf[m.term][m.prev + k]
    BY <1>1 DEF LogInv, MessagesKnown, RequestKnown
<1>3. logOf[m.term] \in Seq(Nat) /\ FromLeaders(logOf[m.term], logOf)
    BY <1>2 DEF LogInv, HistoryOK
<1>4. log[i] \in Seq(Nat) /\ FromLeaders(log[i], logOf) /\ lii[i] \in Nat
    BY <1>1 DEF LogInv, LogsKnown, Typed, LogsTyped
<1>5. m.prev \in 0 .. Len(log[i]) /\ TermAt(log[i], m.prev) = TermAt(logOf[m.term], m.prev)
    BY <1>1, <1>2, <1>4 DEF AcceptEntries, Consistent, LastLogIndex
<1>6. Adopts(log[i], Overlay(log[i], m.prev, m.entries), logOf[m.term], m.prev + Len(m.entries))
  <2> DEFINE L == logOf[m.term]  l == log[i]  p == m.prev  e == m.entries
  <2>1. /\ l \in Seq(Nat) /\ L \in Seq(Nat) /\ FromLeaders(l, logOf) /\ FromLeaders(L, logOf)
        /\ p \in 0 .. Len(l) /\ e \in Seq(Nat) /\ p + Len(e) <= Len(L)
        /\ TermAt(l, p) = TermAt(L, p)
        /\ \A k \in 1 .. Len(e) : e[k] = L[p + k]
      BY <1>1, <1>2, <1>3, <1>4, <1>5
  <2> HIDE DEF L, l, p, e
  <2>2. Adopts(l, Overlay(l, p, e), L, p + Len(e))
      BY <2>1, OverlayAdopts
  <2> QED
      BY <2>2 DEF l, L, p, e
<1>7. /\ log'[i] = Overlay(log[i], m.prev, m.entries)
      /\ \A j \in Server \ {i} : log'[j] = log[j]
    BY <1>1 DEF AcceptEntries, Typed, LogsTyped
<1>8. Follow(i, m.term) /\ m.term >= currentTerm[i]
    BY DEF AcceptEntries
<1>9. /\ currentTerm'[i] = m.term /\ state'[i] # "Candidate"
      /\ state'[i] = "Leader" => state[i] = "Leader" /\ m.term = currentTerm[i]
    BY <1>1, <1>8, FollowState DEF Typed
<1> QED
    BY <1>1, <1>2, <1>3, <1>6, <1>7, <1>8, <1>9

\* What a snapshot that is newer makes of the log.
LEMMA SnapshotAdopts ==
    ASSUME Typed, NEW led, NEW logOf, LogInv(led, logOf),
           NEW m \in rpc, HandleInstallSnapshot(m), m.lii > lii[m.dst]
    PROVE  /\ m.dst \in Server /\ m.term \in DOMAIN logOf /\ led[m.term] = m.src /\ m.src # m.dst
           /\ m.lii \in Nat
           /\ logOf[m.term] \in Seq(Nat)
           /\ Adopts(log[m.dst], log'[m.dst], logOf[m.term], m.lii)
           /\ \A j \in Server \ {m.dst} : log'[j] = log[j]
           /\ currentTerm'[m.dst] = m.term /\ m.term >= currentTerm[m.dst]
           /\ state'[m.dst] # "Candidate"
           /\ state'[m.dst] = "Leader" => state[m.dst] = "Leader" /\ m.term = currentTerm[m.dst]
<1> DEFINE i == m.dst
<1>1. /\ i \in Server /\ m.term \in Nat /\ m.lii \in Nat /\ m.data \in Seq(Nat)
      /\ m.type = "InstallSnapshot" /\ m.lii = Len(m.data)
    BY MessageTypes DEF Typed, HandleInstallSnapshot
<1>2. /\ m.term \in DOMAIN logOf /\ led[m.term] = m.src /\ m.src # m.dst
      /\ m.lii <= Len(logOf[m.term]) /\ SamePrefix(m.data, logOf[m.term], m.lii)
    BY <1>1 DEF LogInv, MessagesKnown, RequestKnown
<1>3. logOf[m.term] \in Seq(Nat) /\ FromLeaders(logOf[m.term], logOf)
    BY <1>2 DEF LogInv, HistoryOK
<1>4. log[i] \in Seq(Nat) /\ FromLeaders(log[i], logOf) /\ lii[i] \in Nat
    BY <1>1 DEF LogInv, LogsKnown, Typed, LogsTyped
<1>5. Adopts(log[i], UnderSnapshot(log[i], m), logOf[m.term], m.lii)
  <2> DEFINE L == logOf[m.term]  l == log[i]  d == m.data  n == m.lii
  <2>1. /\ l \in Seq(Nat) /\ L \in Seq(Nat) /\ FromLeaders(l, logOf) /\ FromLeaders(L, logOf)
        /\ d \in Seq(Nat) /\ n \in Nat /\ m.data = d /\ m.lii = n
        /\ n = Len(d) /\ n > 0 /\ n <= Len(L) /\ SamePrefix(d, L, n)
      BY <1>1, <1>2, <1>3, <1>4
  <2> HIDE DEF L, l, d, n
  <2>2. Adopts(l, UnderSnapshot(l, m), L, n)
      BY <2>1, UnderSnapshotAdopts
  <2> QED
      BY <2>2 DEF l, L, n
<1>6. /\ log'[i] = UnderSnapshot(log[i], m)
      /\ \A j \in Server \ {i} : log'[j] = log[j]
    BY <1>1 DEF HandleInstallSnapshot, Typed, LogsTyped
<1>7. Follow(i, m.term) /\ m.term >= currentTerm[i]
    BY DEF HandleInstallSnapshot
<1>8. /\ currentTerm'[i] = m.term /\ state'[i] # "Candidate"
      /\ state'[i] = "Leader" => state[i] = "Leader" /\ m.term = currentTerm[i]
    BY <1>1, <1>7, FollowState DEF Typed
<1> QED
    BY <1>1, <1>2, <1>3, <1>5, <1>6, <1>7, <1>8

\* The history after a step that elects nobody and adds to no leader's log.
LEMMA QuietHistory ==
    ASSUME Typed, Typed', NEW led, NEW logOf, LogInv(led, logOf),
           \A i \in Server : state'[i] = "Leader" =>
               state[i] = "Leader" /\ currentTerm'[i] = currentTerm[i] /\ log'[i] = log[i],
           \A i \in Server : GoesOn(i, logOf)
    PROVE  /\ HistoryStep(led, logOf, led, logOf)
           /\ LeadersKnown(led, logOf)'
<1>1. Extends(led, logOf, led, logOf)
  <2> SUFFICES ASSUME NEW t \in DOMAIN logOf
               PROVE  /\ Len(logOf[t]) <= Len(logOf[t])
                      /\ SamePrefix(logOf[t], logOf[t], Len(logOf[t]))
                      /\ \A k \in Len(logOf[t]) + 1 .. Len(logOf[t]) : logOf[t][k] = t
      BY DEF Extends
  <2>1. Len(logOf[t]) \in Nat
      BY LenProperties DEF LogInv, HistoryOK
  <2> QED
      BY <2>1 DEF SamePrefix
<1> QED
    BY <1>1 DEF HistoryStep, LogInv, LeadersKnown

\* ... when a leader appends a command to its log.
LEMMA StartHistory ==
    ASSUME Typed, Typed', ElectionInv, NEW led, NEW logOf, LogInv(led, logOf), NEW i \in Server, Start(i)
    PROVE  \E led2, logOf2 : /\ HistoryStep(led, logOf, led2, logOf2)
                             /\ HistoryOK(led2, logOf2)
                             /\ LeadersKnown(led2, logOf2)'
<1> DEFINE t == currentTerm[i]
           n == Len(log[i])
<1>0. PICK logOf2 : logOf2 = [u \in DOMAIN logOf |-> IF u = t THEN log'[i] ELSE logOf[u]]
    OBVIOUS
<1>1. /\ t \in Nat /\ log[i] \in Seq(Nat) /\ n \in Nat
      /\ currentTerm' = currentTerm /\ state' = state /\ state[i] = "Leader"
      /\ \A j \in Server \ {i} : log'[j] = log[j]
      /\ log'[i] = Append(log[i], t)
    BY LenProperties DEF Start, termVars, Typed, PeersTyped, LogsTyped
<1>2. /\ log'[i] \in Seq(Nat) /\ Len(log'[i]) = n + 1
      /\ \A k \in 1 .. n : log'[i][k] = log[i][k]
      /\ log'[i][n + 1] = t
    BY <1>1, AppendProperties
<1>3. t \in DOMAIN logOf /\ led[t] = i /\ logOf[t] = log[i] /\ DOMAIN logOf \subseteq Nat
    BY <1>1 DEF LogInv, LeadersKnown, HistoryOK
<1>4. /\ DOMAIN logOf2 = DOMAIN logOf /\ logOf2[t] = log'[i]
      /\ \A u \in DOMAIN logOf : u # t => logOf2[u] = logOf[u]
    BY <1>0, <1>3
<1>5. Extends(led, logOf, led, logOf2)
  <2> SUFFICES ASSUME NEW u \in DOMAIN logOf
               PROVE  /\ Len(logOf[u]) <= Len(logOf2[u])
                      /\ \A k \in 1 .. Len(logOf[u]) : logOf[u][k] = logOf2[u][k]
                      /\ \A k \in Len(logOf[u]) + 1 .. Len(logOf2[u]) : logOf2[u][k] = u
      BY <1>4 DEF Extends, SamePrefix
  <2>1. CASE u = t
      BY <2>1, <1>1, <1>2, <1>3, <1>4
  <2>2. CASE u # t
    <3>1. Len(logOf[u]) \in Nat
        BY LenProperties DEF LogInv, HistoryOK
    <3> QED
        BY <2>2, <3>1, <1>4
  <2> QED
      BY <2>1, <2>2
<1>6. HistoryOK(led, logOf2)
  <2>1. \A u \in DOMAIN logOf2 : logOf2[u] \in Seq(Nat)
      BY <1>2, <1>3, <1>4 DEF LogInv, HistoryOK
  <2>2. \A u \in DOMAIN logOf : FromLeaders(logOf[u], logOf2)
      BY <2>1, <1>5, ExtendsFromLeaders DEF LogInv, HistoryOK
  <2>3. FromLeaders(log'[i], logOf2)
    <3> SUFFICES ASSUME NEW k \in 1 .. n + 1
                 PROVE  /\ log'[i][k] \in DOMAIN logOf2
                        /\ k <= Len(logOf2[log'[i][k]])
                        /\ \A j \in 1 .. k : log'[i][j] = logOf2[log'[i][k]][j]
        BY <1>2 DEF FromLeaders, SamePrefix
    <3>1. CASE k = n + 1
        BY <3>1, <1>1, <1>2, <1>3, <1>4
    <3>2. CASE k <= n
      <4>1. k \in 1 .. Len(logOf[t]) /\ log'[i][k] = log[i][k]
            /\ \A j \in 1 .. k : log'[i][j] = log[i][j]
          BY <3>2, <1>1, <1>2, <1>3
      <4>2. /\ log[i][k] \in DOMAIN logOf2 /\ k <= Len(logOf2[log[i][k]])
            /\ \A j \in 1 .. k : log[i][j] = logOf2[log[i][k]][j]
          BY <4>1, <2>2, <1>3 DEF FromLeaders, SamePrefix
      <4> QED
          BY <4>1, <4>2
    <3> QED
        BY <3>1, <3>2, <1>1
  <2>4. \A u \in DOMAIN logOf2 : \A k \in 1 .. Len(logOf2[u]) : logOf2[u][k] <= u
    <3> SUFFICES ASSUME NEW u \in DOMAIN logOf2, NEW k \in 1 .. Len(logOf2[u])
                 PROVE  logOf2[u][k] <= u
        OBVIOUS
    <3>1. CASE u # t
        BY <3>1, <1>4 DEF LogInv, HistoryOK
    <3>2. CASE u = t
      <4>1. \A j \in 1 .. n : log[i][j] <= t
          BY <1>3 DEF LogInv, HistoryOK
      <4> QED
          BY <3>2, <4>1, <1>1, <1>2, <1>4
    <3> QED
        BY <3>1, <3>2
  <2> QED
      BY <2>1, <2>2, <2>3, <2>4, <1>3, <1>4 DEF HistoryOK, LogInv
<1>7. \A j \in Server : GoesOn(j, logOf2)
  <2>1. Adopts(log[i], log'[i], log'[i], n + 1)
      BY <1>1, <1>2 DEF Adopts, SamePrefix
  <2>2. currentTerm'[i] = t /\ t \in DOMAIN logOf2 /\ logOf2[t] = log'[i] /\ n + 1 \in Nat
      BY <1>1, <1>3, <1>4
  <2>3. GoesOn(i, logOf2)
      BY <2>1, <2>2 DEF GoesOn
  <2> QED
      BY <2>3, <1>1 DEF GoesOn
<1>8. LeadersKnown(led, logOf2)'
  <2> SUFFICES ASSUME NEW j \in Server, state[j] = "Leader"
               PROVE  /\ currentTerm[j] \in DOMAIN logOf2
                      /\ led[currentTerm[j]] = j
                      /\ logOf2[currentTerm[j]] = log'[j]
      BY <1>1 DEF LeadersKnown
  <2>1. /\ currentTerm[j] \in DOMAIN logOf /\ led[currentTerm[j]] = j
        /\ logOf[currentTerm[j]] = log[j]
      BY DEF LogInv, LeadersKnown
  <2> QED
      BY <2>1, <1>1, <1>3, <1>4
<1>9. HistoryStep(led, logOf, led, logOf2)
    BY <1>4, <1>5, <1>7 DEF HistoryStep
<1> QED
    BY <1>6, <1>8, <1>9

\* ... when a candidate counts its majority: no peer was elected in its term.
LEMMA WinHistory ==
    ASSUME Typed, Typed', DiskInSync, ElectionInv', [Next]_vars,
           NEW led, NEW logOf, LogInv(led, logOf), NEW i \in Server, Wins(i, currentTerm[i])
    PROVE  \E led2, logOf2 : /\ HistoryStep(led, logOf, led2, logOf2)
                             /\ HistoryOK(led2, logOf2)
                             /\ LeadersKnown(led2, logOf2)'
<1> DEFINE t == currentTerm[i]
<1>0. PICK led2 : led2 = [u \in DOMAIN logOf \cup {t} |-> IF u = t THEN i ELSE led[u]]
    OBVIOUS
<1>01. PICK logOf2 : logOf2 = [u \in DOMAIN logOf \cup {t} |-> IF u = t THEN log[i] ELSE logOf[u]]
    OBVIOUS
<1>1. /\ t \in Nat /\ log[i] \in Seq(Nat) /\ log' = log /\ currentTerm' = currentTerm
      /\ state[i] = "Candidate" /\ state'[i] = "Leader"
      /\ \A j \in Server \ {i} : state'[j] = state[j]
    BY DEF Wins, Typed, PeersTyped, LogsTyped
<1>2. t \notin DOMAIN logOf
  <2> SUFFICES ASSUME t \in DOMAIN logOf PROVE FALSE
      OBVIOUS
  <2>1. /\ led[t] \in Server /\ Elected(led[t], t)
        /\ currentTerm[led[t]] = t => state[led[t]] # "Candidate"
      BY DEF LogInv, HistoryOK, ElectionsHeld
  <2>2. Elected(led[t], t)'
      BY <2>1, <1>1, ElectedStable
  <2>3. i = led[t]
    <3>1. Majority(votes'[i]) /\ state'[i] # "Follower" /\ currentTerm'[i] = t
        BY <1>1 DEF Wins
    <3> QED
        BY <3>1, <2>1, <2>2, ElectedOnce
  <2> QED
      BY <2>1, <2>3, <1>1
<1>3. /\ DOMAIN logOf2 = DOMAIN logOf \cup {t} /\ logOf2[t] = log[i] /\ led2[t] = i
      /\ \A u \in DOMAIN logOf : logOf2[u] = logOf[u] /\ led2[u] = led[u]
    BY <1>0, <1>01, <1>2
<1>4. Extends(led, logOf, led2, logOf2)
  <2> SUFFICES ASSUME NEW u \in DOMAIN logOf
               PROVE  /\ Len(logOf[u]) <= Len(logOf[u])
                      /\ \A k \in Len(logOf[u]) + 1 .. Len(logOf[u]) : logOf[u][k] = u
      BY <1>3 DEF Extends, SamePrefix
  <2>1. Len(logOf[u]) \in Nat
      BY LenProperties DEF LogInv, HistoryOK
  <2> QED
      BY <2>1
<1>5. HistoryOK(led2, logOf2)
  <2>1. \A u \in DOMAIN logOf2 : logOf2[u] \in Seq(Nat) /\ led2[u] \in Server
      BY <1>1, <1>3 DEF LogInv, HistoryOK
  <2>2. \A u \in DOMAIN logOf2 : FromLeaders(logOf2[u], logOf)
      BY <1>3 DEF LogInv, HistoryOK, LogsKnown
  <2>3. \A u \in DOMAIN logOf2 : FromLeaders(logOf2[u], logOf2)
      BY <2>1, <2>2, <1>4, ExtendsFromLeaders DEF LogInv
  <2>4. \A u \in DOMAIN logOf2 : \A k \in 1 .. Len(logOf2[u]) : logOf2[u][k] <= u
      BY <1>3 DEF LogInv, HistoryOK, LogsKnown
  <2>5. DOMAIN logOf2 \subseteq Nat
      BY <1>1, <1>3 DEF LogInv, HistoryOK
  <2> QED
      BY <2>1, <2>3, <2>4, <2>5 DEF HistoryOK
<1>6. LeadersKnown(led2, logOf2)'
  <2> SUFFICES ASSUME NEW j \in Server, state'[j] = "Leader"
               PROVE  /\ currentTerm[j] \in DOMAIN logOf2
                      /\ led2[currentTerm[j]] = j
                      /\ logOf2[currentTerm[j]] = log[j]
      BY <1>1 DEF LeadersKnown
  <2>1. CASE j = i
      BY <2>1, <1>3
  <2>2. CASE j # i
    <3>1. /\ currentTerm[j] \in DOMAIN logOf /\ led[currentTerm[j]] = j
          /\ logOf[currentTerm[j]] = log[j]
        BY <2>2, <1>1 DEF LogInv, LeadersKnown
    <3> QED
        BY <3>1, <1>3
  <2> QED
      BY <2>1, <2>2
<1>7. HistoryStep(led, logOf, led2, logOf2)
    BY <1>1, <1>3, <1>4 DEF HistoryStep, GoesOn
<1> QED
    BY <1>5, <1>6, <1>7

\* Every step goes on with the history.
LEMMA HistoryGoesOn ==
    ASSUME Typed, Typed', ElectionInv, ElectionInv', [Next]_vars,
           NEW led, NEW logOf, LogInv(led, logOf)
    PROVE  \E led2, logOf2 : /\ HistoryStep(led, logOf, led2, logOf2)
                             /\ HistoryOK(led2, logOf2)
                             /\ LeadersKnown(led2, logOf2)'
<1> USE DEF ElectionInv
<1>1. CASE \E i \in Server : state'[i] = "Leader" /\ state[i] # "Leader"
  <2>1. PICK i \in Server : state'[i] = "Leader" /\ state[i] # "Leader"
      BY <1>1
  <2>2. Wins(i, currentTerm[i])
      BY <2>1, LeaderStep DEF Wins
  <2> QED
      BY <2>2, WinHistory
<1>2. CASE \A i \in Server : state'[i] = "Leader" => state[i] = "Leader"
  <2>1. ASSUME NEW i \in Server, Start(i)
        PROVE  \E led2, logOf2 : /\ HistoryStep(led, logOf, led2, logOf2)
                                 /\ HistoryOK(led2, logOf2)
                                 /\ LeadersKnown(led2, logOf2)'
      BY <2>1, StartHistory
  <2>2. \A i \in Server : state'[i] = "Leader" => state[i] = "Leader" /\ currentTerm'[i] = currentTerm[i]
      BY <1>2, LeaderStep
  <2>3. ASSUME \A i \in Server : state'[i] = "Leader" => log'[i] = log[i],
               \A i \in Server : GoesOn(i, logOf)
        PROVE  \E led2, logOf2 : /\ HistoryStep(led, logOf, led2, logOf2)
                                 /\ HistoryOK(led2, logOf2)
                                 /\ LeadersKnown(led2, logOf2)'
    <3>1. HistoryOK(led, logOf)
        BY DEF LogInv
    <3> QED
        BY <3>1, <2>2, <2>3, QuietHistory
  <2>4. CASE log' = log
      BY <2>3, <2>4 DEF GoesOn
  <2>5. ASSUME NEW i \in Server, NEW t \in DOMAIN logOf, NEW n \in Nat,
               led[t] # i, currentTerm'[i] = t,
               Adopts(log[i], log'[i], logOf[t], n),
               \A j \in Server \ {i} : log'[j] = log[j],
               state'[i] = "Leader" => state[i] = "Leader" /\ t = currentTerm[i]
        PROVE  (\A j \in Server : state'[j] = "Leader" => log'[j] = log[j])
               /\ \A j \in Server : GoesOn(j, logOf)
    <3>1. state'[i] # "Leader"
        BY <2>5 DEF LogInv, LeadersKnown
    <3> QED
        BY <2>5, <3>1 DEF GoesOn
  <2>6. ASSUME NEW m \in rpc, AcceptEntries(m)
        PROVE  (\A i \in Server : state'[i] = "Leader" => log'[i] = log[i])
               /\ \A i \in Server : GoesOn(i, logOf)
      BY <2>5, <2>6, AcceptAdopts
  <2>7. ASSUME NEW m \in rpc, HandleInstallSnapshot(m), m.lii > lii[m.dst]
        PROVE  (\A i \in Server : state'[i] = "Leader" => log'[i] = log[i])
               /\ \A i \in Server : GoesOn(i, logOf)
      BY <2>5, <2>7, SnapshotAdopts
  <2> QED
      BY <2>1, <2>3, <2>4, <2>6, <2>7, LogStep
<1> QED
    BY <1>1, <1>2

\* ... in which logs still come from leaders.
LEMMA LogsGoOn ==
    ASSUME Typed, Typed', DiskInSync, [Next]_vars, NEW led, NEW logOf, LogInv(led, logOf),
           NEW led2, NEW logOf2, HistoryStep(led, logOf, led2, logOf2), HistoryOK(led2, logOf2)
    PROVE  LogsKnown(logOf2)'
<1> SUFFICES ASSUME NEW i \in Server
             PROVE  /\ FromLeaders(log'[i], logOf2)
                    /\ \A k \in 1 .. Len(log'[i]) : log'[i][k] <= currentTerm'[i]
    BY DEF LogsKnown
<1>1. /\ log[i] \in Seq(Nat) /\ log'[i] \in Seq(Nat)
      /\ currentTerm[i] \in Nat /\ currentTerm'[i] \in Nat /\ currentTerm[i] <= currentTerm'[i]
    BY StepKeepsVotes DEF Typed, PeersTyped, LogsTyped
<1>2. /\ FromLeaders(log[i], logOf2)
      /\ \A k \in 1 .. Len(log[i]) : log[i][k] \in Nat /\ log[i][k] <= currentTerm[i]
  <2>1. \A t \in DOMAIN logOf2 : logOf2[t] \in Seq(Nat)
      BY DEF HistoryOK
  <2>2. FromLeaders(log[i], logOf2)
      BY <1>1, <2>1, ExtendsFromLeaders DEF LogInv, LogsKnown, HistoryStep
  <2> QED
      BY <2>2, <1>1 DEF LogInv, LogsKnown
<1>3. CASE log'[i] = log[i]
    BY <1>1, <1>2, <1>3
<1>4. ASSUME NEW n \in Nat, currentTerm'[i] \in DOMAIN logOf2,
             Adopts(log[i], log'[i], logOf2[currentTerm'[i]], n), log'[i] # log[i]
      PROVE  /\ FromLeaders(log'[i], logOf2)
             /\ \A k \in 1 .. Len(log'[i]) : log'[i][k] <= currentTerm'[i]
  <2> DEFINE L == logOf2[currentTerm'[i]]
  <2>1. L \in Seq(Nat) /\ FromLeaders(L, logOf2) /\ \A k \in 1 .. Len(L) : L[k] <= currentTerm'[i]
      BY <1>4 DEF HistoryOK
  <2>2. FromLeaders(log'[i], logOf2)
      BY <1>1, <1>2, <1>4, <2>1, AdoptsFromLeaders
  <2>3. Len(log'[i]) = n /\ n <= Len(L) /\ \A k \in 1 .. n : log'[i][k] = L[k]
      BY <1>4 DEF Adopts, SamePrefix
  <2>4. Len(L) \in Nat
      BY <2>1, LenProperties
  <2> QED
      BY <2>1, <2>2, <2>3, <2>4
<1> QED
    BY <1>3, <1>4 DEF HistoryStep, GoesOn

\* ... and the elections held stay held.
LEMMA ElectionsGoOn ==
    ASSUME Typed, Typed', ElectionInv, ElectionInv', [Next]_vars, NEW led, NEW logOf, LogInv(led, logOf),
           NEW led2, NEW logOf2, HistoryStep(led, logOf, led2, logOf2), HistoryOK(led2, logOf2)
    PROVE  ElectionsHeld(led2, logOf2)'
<1> SUFFICES ASSUME NEW t \in DOMAIN logOf2
             PROVE  /\ Elected(led2[t], t)'
                    /\ t <= currentTerm'[led2[t]]
                    /\ currentTerm'[led2[t]] = t => state'[led2[t]] # "Candidate"
    BY DEF ElectionsHeld
<1>1. DiskInSync /\ t \in Nat
    BY DEF ElectionInv, HistoryOK
<1>2. CASE t \in DOMAIN logOf
  <2> DEFINE j == led[t]
  <2>1. led2[t] = led[t] /\ j \in Server /\ Elected(j, t) /\ t <= currentTerm[j]
        /\ (currentTerm[j] = t => state[j] # "Candidate")
      BY <1>2 DEF HistoryStep, Extends, LogInv, HistoryOK, ElectionsHeld
  <2> HIDE DEF j
  <2>2. Elected(j, t)'
      BY <1>1, <2>1, ElectedStable
  <2>3. currentTerm[j] \in Nat /\ currentTerm'[j] \in Nat /\ currentTerm[j] <= currentTerm'[j]
      BY <1>1, <2>1, StepKeepsVotes DEF Typed, PeersTyped
  <2>4. ASSUME currentTerm'[j] = t, state'[j] = "Candidate" PROVE FALSE
    <3>1. currentTerm[j] = t
        BY <2>1, <2>3, <2>4, <1>1
    <3>2. ~StartElection(j)
        BY <3>1, <2>1, <2>3, <2>4 DEF StartElection, Typed, PeersTyped
    <3>3. state[j] = "Candidate"
        BY <3>2, <2>1, <2>4, <1>1, CandidateStep
    <3> QED
        BY <3>1, <3>3, <2>1
  <2>5. led2[t] = j
      BY <2>1 DEF j
  <2> QED
      BY <2>1, <2>2, <2>3, <2>4, <2>5, <1>1
<1>3. CASE t \notin DOMAIN logOf
  <2>1. PICK i \in Server : Wins(i, t) /\ led2[t] = i
      BY <1>3 DEF HistoryStep
  <2>2. state'[i] = "Leader" /\ currentTerm'[i] = t /\ Majority(votes'[i])
      BY <2>1 DEF Wins
  <2>3. Elected(i, t)'
      BY <2>2, MajorityElectsNext
  <2> QED
      BY <2>1, <2>2, <2>3, <1>1
<1> QED
    BY <1>2, <1>3

----------------------------------------------------------------------------
(* The messages of a step *)

\* m was in flight; its caller may have crashed since.
Old(m) == \E n \in rpc : m = n \/ (n \in Requests /\ m = [n EXCEPT !.live = FALSE])

VoteAsked(m) ==
    \E i, j \in Server : /\ StartElection(i)
                         /\ m = [type |-> "RequestVote", src |-> i, dst |-> j,
                                 term |-> currentTerm[i] + 1, lastIndex |-> LastLogIndex(i),
                                 lastTerm |-> LastLogTerm(i), live |-> TRUE]

VoteAnswered(m) ==
    \E n \in rpc : /\ n.type = "RequestVote" /\ m.type = "VoteReply"
                   /\ m.src = n.dst /\ m.dst = n.src /\ m.asked = n.term
                   /\ m.granted => HandleRequestVote(n) /\ LogUpToDate(n.dst, n)

EntriesSent(m) ==
    \E i, j \in Server : /\ SendAppendEntries(i, j)
                         /\ m = [type |-> "AppendEntries", src |-> i, dst |-> j,
                                 term |-> currentTerm[i], prev |-> nextIndex[i][j] - 1,
                                 prevTerm |-> TermAt(log[i], nextIndex[i][j] - 1),
                                 entries |-> SubSeq(log[i], nextIndex[i][j] - 1 + 1, LastLogIndex(i)),
                                 commit |-> commitIndex[i], live |-> TRUE]

SnapshotSent(m) ==
    \E i, j \in Server : /\ SendInstallSnapshot(i, j) /\ state[i] = "Leader"
                         /\ m = [type |-> "InstallSnapshot", src |-> i, dst |-> j,
                                 term |-> currentTerm[i], lii |-> lii[i],
                                 data |-> SubSeq(log[i], 1, lii[i]), live |-> TRUE]

EntriesAnswered(m) ==
    \E n \in rpc : /\ n.type = "AppendEntries" /\ m.type = "AppendReply"
                   /\ m.src = n.dst /\ m.asked = n.term
                   /\ \/ m.ok /\ AcceptEntries(n) /\ m.match = n.prev + Len(n.entries)
                      \/ ~m.ok /\ m.conflictIndex = 0
                      \/ ~m.ok /\ RefuseEntries(n) /\ \E ct : Conflict(n.dst, n, ct, m.conflictIndex)

SnapshotAnswered(m) ==
    \E n \in rpc : /\ n.type = "InstallSnapshot" /\ m.type = "SnapshotReply"
                   /\ m.src = n.dst /\ m.asked = n.term /\ m.lii = n.lii
                   /\ \/ m.term = n.term /\ HandleInstallSnapshot(n)
                      \/ m.term = currentTerm[n.dst] /\ n.term < m.term

Sent(m) == \/ VoteAsked(m)    \/ VoteAnswered(m)
           \/ EntriesSent(m)  \/ EntriesAnswered(m)
           \/ SnapshotSent(m) \/ SnapshotAnswered(m)

LEMMA ExchangeSends ==
    ASSUME NEW done, NEW sent, Exchange(done, sent), NEW m \in rpc'
    PROVE  m \in rpc \/ m \in sent
BY DEF Exchange

LEMMA AnswerSends ==
    ASSUME NEW n, NEW reply, Answer(n, reply), NEW m \in rpc'
    PROVE  m \in rpc \/ m = reply
BY ExchangeSends DEF Answer

LEMMA ReceiveSends ==
    ASSUME Typed, NEW n \in rpc, Receive(n), NEW m \in rpc', m \notin rpc
    PROVE  VoteAnswered(m) \/ EntriesAnswered(m) \/ SnapshotAnswered(m)
<1>1. Exchange({n}, {}) => FALSE
    BY ExchangeSends
<1>2. CASE HandleRequestVote(n)
  <2>1. PICK yes : m = VoteReply(n, n.term, yes) /\ (yes => LogUpToDate(n.dst, n))
    <3>1. PICK yes : Answer(n, VoteReply(n, n.term, yes)) /\ (yes => LogUpToDate(n.dst, n))
        BY <1>2 DEF HandleRequestVote, Grants
    <3> QED
        BY <3>1, AnswerSends
  <2> QED
      BY <2>1, <1>2 DEF VoteReply, VoteAnswered, HandleRequestVote
<1>3. CASE AcceptEntries(n)
  <2>1. m = AppendReply(n, n.term, TRUE, n.prev + Len(n.entries), 0, 0)
      BY <1>3, AnswerSends DEF AcceptEntries
  <2> QED
      BY <2>1, <1>3 DEF AppendReply, EntriesAnswered, AcceptEntries
<1>4. CASE RefuseEntries(n)
  <2>1. PICK ct, ci : Conflict(n.dst, n, ct, ci) /\ Answer(n, AppendReply(n, n.term, FALSE, 0, ct, ci))
      BY <1>4 DEF RefuseEntries
  <2>2. m = AppendReply(n, n.term, FALSE, 0, ct, ci)
      BY <2>1, AnswerSends
  <2>3. m.type = "AppendReply" /\ m.src = n.dst /\ m.asked = n.term /\ ~m.ok /\ m.conflictIndex = ci
      BY <2>2 DEF AppendReply
  <2> QED
      BY <2>1, <2>3, <1>4 DEF EntriesAnswered, RefuseEntries
<1>5. CASE HandleInstallSnapshot(n)
  <2>1. m = SnapshotReply(n, n.term)
      BY <1>5, AnswerSends DEF HandleInstallSnapshot
  <2> QED
      BY <2>1, <1>5 DEF SnapshotReply, SnapshotAnswered, HandleInstallSnapshot
<1>6. CASE RefuseStaleTerm(n)
  <2>1. CASE n.type = "RequestVote"
    <3>1. m = VoteReply(n, currentTerm[n.dst], FALSE)
        BY <1>6, <2>1, AnswerSends DEF RefuseStaleTerm
    <3> QED
        BY <3>1, <2>1 DEF VoteReply, VoteAnswered
  <2>2. CASE n.type = "AppendEntries"
    <3>1. m = AppendReply(n, currentTerm[n.dst], FALSE, 0, 0, 0)
        BY <1>6, <2>2, AnswerSends DEF RefuseStaleTerm
    <3> QED
        BY <3>1, <2>2 DEF AppendReply, EntriesAnswered
  <2>3. CASE n.type = "InstallSnapshot"
    <3>1. m = SnapshotReply(n, currentTerm[n.dst]) /\ n.term < currentTerm[n.dst]
        BY <1>6, <2>3, AnswerSends DEF RefuseStaleTerm
    <3> QED
        BY <3>1, <2>3 DEF SnapshotReply, SnapshotAnswered
  <2> QED
      BY <1>6, <2>1, <2>2, <2>3 DEF RefuseStaleTerm
<1>7. ~(HandleVoteReply(n) \/ IgnoreVoteReply(n) \/ VoteReplyStepDown(n) \/ HandleAppendSuccess(n))
    BY <1>1 DEF HandleVoteReply, IgnoreVoteReply, VoteReplyStepDown, HandleAppendSuccess
<1>8. ~(HandleAppendConflict(n) \/ IgnoreAppendReply(n) \/ ReplyStepDown(n))
    BY <1>1 DEF HandleAppendConflict, IgnoreAppendReply, ReplyStepDown
<1>9. ~(HandleSnapshotReply(n) \/ IgnoreSnapshotReply(n))
    BY <1>1 DEF HandleSnapshotReply, IgnoreSnapshotReply
<1> QED
    BY <1>2, <1>3, <1>4, <1>5, <1>6, <1>7, <1>8, <1>9 DEF Receive

\* What is in flight after a step was so before it or is sent in it.
LEMMA MessageStep ==
    ASSUME Typed, [Next]_vars, NEW m \in rpc'
    PROVE  Old(m) \/ Sent(m)
<1>1. m \in rpc => Old(m)
    BY DEF Old
<1>2. ASSUME NEW i \in Server, StartElection(i) PROVE m \in rpc \/ VoteAsked(m)
  <2>1. \/ m \in rpc
        \/ \E j \in Connected(i, currentTerm[i] + 1) :
              m = [type |-> "RequestVote", src |-> i, dst |-> j,
                   term |-> currentTerm[i] + 1, lastIndex |-> LastLogIndex(i),
                   lastTerm |-> LastLogTerm(i), live |-> TRUE]
      BY <1>2, ExchangeSends DEF StartElection
  <2> QED
      BY <2>1, <1>2 DEF VoteAsked, Connected
<1>3. ASSUME NEW i \in Server, Start(i) PROVE m \in rpc
    BY <1>3 DEF Start
<1>4. ASSUME NEW i \in Server, Restart(i) PROVE Old(m)
  <2>1. PICK n \in rpc : m = IF n.src = i /\ n.type \in {"RequestVote", "AppendEntries", "InstallSnapshot"}
                               THEN [n EXCEPT !.live = FALSE] ELSE n
      BY <1>4 DEF Restart, Orphaned
  <2>2. n.type \in {"RequestVote", "AppendEntries", "InstallSnapshot"} => n \in Requests
      BY MessageTypes DEF Typed
  <2> QED
      BY <2>1, <2>2 DEF Old
<1>5. ASSUME NEW i \in Server, NEW j \in Server, SendAppendEntries(i, j) PROVE m \in rpc \/ EntriesSent(m)
  <2> DEFINE sent == [type |-> "AppendEntries", src |-> i, dst |-> j,
                      term |-> currentTerm[i], prev |-> nextIndex[i][j] - 1,
                      prevTerm |-> TermAt(log[i], nextIndex[i][j] - 1),
                      entries |-> SubSeq(log[i], nextIndex[i][j] - 1 + 1, LastLogIndex(i)),
                      commit |-> commitIndex[i], live |-> TRUE]
  <2>1. Exchange({}, {sent})
      BY <1>5 DEF SendAppendEntries
  <2> HIDE DEF sent
  <2>2. m \in rpc \/ m = sent
      BY <2>1, ExchangeSends
  <2> QED
      BY <2>2, <1>5 DEF EntriesSent, sent
<1>6. ASSUME NEW i \in Server, NEW j \in Server, SnapshotNeeded(i, j) PROVE m \in rpc
    BY <1>6 DEF SnapshotNeeded
<1>7. ASSUME NEW i \in Server, NEW j \in Server, SendInstallSnapshot(i, j) PROVE m \in rpc \/ SnapshotSent(m)
  <2> DEFINE sent == [type |-> "InstallSnapshot", src |-> i, dst |-> j,
                      term |-> currentTerm[i], lii |-> lii[i],
                      data |-> SubSeq(log[i], 1, lii[i]), live |-> TRUE]
  <2>1. m \in rpc \/ (Exchange({}, {sent}) /\ state[i] = "Leader")
      BY <1>7 DEF SendInstallSnapshot
  <2> HIDE DEF sent
  <2>2. m \in rpc \/ (m = sent /\ state[i] = "Leader")
      BY <2>1, ExchangeSends
  <2> QED
      BY <2>2, <1>7 DEF SnapshotSent, sent
<1>8. ASSUME NEW i \in Server, NEW index, Snapshot(i, index) PROVE m \in rpc
    BY <1>8 DEF Snapshot
<1>9. ASSUME NEW n \in rpc, Receive(n) PROVE m \in rpc \/ Sent(m)
    BY <1>9, ReceiveSends DEF Sent
<1>10. CASE UNCHANGED vars
    BY <1>1, <1>10 DEF vars
<1> QED
    BY <1>1, <1>2, <1>3, <1>4, <1>5, <1>6, <1>7, <1>8, <1>9, <1>10 DEF Next, Sent

\* What a peer's crash changes in the messages it sent is that nobody waits.
LEMMA OldFields ==
    ASSUME Typed, NEW m, Old(m)
    PROVE  \E n \in rpc :
              /\ m.type = n.type /\ m.src = n.src /\ m.dst = n.dst /\ m.term = n.term
              /\ m = n \/ n \in Requests
              /\ m.type = "RequestVote" => m.lastIndex = n.lastIndex /\ m.lastTerm = n.lastTerm
              /\ m.type = "AppendEntries" => /\ m.prev = n.prev /\ m.prevTerm = n.prevTerm
                                             /\ m.entries = n.entries /\ m.commit = n.commit
              /\ m.type = "InstallSnapshot" => m.lii = n.lii /\ m.data = n.data
              /\ m.type \in {"VoteReply", "AppendReply", "SnapshotReply"} => m = n
<1>1. PICK n \in rpc : m = n \/ (n \in Requests /\ m = [n EXCEPT !.live = FALSE])
    BY DEF Old
<1>2. CASE m = n
    BY <1>1, <1>2
<1>3. CASE n \in Requests /\ m = [n EXCEPT !.live = FALSE]
    BY <1>1, <1>3 DEF Requests
<1> QED
    BY <1>1, <1>2, <1>3

\* The snapshots due: only SnapshotNeeded adds one.
LEMMA SnapDueStep ==
    ASSUME [Next]_vars
    PROVE  (\E i, j \in Server : SnapshotNeeded(i, j)) \/ snapDue' \subseteq snapDue
<1>1. ASSUME NEW i \in Server, StartElection(i) \/ Start(i) \/ Restart(i) PROVE snapDue' \subseteq snapDue
    BY <1>1 DEF StartElection, Start, Restart
<1>2. ASSUME NEW i \in Server, NEW j \in Server, SendAppendEntries(i, j) \/ SendInstallSnapshot(i, j)
      PROVE  snapDue' \subseteq snapDue
    BY <1>2 DEF SendAppendEntries, SendInstallSnapshot
<1>3. ASSUME NEW i \in Server, NEW index, Snapshot(i, index) PROVE snapDue' \subseteq snapDue
    BY <1>3 DEF Snapshot
<1>4. ASSUME NEW m \in rpc, Receive(m) PROVE snapDue' = snapDue
  <2>1. CASE HandleRequestVote(m) \/ HandleVoteReply(m) \/ IgnoreVoteReply(m) \/ VoteReplyStepDown(m)
      BY <2>1 DEF HandleRequestVote, HandleVoteReply, IgnoreVoteReply, VoteReplyStepDown
  <2>2. CASE AcceptEntries(m) \/ RefuseEntries(m) \/ HandleAppendSuccess(m) \/ HandleAppendConflict(m)
      BY <2>2 DEF AcceptEntries, RefuseEntries, HandleAppendSuccess, HandleAppendConflict
  <2>3. CASE IgnoreAppendReply(m) \/ ReplyStepDown(m) \/ HandleSnapshotReply(m) \/ IgnoreSnapshotReply(m)
      BY <2>3 DEF ReplyStepDown, HandleSnapshotReply, IgnoreSnapshotReply, IgnoreAppendReply
  <2>4. CASE HandleInstallSnapshot(m) \/ RefuseStaleTerm(m)
      BY <2>4 DEF HandleInstallSnapshot, RefuseStaleTerm
  <2> QED
      BY <2>1, <2>2, <2>3, <2>4, <1>4 DEF Receive
<1>5. CASE UNCHANGED vars
    BY <1>5 DEF vars
<1> QED
    BY <1>1, <1>2, <1>3, <1>4, <1>5 DEF Next

\* The first n entries of a log.
LEMMA FirstOf ==
    ASSUME NEW l \in Seq(Nat), NEW n \in Nat, n <= Len(l)
    PROVE  SamePrefix(SubSeq(l, 1, n), l, n)
<1>1. Len(l) \in Nat
    BY LenProperties
<1>2. \A k \in 1 .. n : l[k] \in Nat
    BY <1>1
<1>3. \A k \in 1 .. n - 1 + 1 : SubSeq(l, 1, n)[k] = l[1 + k - 1]
    BY <1>1, <1>2, SubSeqProperties
<1> QED
    BY <1>3 DEF SamePrefix

LEMMA SamePrefixSubSeq ==
    ASSUME NEW a \in Seq(Nat), NEW b \in Seq(Nat), NEW n \in Nat, n <= Len(a), n <= Len(b),
           SamePrefix(a, b, n)
    PROVE  SubSeq(a, 1, n) = SubSeq(b, 1, n)
<1> DEFINE x == SubSeq(a, 1, n)  y == SubSeq(b, 1, n)
<1>1. Len(a) \in Nat /\ Len(b) \in Nat
    BY LenProperties
<1>2. (\A k \in 1 .. n : a[k] \in Nat) /\ (\A k \in 1 .. n : b[k] \in Nat)
    BY <1>1
<1>3. x \in Seq(Nat) /\ Len(x) = n
    BY <1>1, <1>2, SubSeqProperties
<1>4. y \in Seq(Nat) /\ Len(y) = n
    BY <1>1, <1>2, SubSeqProperties
<1>5. SamePrefix(x, a, n) /\ SamePrefix(y, b, n)
    BY <1>1, FirstOf
<1>6. \A k \in 1 .. n : x[k] = y[k]
    BY <1>5 DEF SamePrefix
<1> HIDE DEF x, y
<1>7. x = y
    BY <1>3, <1>4, <1>6, SeqEqual
<1> QED
    BY <1>7 DEF x, y

\* e is what a log has after index p.
Piece(e, p, l) == p + Len(e) <= Len(l) /\ \A k \in 1 .. Len(e) : e[k] = l[p + k]

\* A piece of a log is a piece of what the log grows to.
LEMMA PieceGoesOn ==
    ASSUME NEW a \in Seq(Nat), NEW b \in Seq(Nat), Len(a) <= Len(b), SamePrefix(a, b, Len(a)),
           NEW e \in Seq(Nat), NEW p \in Nat, Piece(e, p, a)
    PROVE  Piece(e, p, b) /\ TermAt(a, p) = TermAt(b, p)
<1>1. Len(a) \in Nat /\ Len(b) \in Nat /\ Len(e) \in Nat /\ p + Len(e) <= Len(a)
    BY LenProperties DEF Piece
<1>2. \A k \in 1 .. Len(e) : e[k] = b[p + k]
  <2> SUFFICES ASSUME NEW k \in 1 .. Len(e) PROVE e[k] = b[p + k]
      OBVIOUS
  <2>1. p + k \in 1 .. Len(a) /\ e[k] = a[p + k]
      BY <1>1 DEF Piece
  <2> QED
      BY <2>1 DEF SamePrefix
<1>3. TermAt(a, p) = TermAt(b, p)
  <2>1. p > 0 => p \in 1 .. Len(a)
      BY <1>1
  <2> QED
      BY <2>1 DEF TermAt, SamePrefix
<1> QED
    BY <1>1, <1>2, <1>3 DEF Piece

LEMMA PrefixGoesOn ==
    ASSUME NEW a \in Seq(Nat), NEW b \in Seq(Nat), Len(a) <= Len(b), SamePrefix(a, b, Len(a)),
           NEW d, NEW n \in Nat, n <= Len(a), SamePrefix(d, a, n)
    PROVE  n <= Len(b) /\ SamePrefix(d, b, n)
<1>1. Len(a) \in Nat /\ Len(b) \in Nat
    BY LenProperties
<1>2. ASSUME NEW k \in 1 .. n PROVE d[k] = b[k]
  <2>1. k \in 1 .. Len(a)
      BY <1>1
  <2> QED
      BY <2>1 DEF SamePrefix
<1> QED
    BY <1>1, <1>2 DEF SamePrefix

\* A request of a leader is still a piece of its log.
LEMMA RequestGoesOn ==
    ASSUME NEW led, NEW logOf, NEW led2, NEW logOf2,
           HistoryOK(led, logOf), HistoryOK(led2, logOf2), Extends(led, logOf, led2, logOf2),
           NEW n \in rpc, WellFormed(rpc), RequestKnown(n, led, logOf),
           n.type \in {"AppendEntries", "InstallSnapshot"}
    PROVE  /\ n.term \in DOMAIN logOf2 /\ led2[n.term] = n.src /\ n.src # n.dst
           /\ n.type = "AppendEntries" =>
                 /\ n.prev + Len(n.entries) <= Len(logOf2[n.term])
                 /\ n.prevTerm = TermAt(logOf2[n.term], n.prev)
                 /\ \A k \in 1 .. Len(n.entries) : n.entries[k] = logOf2[n.term][n.prev + k]
           /\ n.type = "InstallSnapshot" =>
                 n.lii <= Len(logOf2[n.term]) /\ SamePrefix(n.data, logOf2[n.term], n.lii)
<1> DEFINE t == n.term
<1>1. t \in DOMAIN logOf /\ led[t] = n.src /\ n.src # n.dst
    BY DEF RequestKnown
<1>2. /\ t \in DOMAIN logOf2 /\ led2[t] = led[t]
      /\ Len(logOf[t]) <= Len(logOf2[t])
      /\ logOf[t] \in Seq(Nat) /\ logOf2[t] \in Seq(Nat)
      /\ SamePrefix(logOf[t], logOf2[t], Len(logOf[t]))
    BY <1>1 DEF Extends, HistoryOK
<1>3. CASE n.type = "AppendEntries"
  <2>1. n.prev \in Nat /\ n.entries \in Seq(Nat)
      BY <1>3, MessageTypes
  <2>2. /\ n.prev + Len(n.entries) <= Len(logOf[t])
        /\ n.prevTerm = TermAt(logOf[t], n.prev)
        /\ \A k \in 1 .. Len(n.entries) : n.entries[k] = logOf[t][n.prev + k]
      BY <1>3 DEF RequestKnown
  <2>3. Piece(n.entries, n.prev, logOf[t])
      BY <2>2 DEF Piece
  <2>4. Piece(n.entries, n.prev, logOf2[t]) /\ TermAt(logOf[t], n.prev) = TermAt(logOf2[t], n.prev)
      BY <1>2, <2>1, <2>3, PieceGoesOn
  <2> QED
      BY <1>1, <1>2, <1>3, <2>2, <2>4 DEF Piece
<1>4. CASE n.type = "InstallSnapshot"
  <2>1. n.lii \in Nat
      BY <1>4, MessageTypes
  <2>2. n.lii <= Len(logOf[t]) /\ SamePrefix(n.data, logOf[t], n.lii)
      BY <1>4 DEF RequestKnown
  <2>3. n.lii <= Len(logOf2[t]) /\ SamePrefix(n.data, logOf2[t], n.lii)
      BY <1>2, <2>1, <2>2, PrefixGoesOn
  <2> QED
      BY <1>1, <1>2, <1>4, <2>3
<1> QED
    BY <1>3, <1>4

\* What the candidates ask for goes on too.
LEMMA AskGoesOn ==
    ASSUME Typed, Typed', DiskInSync, [Next]_vars, NEW n \in rpc, AskKnown(n)
    PROVE  AskKnown(n)'
<1>1. /\ n.src \in Server /\ n.dst \in Server /\ n.term \in Nat
      /\ n.type = "VoteReply" => n.asked \in Nat
    BY MessageTypes DEF Typed
<1>2. \A i \in Server : currentTerm[i] \in Nat /\ currentTerm'[i] \in Nat /\ currentTerm[i] <= currentTerm'[i]
    BY StepKeepsVotes DEF Typed, PeersTyped
<1>3. n.type = "VoteReply" => n.asked <= currentTerm'[n.dst]
    BY <1>1, <1>2 DEF AskKnown
<1>4. ASSUME n.type = "RequestVote"
      PROVE  /\ n.term <= currentTerm'[n.src]
             /\ n.term = currentTerm'[n.src] /\ state'[n.src] = "Candidate" =>
                   n.lastIndex = LastLogIndex(n.src)' /\ n.lastTerm = LastLogTerm(n.src)'
  <2> DEFINE i == n.src
  <2>1. n.term <= currentTerm[i]
      BY <1>4 DEF AskKnown
  <2>2. ASSUME n.term = currentTerm'[i], state'[i] = "Candidate"
        PROVE  n.lastIndex = LastLogIndex(n.src)' /\ n.lastTerm = LastLogTerm(n.src)'
    <3>1. currentTerm[i] = currentTerm'[i]
        BY <1>1, <1>2, <2>1, <2>2
    <3>2. ~StartElection(i)
        BY <1>1, <1>2, <3>1 DEF StartElection, Typed, PeersTyped
    <3>3. state[i] = "Candidate" /\ log'[i] = log[i]
        BY <1>1, <2>2, <3>2, CandidateStep
    <3> QED
        BY <1>4, <2>2, <3>1, <3>3 DEF AskKnown, LastLogIndex, LastLogTerm
  <2> QED
      BY <1>1, <1>2, <2>1, <2>2
<1> QED
    BY <1>3, <1>4 DEF AskKnown

LEMMA MessagesGoOn ==
    ASSUME Typed, Typed', DiskInSync, [Next]_vars, NEW led, NEW logOf, LogInv(led, logOf),
           NEW led2, NEW logOf2, HistoryStep(led, logOf, led2, logOf2), HistoryOK(led2, logOf2)
    PROVE  MessagesKnown(led2, logOf2)'
<1>1. Extends(led, logOf, led2, logOf2) /\ HistoryOK(led, logOf)
    BY DEF HistoryStep, LogInv
<1>2. \A i \in Server : currentTerm[i] \in Nat /\ currentTerm'[i] \in Nat /\ currentTerm[i] <= currentTerm'[i]
    BY StepKeepsVotes DEF Typed, PeersTyped
<1>3. ASSUME NEW m, Old(m) PROVE RequestKnown(m, led2, logOf2) /\ AskKnown(m)'
  <2>1. PICK n \in rpc :
           /\ m.type = n.type /\ m.src = n.src /\ m.dst = n.dst /\ m.term = n.term
           /\ m = n \/ n \in Requests
           /\ m.type = "RequestVote" => m.lastIndex = n.lastIndex /\ m.lastTerm = n.lastTerm
           /\ m.type = "AppendEntries" => /\ m.prev = n.prev /\ m.prevTerm = n.prevTerm
                                          /\ m.entries = n.entries /\ m.commit = n.commit
           /\ m.type = "InstallSnapshot" => m.lii = n.lii /\ m.data = n.data
           /\ m.type \in {"VoteReply", "AppendReply", "SnapshotReply"} => m = n
      BY <1>3, OldFields
  <2>2. RequestKnown(n, led, logOf) /\ AskKnown(n) /\ WellFormed(rpc)
      BY DEF LogInv, MessagesKnown, Typed
  <2>3. RequestKnown(n, led2, logOf2)
      BY <2>2, <1>1, RequestGoesOn DEF RequestKnown
  <2>4. AskKnown(n)'
      BY <2>2, AskGoesOn
  <2>5. RequestKnown(m, led2, logOf2)
      BY <2>1, <2>3 DEF RequestKnown
  <2>6. AskKnown(m)'
      BY <2>1, <2>4 DEF AskKnown
  <2> QED
      BY <2>5, <2>6
<1>4. ASSUME NEW m, VoteAsked(m) PROVE RequestKnown(m, led2, logOf2) /\ AskKnown(m)'
  <2>1. PICK i, j \in Server :
           /\ StartElection(i)
           /\ m = [type |-> "RequestVote", src |-> i, dst |-> j,
                   term |-> currentTerm[i] + 1, lastIndex |-> LastLogIndex(i),
                   lastTerm |-> LastLogTerm(i), live |-> TRUE]
      BY <1>4 DEF VoteAsked
  <2>2. currentTerm'[i] = currentTerm[i] + 1 /\ log'[i] = log[i]
      BY <2>1 DEF StartElection, logVars, Typed, PeersTyped
  <2>3. LastLogIndex(i)' = LastLogIndex(i) /\ LastLogTerm(i)' = LastLogTerm(i)
      BY <2>2 DEF LastLogIndex, LastLogTerm
  <2> QED
      BY <2>1, <2>2, <2>3, <1>2 DEF RequestKnown, AskKnown
<1>5. ASSUME NEW m, VoteAnswered(m) PROVE RequestKnown(m, led2, logOf2) /\ AskKnown(m)'
  <2>1. PICK n \in rpc : /\ n.type = "RequestVote" /\ m.type = "VoteReply"
                         /\ m.dst = n.src /\ m.asked = n.term
      BY <1>5 DEF VoteAnswered
  <2>2. n.term <= currentTerm[n.src]
      BY <2>1 DEF LogInv, MessagesKnown, AskKnown
  <2>3. n.src \in Server /\ n.term \in Nat
      BY MessageTypes DEF Typed
  <2> QED
      BY <2>1, <2>2, <2>3, <1>2 DEF RequestKnown, AskKnown
<1>6. ASSUME NEW m, EntriesAnswered(m) \/ SnapshotAnswered(m) PROVE RequestKnown(m, led2, logOf2) /\ AskKnown(m)'
    BY <1>6 DEF EntriesAnswered, SnapshotAnswered, RequestKnown, AskKnown
\* What a leader sends is of its log, which the step has not changed.
<1>7. ASSUME NEW i \in Server, state[i] = "Leader", log' = log, currentTerm' = currentTerm,
             state' = state
      PROVE  /\ currentTerm[i] \in DOMAIN logOf /\ led[currentTerm[i]] = i
             /\ logOf[currentTerm[i]] = log[i]
             /\ currentTerm[i] \in DOMAIN logOf2 /\ led2[currentTerm[i]] = i
             /\ Len(log[i]) <= Len(logOf2[currentTerm[i]])
             /\ SamePrefix(log[i], logOf2[currentTerm[i]], Len(log[i]))
             /\ log[i] \in Seq(Nat) /\ logOf2[currentTerm[i]] \in Seq(Nat)
    BY <1>7, <1>1 DEF LogInv, LeadersKnown, Extends, HistoryOK, Typed, LogsTyped
<1>8. ASSUME NEW m, EntriesSent(m) PROVE RequestKnown(m, led2, logOf2) /\ AskKnown(m)'
  <2>1. PICK i, j \in Server :
           /\ SendAppendEntries(i, j)
           /\ m = [type |-> "AppendEntries", src |-> i, dst |-> j,
                   term |-> currentTerm[i], prev |-> nextIndex[i][j] - 1,
                   prevTerm |-> TermAt(log[i], nextIndex[i][j] - 1),
                   entries |-> SubSeq(log[i], nextIndex[i][j] - 1 + 1, LastLogIndex(i)),
                   commit |-> commitIndex[i], live |-> TRUE]
      BY <1>8 DEF EntriesSent
  <2> DEFINE p == nextIndex[i][j] - 1
             l == log[i]
             e == SubSeq(l, p + 1, Len(l))
             L == logOf2[currentTerm[i]]
  <2>2. /\ i # j /\ state[i] = "Leader" /\ log' = log /\ currentTerm' = currentTerm /\ state' = state
        /\ p \in lii[i] .. Len(l)
      BY <2>1 DEF SendAppendEntries, Connected, logVars, termVars, LastLogIndex
  <2>3. l \in Seq(Nat) /\ Len(l) \in Nat /\ lii[i] \in Nat /\ p \in 0 .. Len(l)
      BY <2>2, LenProperties DEF Typed, LogsTyped
  <2>4. /\ currentTerm[i] \in DOMAIN logOf2 /\ led2[currentTerm[i]] = i
        /\ Len(l) <= Len(L) /\ SamePrefix(l, L, Len(l)) /\ L \in Seq(Nat)
      BY <2>2, <1>7
  <2>5. e \in Seq(Nat) /\ Len(e) = Len(l) - p /\ \A k \in 1 .. Len(l) - p : e[k] = l[p + k]
      BY <2>3, RestOf
  <2>6. p \in Nat /\ Piece(e, p, l)
    <3> HIDE DEF l, p, e
    <3> QED
        BY <2>3, <2>5 DEF Piece
  <2> HIDE DEF l, L, p, e
  <2>7. Piece(e, p, L) /\ TermAt(l, p) = TermAt(L, p)
      BY <2>3, <2>4, <2>5, <2>6, PieceGoesOn
  <2>8. /\ m.type = "AppendEntries" /\ m.src = i /\ m.dst = j /\ m.term = currentTerm[i]
        /\ m.prev = p /\ m.prevTerm = TermAt(l, p) /\ m.entries = e
      BY <2>1 DEF p, l, e, LastLogIndex
  <2> QED
      BY <2>2, <2>4, <2>7, <2>8 DEF RequestKnown, AskKnown, Piece, L
<1>9. ASSUME NEW m, SnapshotSent(m) PROVE RequestKnown(m, led2, logOf2) /\ AskKnown(m)'
  <2>1. PICK i, j \in Server :
           /\ SendInstallSnapshot(i, j) /\ state[i] = "Leader"
           /\ m = [type |-> "InstallSnapshot", src |-> i, dst |-> j,
                   term |-> currentTerm[i], lii |-> lii[i],
                   data |-> SubSeq(log[i], 1, lii[i]), live |-> TRUE]
      BY <1>9 DEF SnapshotSent
  <2> DEFINE l == log[i]
             n == lii[i]
             d == SubSeq(l, 1, n)
             L == logOf2[currentTerm[i]]
  <2>2. /\ <<i, j>> \in snapDue /\ log' = log /\ currentTerm' = currentTerm /\ state' = state
      BY <2>1 DEF SendInstallSnapshot, logVars, termVars
  <2>3. i # j
      BY <2>2 DEF LogInv, MessagesKnown
  <2>4. l \in Seq(Nat) /\ Len(l) \in Nat /\ n \in Nat /\ n <= Len(l)
      BY LenProperties DEF Typed, LogsTyped
  <2>5. /\ currentTerm[i] \in DOMAIN logOf2 /\ led2[currentTerm[i]] = i
        /\ Len(l) <= Len(L) /\ SamePrefix(l, L, Len(l)) /\ L \in Seq(Nat)
      BY <2>1, <2>2, <1>7
  <2>6. SamePrefix(d, l, n)
      BY <2>4, FirstOf
  <2>7. /\ m.type = "InstallSnapshot" /\ m.src = i /\ m.dst = j /\ m.term = currentTerm[i]
        /\ m.lii = n /\ m.data = d
      BY <2>1
  <2> HIDE DEF l, L, n, d
  <2>8. n <= Len(L) /\ SamePrefix(d, L, n)
      BY <2>4, <2>5, <2>6, PrefixGoesOn
  <2> QED
      BY <2>3, <2>5, <2>7, <2>8 DEF RequestKnown, AskKnown, L
<1>10. \A m \in rpc' : RequestKnown(m, led2, logOf2) /\ AskKnown(m)'
    BY <1>3, <1>4, <1>5, <1>6, <1>8, <1>9, MessageStep DEF Sent
<1>11. \A p \in snapDue' : p[1] # p[2]
  <2>1. ASSUME NEW i \in Server, NEW j \in Server, SnapshotNeeded(i, j)
        PROVE  i # j /\ snapDue' = snapDue \cup {<<i, j>>}
      BY <2>1 DEF SnapshotNeeded, Connected
  <2>2. (\E i, j \in Server : SnapshotNeeded(i, j)) \/ snapDue' \subseteq snapDue
      BY SnapDueStep
  <2> QED
      BY <2>1, <2>2 DEF LogInv, MessagesKnown
<1> QED
    BY <1>10, <1>11 DEF MessagesKnown, RequestKnown

\* The history goes on through every step.
LEMMA LogInvGoesOn ==
    ASSUME Typed, Typed', ElectionInv, ElectionInv', [Next]_vars,
           NEW led, NEW logOf, LogInv(led, logOf)
    PROVE  \E led2, logOf2 : LogInv(led2, logOf2)' /\ HistoryStep(led, logOf, led2, logOf2)
<1>1. PICK led2, logOf2 : /\ HistoryStep(led, logOf, led2, logOf2)
                          /\ HistoryOK(led2, logOf2)
                          /\ LeadersKnown(led2, logOf2)'
    BY HistoryGoesOn
<1>2. DiskInSync
    BY DEF ElectionInv
<1>3. ElectionsHeld(led2, logOf2)'
    BY <1>1, ElectionsGoOn
<1>4. LogsKnown(logOf2)'
    BY <1>1, <1>2, LogsGoOn
<1>5. MessagesKnown(led2, logOf2)'
    BY <1>1, <1>2, MessagesGoOn
<1> QED
    BY <1>1, <1>3, <1>4, <1>5 DEF LogInv, HistoryOK

\* Logs that came from leaders match.
LEMMA FromLeadersMatch ==
    ASSUME Typed, NEW logOf, LogsKnown(logOf)
    PROVE  LogMatching
<1> SUFFICES ASSUME NEW i \in Server, NEW j \in Server,
                    NEW k \in DOMAIN log[i] \cap DOMAIN log[j], log[i][k] = log[j][k]
             PROVE  SubSeq(log[i], 1, k) = SubSeq(log[j], 1, k)
    BY DEF LogMatching
<1>1. log[i] \in Seq(Nat) /\ log[j] \in Seq(Nat)
    BY DEF Typed, LogsTyped
<1>2. k \in 1 .. Len(log[i]) /\ k \in 1 .. Len(log[j])
    BY <1>1, LenProperties
<1>3. SamePrefix(log[i], log[j], k)
    BY <1>1, <1>2, SameEntrySamePrefix DEF LogsKnown
<1> QED
    BY <1>1, <1>2, <1>3, SamePrefixSubSeq

----------------------------------------------------------------------------
(* Who held what goes on *)

\* What is held after a step: what was, and what is now in the logs.
HeldStep(held, held2) ==
    /\ held \subseteq held2
    /\ held2 \subseteq Server \X Nat \X Nat
    /\ \A q \in Server, t \in Nat, k \in Nat : <<q, t, k>> \in held2 =>
          <<q, t, k>> \in held \/ (t = currentTerm'[q] /\ Holds(log'[q], k, t))
    /\ HoldingHeld(held2)'

LEMMA HeldStepExists ==
    ASSUME Typed', NEW logOf, NEW held, HeldKept(logOf, held)
    PROVE  \E held2 : HeldStep(held, held2)
<1> DEFINE now == {h \in Server \X Nat \X Nat :
                      h[2] = currentTerm'[h[1]] /\ Holds(log'[h[1]], h[3], h[2])}
<1>1. PICK held2 : held2 = held \cup now
    OBVIOUS
<1>2. held2 \subseteq Server \X Nat \X Nat
    BY <1>1 DEF HeldKept
<1>3. \A q \in Server, t \in Nat, k \in Nat :
          <<q, t, k>> \in now <=> t = currentTerm'[q] /\ Holds(log'[q], k, t)
  <2> SUFFICES ASSUME NEW q \in Server, NEW t \in Nat, NEW k \in Nat
               PROVE  <<q, t, k>> \in now <=> t = currentTerm'[q] /\ Holds(log'[q], k, t)
      OBVIOUS
  <2> DEFINE h == <<q, t, k>>
  <2>1. h[1] = q /\ h[2] = t /\ h[3] = k /\ h \in Server \X Nat \X Nat
      OBVIOUS
  <2> HIDE DEF h
  <2>2. h \in now <=> t = currentTerm'[q] /\ Holds(log'[q], k, t)
      BY <2>1
  <2> QED
      BY <2>2 DEF h
<1> HIDE DEF now
<1>4. HoldingHeld(held2)'
  <2> SUFFICES ASSUME NEW q \in Server, NEW k \in 1 .. Len(log'[q]), log'[q][k] = currentTerm'[q]
               PROVE  <<q, currentTerm'[q], k>> \in held2
      BY DEF HoldingHeld
  <2>1. currentTerm'[q] \in Nat /\ Len(log'[q]) \in Nat
      BY LenProperties DEF Typed, PeersTyped, LogsTyped
  <2>2. k \in Nat /\ Holds(log'[q], k, currentTerm'[q])
      BY <2>1 DEF Holds
  <2> QED
      BY <2>1, <2>2, <1>1, <1>3
<1> QED
    BY <1>1, <1>2, <1>3, <1>4 DEF HeldStep

\* A peer keeps an entry, or follows a leader that does not have it.
LEMMA HeldGoesOn ==
    ASSUME Typed, Typed', DiskInSync, [Next]_vars, NEW led, NEW logOf, LogInv(led, logOf),
           NEW led2, NEW logOf2, LogInv(led2, logOf2)', HistoryStep(led, logOf, led2, logOf2),
           NEW held, HeldKept(logOf, held), NEW held2, HeldStep(held, held2)
    PROVE  HeldKept(logOf2, held2)'
<1>1. /\ HistoryOK(led, logOf) /\ HistoryOK(led2, logOf2) /\ Extends(led, logOf, led2, logOf2)
      /\ LogsKnown(logOf2)'
    BY DEF LogInv, HistoryOK, HistoryStep
<1>2. \A q \in Server : currentTerm[q] \in Nat /\ currentTerm'[q] \in Nat /\ currentTerm[q] <= currentTerm'[q]
    BY StepKeepsVotes DEF Typed, PeersTyped
<1> SUFFICES ASSUME NEW q \in Server, NEW t \in Nat, NEW k \in Nat, <<q, t, k>> \in held2
             PROVE  /\ t \in DOMAIN logOf2
                    /\ Holds(logOf2[t], k, t)
                    /\ t <= currentTerm'[q]
                    /\ Holds(log'[q], k, t) \/ Passed(t, k, currentTerm'[q], logOf2)
    BY DEF HeldKept, HeldStep, Passed
<1>3. CASE t = currentTerm'[q] /\ Holds(log'[q], k, t)
  <2>1. k \in 1 .. Len(log'[q]) /\ log'[q][k] = t
      BY <1>3 DEF Holds
  <2>2. t \in DOMAIN logOf2 /\ k <= Len(logOf2[t]) /\ SamePrefix(log'[q], logOf2[t], k)
      BY <2>1, <1>1 DEF LogsKnown, FromLeaders
  <2>3. Len(logOf2[t]) \in Nat /\ Len(log'[q]) \in Nat
      BY <2>2, <1>1, LenProperties DEF HistoryOK, Typed, LogsTyped
  <2>4. k \in 1 .. k /\ logOf2[t][k] = t
      BY <2>1, <2>2, <2>3 DEF SamePrefix
  <2> QED
      BY <2>1, <2>2, <2>3, <2>4, <1>2, <1>3 DEF Holds
<1>4. CASE <<q, t, k>> \in held
  <2>1. /\ t \in DOMAIN logOf /\ Holds(logOf[t], k, t) /\ t <= currentTerm[q]
        /\ Holds(log[q], k, t) \/ Passed(t, k, currentTerm[q], logOf)
      BY <1>4 DEF HeldKept
  <2>2. t \in DOMAIN logOf2 /\ Holds(logOf2[t], k, t) /\ t <= currentTerm'[q]
      BY <2>1, <1>1, <1>2, ExtendsHolds DEF Extends
  <2>3. CASE Passed(t, k, currentTerm[q], logOf)
      BY <2>2, <2>3, <1>1, <1>2, ExtendsPassed
  <2>4. CASE Holds(log[q], k, t) /\ log'[q] = log[q]
      BY <2>2, <2>4
  <2>5. ASSUME Holds(log[q], k, t), NEW n \in Nat, currentTerm'[q] \in DOMAIN logOf2,
               Adopts(log[q], log'[q], logOf2[currentTerm'[q]], n)
        PROVE  Holds(log'[q], k, t) \/ Passed(t, k, currentTerm'[q], logOf2)
    <3> DEFINE L == logOf2[currentTerm'[q]]
    <3>1. CASE ~Holds(L, k, t)
      <4>1. t # currentTerm'[q] /\ t < currentTerm'[q]
          BY <3>1, <2>2, <1>2
      <4> QED
          BY <3>1, <4>1, <2>5, <1>2 DEF Passed
    <3>2. CASE Holds(L, k, t)
      <4>1. log[q] \in Seq(Nat) /\ log'[q] \in Seq(Nat) /\ L \in Seq(Nat)
          BY <2>5, <1>1 DEF Typed, LogsTyped, HistoryOK
      <4>2. FromLeaders(log[q], logOf2) /\ FromLeaders(L, logOf2)
        <5>1. \A u \in DOMAIN logOf2 : logOf2[u] \in Seq(Nat)
            BY <1>1 DEF HistoryOK
        <5>2. FromLeaders(log[q], logOf2)
            BY <4>1, <5>1, <1>1, ExtendsFromLeaders DEF LogInv, LogsKnown
        <5> QED
            BY <5>2, <2>5, <1>1 DEF HistoryOK
      <4> HIDE DEF L
      <4>3. k \in 1 .. Len(log[q]) /\ k \in 1 .. Len(L) /\ log[q][k] = L[k] /\ log[q][k] = t
          BY <2>5, <3>2 DEF Holds
      <4>4. SamePrefix(log[q], L, k)
          BY <4>1, <4>2, <4>3, SameEntrySamePrefix
      <4>5. k <= Len(log[q]) /\ k <= Len(L) /\ k > 0
          BY <4>1, <4>3, LenProperties
      <4>6. k <= Len(log'[q]) /\ SamePrefix(log'[q], log[q], k)
          BY <4>1, <4>4, <4>5, <2>5, AdoptsKeeps DEF L
      <4>7. log'[q][k] = t /\ k \in 1 .. Len(log'[q])
        <5>1. Len(log'[q]) \in Nat /\ k \in 1 .. k
            BY <4>1, <4>5, LenProperties
        <5>2. log'[q][k] = log[q][k]
            BY <5>1, <4>6 DEF SamePrefix
        <5> QED
            BY <5>1, <5>2, <4>3, <4>5, <4>6
      <4> QED
          BY <4>7 DEF Holds
    <3> QED
        BY <3>1, <3>2
  <2>6. log'[q] = log[q] \/ \E n \in Nat : /\ currentTerm'[q] \in DOMAIN logOf2
                                           /\ Adopts(log[q], log'[q], logOf2[currentTerm'[q]], n)
      BY DEF HistoryStep, GoesOn
  <2> QED
      BY <2>1, <2>2, <2>3, <2>4, <2>5, <2>6
<1> QED
    BY <1>3, <1>4 DEF HeldStep

\* Nobody gets to hold what is blocked.
LEMMA BlockedGoesOn ==
    ASSUME Typed, Typed', DiskInSync, [Next]_vars, NEW held, NEW held2, HeldStep(held, held2),
           NEW t \in Nat, NEW k \in Nat, Blocked(t, k, held)
    PROVE  Blocked(t, k, held2)'
<1>1. \A q \in Server : currentTerm[q] \in Nat /\ currentTerm'[q] \in Nat /\ currentTerm[q] <= currentTerm'[q]
    BY StepKeepsVotes DEF Typed, PeersTyped
<1>2. PICK Q \in SUBSET Server : Majority(Q) /\ \A q \in Q : t < currentTerm[q] /\ <<q, t, k>> \notin held
    BY DEF Blocked
<1>3. \A q \in Q : t < currentTerm'[q] /\ <<q, t, k>> \notin held2
    BY <1>1, <1>2 DEF HeldStep
<1> QED
    BY <1>2, <1>3 DEF Blocked, Majority

\* The votes a new leader has counted were sound.
LEMMA WinnerVotes ==
    ASSUME Typed, NEW logOf, NEW held, VotesSound(logOf, held), NEW i \in Server, NEW t,
           Wins(i, t), t \notin DOMAIN logOf
    PROVE  \A q \in votes'[i] : VoteSound(q, i, logOf, held)
<1>1. state[i] = "Candidate" /\ currentTerm[i] = t
    BY DEF Wins
<1>2. PICK m \in rpc : HandleVoteReply(m) /\ m.dst = i
    BY DEF Wins
<1>3. votes'[i] = (IF m.granted THEN votes[i] \cup {m.src} ELSE votes[i])
      /\ m.type = "VoteReply" /\ m.asked = currentTerm[i]
    BY <1>2 DEF HandleVoteReply, CountsFor, Typed, PeersTyped
<1> QED
    BY <1>1, <1>2, <1>3 DEF VotesSound, Granting

LEMMA SafeGoesOn ==
    ASSUME Typed, Typed', ElectionInv, ElectionInv', [Next]_vars, NEW led, NEW logOf, LogInv(led, logOf),
           NEW led2, NEW logOf2, LogInv(led2, logOf2)', HistoryStep(led, logOf, led2, logOf2),
           NEW held, HeldInv(logOf, held), NEW held2, HeldStep(held, held2)
    PROVE  LeadersSafe(logOf2, held2)'
<1>1. /\ HistoryOK(led, logOf) /\ HistoryOK(led2, logOf2) /\ Extends(led, logOf, led2, logOf2)
      /\ DiskInSync
    BY DEF LogInv, HistoryOK, HistoryStep, ElectionInv
<1>2. \A q \in Server : currentTerm[q] \in Nat /\ currentTerm'[q] \in Nat /\ currentTerm[q] <= currentTerm'[q]
    BY <1>1, StepKeepsVotes DEF Typed, PeersTyped
<1> SUFFICES ASSUME NEW u \in DOMAIN logOf2, NEW t \in Nat, NEW k \in Nat, t < u
             PROVE  Holds(logOf2[u], k, t) \/ Blocked(t, k, held2)'
    BY DEF LeadersSafe
<1>3. u \in Nat
    BY <1>1 DEF HistoryOK
<1>4. CASE u \in DOMAIN logOf
  <2>1. Holds(logOf[u], k, t) \/ Blocked(t, k, held)
      BY <1>4 DEF HeldInv, LeadersSafe
  <2> QED
      BY <2>1, <1>1, <1>3, <1>4, ExtendsHolds, BlockedGoesOn
<1>5. CASE u \notin DOMAIN logOf
  <2>1. PICK i \in Server : Wins(i, u) /\ logOf2[u] = log[i]
      BY <1>5 DEF HistoryStep
  <2>2. \A q \in votes'[i] : VoteSound(q, i, logOf, held)
      BY <2>1, <1>5, WinnerVotes DEF HeldInv
  <2>3. currentTerm[i] = u /\ currentTerm'[i] = u /\ state'[i] = "Leader" /\ Majority(votes'[i])
      BY <2>1 DEF Wins
  <2>4. CASE \E q \in votes'[i] : <<q, t, k>> \in held /\ ~Holds(log[i], k, t)
    <3>1. Passed(t, k, u - 1, logOf)
        BY <2>2, <2>3, <2>4 DEF VoteSound
    <3>2. Blocked(t, k, held)
        BY <3>1 DEF Passed, HeldInv, LeadersSafe
    <3> QED
        BY <3>2, <1>1, BlockedGoesOn
  <2>5. CASE \A q \in votes'[i] : <<q, t, k>> \notin held
    <3>1. votes'[i] \in SUBSET Server
        BY DEF Typed, PeersTyped
    <3>2. \A q \in votes'[i] : q \in Supporters(i)'
        BY <2>3 DEF Supporters
    <3>3. \A q \in votes'[i] : u <= currentTerm'[q]
        BY <3>2, <2>3 DEF ElectionInv, VotesBind
    <3>4. \A q \in votes'[i] : t < currentTerm'[q] /\ <<q, t, k>> \notin held2
        BY <3>1, <3>3, <2>5, <1>2, <1>3 DEF HeldStep
    <3> QED
        BY <3>1, <3>4, <2>3 DEF Blocked, Majority
  <2> QED
      BY <2>1, <2>4, <2>5
<1> QED
    BY <1>4, <1>5

\* The terms in a log never fall.
LEMMA LogTermsRise ==
    ASSUME NEW led, NEW logOf, HistoryOK(led, logOf), NEW a \in Seq(Nat), FromLeaders(a, logOf),
           NEW n \in 1 .. Len(a), NEW k \in 1 .. n
    PROVE  a[k] \in Nat /\ a[n] \in Nat /\ a[k] <= a[n] /\ k \in 1 .. Len(a)
<1> DEFINE s == a[n]
<1>1. Len(a) \in Nat /\ k \in 1 .. Len(a)
    BY LenProperties
<1>2. s \in Nat /\ a[k] \in Nat
    BY <1>1, ElementOfSeq
<1>3. s \in DOMAIN logOf /\ n <= Len(logOf[s]) /\ SamePrefix(a, logOf[s], n)
    BY DEF FromLeaders
<1>4. logOf[s] \in Seq(Nat) /\ Len(logOf[s]) \in Nat
    BY <1>3, LenProperties DEF HistoryOK
<1>5. k \in 1 .. Len(logOf[s])
    BY <1>1, <1>3, <1>4
<1>6. logOf[s][k] <= s
    BY <1>3, <1>5 DEF HistoryOK
<1>7. a[k] = logOf[s][k]
    BY <1>3 DEF SamePrefix
<1> QED
    BY <1>1, <1>2, <1>6, <1>7

\* What the voter holds, an up-to-date candidate holds too, or the leader of
\* its last entry did not.
LEMMA UpToDateHolds ==
    ASSUME NEW led, NEW logOf, HistoryOK(led, logOf),
           NEW a \in Seq(Nat), FromLeaders(a, logOf), NEW b \in Seq(Nat), FromLeaders(b, logOf),
           \/ TermAt(a, Len(a)) > TermAt(b, Len(b))
           \/ TermAt(a, Len(a)) = TermAt(b, Len(b)) /\ Len(a) >= Len(b),
           NEW t \in Nat, NEW k \in Nat, Holds(b, k, t)
    PROVE  \/ Holds(a, k, t)
           \/ Len(a) > 0 /\ t < a[Len(a)] /\ ~Holds(logOf[a[Len(a)]], k, t)
<1>1. Len(a) \in Nat /\ Len(b) \in Nat /\ k \in 1 .. Len(b) /\ b[k] = t /\ Len(b) \in 1 .. Len(b)
    BY LenProperties DEF Holds
<1>2. /\ b[Len(b)] \in Nat /\ t <= b[Len(b)]
      /\ TermAt(b, Len(b)) = b[Len(b)]
    BY <1>1, LogTermsRise DEF TermAt
<1>3. Len(a) > 0 /\ Len(a) \in 1 .. Len(a) /\ TermAt(a, Len(a)) = a[Len(a)]
    BY <1>1, <1>2 DEF TermAt
<1> DEFINE s == a[Len(a)]
<1>4. /\ s \in DOMAIN logOf /\ Len(a) <= Len(logOf[s]) /\ SamePrefix(a, logOf[s], Len(a)) /\ s \in Nat
      /\ logOf[s] \in Seq(Nat) /\ FromLeaders(logOf[s], logOf)
    BY <1>3, ElementOfSeq DEF FromLeaders, HistoryOK
<1>5. Len(logOf[s]) \in Nat
    BY <1>4, LenProperties
<1>6. CASE s = b[Len(b)] /\ Len(a) >= Len(b)
  <2>1. Len(b) <= Len(logOf[s]) /\ SamePrefix(b, logOf[s], Len(b))
      BY <1>1, <1>6 DEF FromLeaders
  <2>2. k \in 1 .. Len(a)
      BY <1>1, <1>6
  <2>3. a[k] = logOf[s][k] /\ b[k] = logOf[s][k]
      BY <1>1, <1>4, <2>1, <2>2 DEF SamePrefix
  <2> QED
      BY <2>2, <2>3, <1>1 DEF Holds
<1>7. CASE s > b[Len(b)]
  <2>1. t < s
      BY <1>2, <1>4, <1>7
  <2>2. ASSUME Holds(logOf[s], k, t) PROVE Holds(a, k, t)
    <3>1. k \in 1 .. Len(logOf[s]) /\ logOf[s][k] = t
        BY <2>2 DEF Holds
    <3>2. logOf[s][Len(a)] = s
        BY <1>3, <1>4 DEF SamePrefix
    <3>3. k <= Len(a)
      <4> SUFFICES ASSUME k > Len(a) PROVE FALSE
          BY <1>1
      <4>1. Len(a) \in 1 .. k
          BY <1>1, <1>3
      <4>2. logOf[s][Len(a)] <= logOf[s][k]
          BY <1>4, <3>1, <4>1, LogTermsRise
      <4> QED
          BY <4>2, <3>1, <3>2, <2>1, <1>4
    <3>4. k \in 1 .. Len(a)
        BY <1>1, <3>1, <3>3
    <3>5. a[k] = t
        BY <3>1, <3>4, <1>4 DEF SamePrefix
    <3> QED
        BY <3>4, <3>5 DEF Holds
  <2> QED
      BY <1>3, <2>1, <2>2
<1> QED
    BY <1>2, <1>3, <1>6, <1>7

\* A vote that is granted is sound: the candidate's log is up to date.
LEMMA GrantSound ==
    ASSUME Typed, NEW led, NEW logOf, LogInv(led, logOf), NEW held, HeldKept(logOf, held),
           NEW n \in rpc, HandleRequestVote(n), LogUpToDate(n.dst, n),
           state[n.src] = "Candidate", n.term = currentTerm[n.src], n.term \notin DOMAIN logOf
    PROVE  VoteSound(n.dst, n.src, logOf, held)
<1> DEFINE i == n.src  q == n.dst
<1>1. /\ i \in Server /\ q \in Server /\ n.term \in Nat /\ n.type = "RequestVote"
      /\ currentTerm[q] \in Nat /\ currentTerm[q] <= n.term
    BY MessageTypes DEF Typed, PeersTyped, HandleRequestVote
<1>2. n.lastIndex = LastLogIndex(i) /\ n.lastTerm = LastLogTerm(i)
    BY <1>1 DEF LogInv, MessagesKnown, AskKnown
<1>3. /\ log[i] \in Seq(Nat) /\ log[q] \in Seq(Nat)
      /\ FromLeaders(log[i], logOf) /\ FromLeaders(log[q], logOf)
      /\ \A k \in 1 .. Len(log[i]) : log[i][k] <= currentTerm[i]
      /\ HistoryOK(led, logOf)
    BY <1>1 DEF LogInv, LogsKnown, Typed, LogsTyped
<1>4. \/ TermAt(log[i], Len(log[i])) > TermAt(log[q], Len(log[q]))
      \/ TermAt(log[i], Len(log[i])) = TermAt(log[q], Len(log[q])) /\ Len(log[i]) >= Len(log[q])
    BY <1>2 DEF LogUpToDate, LastLogIndex, LastLogTerm
<1> SUFFICES ASSUME NEW t \in Nat, NEW k \in Nat, <<q, t, k>> \in held, t < n.term
             PROVE  Holds(log[i], k, t) \/ Passed(t, k, n.term - 1, logOf)
    BY DEF VoteSound
\* A leader that passed the entry by is of an earlier term than the candidate's.
<1>5. ASSUME NEW u \in DOMAIN logOf, t < u, u <= n.term, ~Holds(logOf[u], k, t)
      PROVE  Passed(t, k, n.term - 1, logOf)
  <2>1. u \in Nat /\ u # n.term
      BY <1>5, <1>3 DEF HistoryOK
  <2>2. u <= n.term - 1
      BY <2>1, <1>1, <1>5
  <2> QED
      BY <2>2, <1>5 DEF Passed
<1>6. Holds(log[q], k, t) \/ Passed(t, k, currentTerm[q], logOf)
    BY <1>1 DEF HeldKept
<1>7. CASE Passed(t, k, currentTerm[q], logOf)
  <2>1. PICK u \in DOMAIN logOf : t < u /\ u <= currentTerm[q] /\ ~Holds(logOf[u], k, t)
      BY <1>7 DEF Passed
  <2>2. u \in Nat
      BY <1>3 DEF HistoryOK
  <2>3. u <= n.term
      BY <2>1, <2>2, <1>1
  <2> QED
      BY <2>1, <2>3, <1>5
<1>8. CASE Holds(log[q], k, t)
  <2> DEFINE a == log[i]  s == a[Len(a)]
  <2>1. Holds(a, k, t) \/ (Len(a) > 0 /\ t < s /\ ~Holds(logOf[s], k, t))
      BY <1>3, <1>4, <1>8, UpToDateHolds
  <2>2. ASSUME Len(a) > 0 PROVE s \in DOMAIN logOf /\ s <= n.term
    <3>1. Len(a) \in 1 .. Len(a)
        BY <2>2, <1>3, LenProperties
    <3> QED
        BY <3>1, <1>3 DEF FromLeaders
  <2> QED
      BY <2>1, <2>2, <1>5
<1> QED
    BY <1>6, <1>7, <1>8

\* What was sound stays so: nobody gets to hold more of the terms before.
LEMMA SoundGoesOn ==
    ASSUME Typed, Typed', NEW led, NEW logOf, HistoryOK(led, logOf),
           NEW led2, NEW logOf2, HistoryOK(led2, logOf2), Extends(led, logOf, led2, logOf2),
           NEW held, NEW held2, HeldStep(held, held2),
           NEW i \in Server, NEW q \in Server, currentTerm'[i] = currentTerm[i],
           log'[i] = log[i], currentTerm'[i] <= currentTerm'[q], VoteSound(q, i, logOf, held)
    PROVE  VoteSound(q, i, logOf2, held2)'
<1>1. currentTerm[i] \in Nat /\ currentTerm'[q] \in Nat
    BY DEF Typed, PeersTyped
<1> SUFFICES ASSUME NEW t \in Nat, NEW k \in Nat, <<q, t, k>> \in held2, t < currentTerm[i]
             PROVE  Holds(log[i], k, t) \/ Passed(t, k, currentTerm[i] - 1, logOf2)
    BY DEF VoteSound, Passed
<1>2. <<q, t, k>> \in held
    BY <1>1 DEF HeldStep
<1>3. Holds(log[i], k, t) \/ Passed(t, k, currentTerm[i] - 1, logOf)
    BY <1>2 DEF VoteSound
<1> QED
    BY <1>1, <1>3, ExtendsPassed

LEMMA SoundVotesGoOn ==
    ASSUME Typed, Typed', ElectionInv, ElectionInv', [Next]_vars, NEW led, NEW logOf, LogInv(led, logOf),
           NEW led2, NEW logOf2, LogInv(led2, logOf2)', HistoryStep(led, logOf, led2, logOf2),
           NEW held, HeldInv(logOf, held), NEW held2, HeldStep(held, held2)
    PROVE  VotesSound(logOf2, held2)'
<1>1. /\ HistoryOK(led, logOf) /\ HistoryOK(led2, logOf2) /\ Extends(led, logOf, led2, logOf2)
      /\ DiskInSync
    BY DEF LogInv, HistoryOK, HistoryStep, ElectionInv
<1>2. \A q \in Server : currentTerm[q] \in Nat /\ currentTerm'[q] \in Nat
    BY DEF Typed, PeersTyped
<1> SUFFICES ASSUME NEW i \in Server, state'[i] = "Candidate", currentTerm'[i] \notin DOMAIN logOf2
             PROVE  /\ \A q \in votes'[i] : VoteSound(q, i, logOf2, held2)'
                    /\ \A m \in rpc' : Granting(m) /\ m.dst = i /\ m.asked = currentTerm'[i] =>
                          VoteSound(m.src, i, logOf2, held2)'
    BY DEF VotesSound, Granting, VoteSound
<1>3. currentTerm'[i] \notin DOMAIN logOf
    BY <1>1 DEF Extends
<1>4. CASE StartElection(i)
  <2>1. currentTerm'[i] = currentTerm[i] + 1 /\ votes'[i] = {i} /\ log'[i] = log[i]
      BY <1>4 DEF StartElection, logVars, Typed, PeersTyped
  <2>2. VoteSound(i, i, logOf2, held2)'
    <3> SUFFICES ASSUME NEW t \in Nat, NEW k \in Nat, <<i, t, k>> \in held2, t < currentTerm'[i]
                 PROVE  Holds(log[i], k, t) \/ Passed(t, k, currentTerm'[i] - 1, logOf2)
        BY <2>1 DEF VoteSound, Passed
    <3>1. <<i, t, k>> \in held
        BY <1>2 DEF HeldStep
    <3>2. Holds(log[i], k, t) \/ Passed(t, k, currentTerm[i], logOf)
        BY <3>1 DEF HeldInv, HeldKept
    <3>3. currentTerm'[i] - 1 = currentTerm[i]
        BY <2>1, <1>2
    <3> QED
        BY <3>2, <3>3, <1>1, <1>2, ExtendsPassed
  <2>3. ASSUME NEW m \in rpc', Granting(m), m.dst = i, m.asked = currentTerm'[i] PROVE FALSE
    <3>1. m \in rpc /\ m.type = "VoteReply"
        BY <1>4, <2>3, ExchangeNoVote DEF StartElection, Granting
    <3>2. m.asked <= currentTerm[i]
        BY <3>1, <2>3 DEF LogInv, MessagesKnown, AskKnown
    <3> QED
        BY <3>2, <2>1, <2>3, <1>2
  <2> QED
      BY <2>1, <2>2, <2>3
<1>5. CASE ~StartElection(i)
  <2>1. /\ state[i] = "Candidate" /\ currentTerm'[i] = currentTerm[i] /\ log'[i] = log[i]
        /\ \A q \in votes'[i] : q \in votes[i] \/
              \E m \in rpc : Granting(m) /\ m.dst = i /\ m.asked = currentTerm[i] /\ q = m.src
      BY <1>1, <1>5, CandidateStep
  <2>2. \A q \in votes'[i] : VoteSound(q, i, logOf, held)
      BY <2>1, <1>3 DEF HeldInv, VotesSound
  <2>3. ASSUME NEW q \in votes'[i] PROVE VoteSound(q, i, logOf2, held2)'
    <3>1. q \in Supporters(i)' /\ q \in Server
        BY DEF Supporters, Typed, PeersTyped
    <3>2. currentTerm'[i] <= currentTerm'[q]
        BY <3>1 DEF ElectionInv, VotesBind
    <3> QED
        BY <3>1, <3>2, <2>1, <2>2, <1>1, SoundGoesOn
  <2>4. ASSUME NEW m \in rpc', Granting(m), m.dst = i, m.asked = currentTerm'[i]
        PROVE  VoteSound(m.src, i, logOf2, held2)'
    <3>1. m.src \in Server
        BY DEF Typed, WellFormed, Requests, Replies
    <3>2. currentTerm'[i] <= currentTerm'[m.src]
        BY <2>4 DEF ElectionInv, VotesBind, Granting
    <3>3. VoteSound(m.src, i, logOf, held)
      <4>1. m.type = "VoteReply" /\ m.granted
          BY <2>4 DEF Granting
      <4>2. Old(m) \/ VoteAnswered(m)
        <5>1. ~VoteAsked(m) /\ ~EntriesSent(m) /\ ~EntriesAnswered(m) /\ ~SnapshotSent(m) /\ ~SnapshotAnswered(m)
            BY <4>1 DEF VoteAsked, EntriesSent, EntriesAnswered, SnapshotSent, SnapshotAnswered
        <5> QED
            BY <5>1, MessageStep DEF Sent
      <4>3. CASE Old(m)
        <5>1. m \in rpc
            BY <4>1, <4>3, OldFields
        <5> QED
            BY <5>1, <2>1, <2>4, <1>3 DEF HeldInv, VotesSound
      <4>4. CASE VoteAnswered(m)
        <5>1. PICK n \in rpc : /\ m.src = n.dst /\ m.dst = n.src /\ m.asked = n.term
                               /\ HandleRequestVote(n) /\ LogUpToDate(n.dst, n)
            BY <4>1, <4>4 DEF VoteAnswered
        <5>2. n.src = i /\ n.term = currentTerm[n.src] /\ n.term \notin DOMAIN logOf
            BY <5>1, <2>1, <2>4, <1>3
        <5>3. VoteSound(n.dst, n.src, logOf, held)
            BY <5>1, <5>2, <2>1, GrantSound DEF HeldInv
        <5> QED
            BY <5>1, <5>2, <5>3
      <4> QED
          BY <4>2, <4>3, <4>4
    <3> QED
        BY <3>1, <3>2, <3>3, <2>1, <1>1, SoundGoesOn
  <2> QED
      BY <2>3, <2>4
<1> QED
    BY <1>4, <1>5

LEMMA HeldInvGoesOn ==
    ASSUME Typed, Typed', ElectionInv, ElectionInv', [Next]_vars, NEW led, NEW logOf, LogInv(led, logOf),
           NEW led2, NEW logOf2, LogInv(led2, logOf2)', HistoryStep(led, logOf, led2, logOf2),
           NEW held, HeldInv(logOf, held)
    PROVE  \E held2 : HeldStep(held, held2) /\ HeldInv(logOf2, held2)'
<1>1. DiskInSync /\ HeldKept(logOf, held)
    BY DEF ElectionInv, HeldInv
<1>2. PICK held2 : HeldStep(held, held2)
    BY <1>1, HeldStepExists
<1>3. HeldKept(logOf2, held2)'
    BY <1>1, <1>2, HeldGoesOn
<1>4. VotesSound(logOf2, held2)' /\ LeadersSafe(logOf2, held2)'
    BY <1>2, SoundVotesGoOn, SafeGoesOn
<1> QED
    BY <1>2, <1>3, <1>4 DEF HeldInv, HeldStep

----------------------------------------------------------------------------
(* What is committed goes on *)

LEMMA MoreIsMajority ==
    ASSUME NEW S \in SUBSET Server, NEW T \in SUBSET Server, S \subseteq T, Majority(S)
    PROVE  Majority(T)
<1>1. IsFiniteSet(T) /\ IsFiniteSet(S)
    BY ServerAssumption, FS_Subset
<1>2. Cardinality(S) <= Cardinality(T) /\ Cardinality(S) \in Nat /\ Cardinality(T) \in Nat
      /\ Cardinality(Server) \in Nat
    BY <1>1, ServerAssumption, FS_Subset, FS_CardinalityType
<1> QED
    BY <1>2 DEF Majority

LEMMA ChosenNotBlocked ==
    ASSUME NEW logOf, NEW held, NEW t \in Nat, NEW n \in Nat,
           Chosen(t, n, logOf, held), Blocked(t, n, held)
    PROVE  FALSE
<1> DEFINE S == {q \in Server : <<q, t, n>> \in held}
<1>1. PICK Q \in SUBSET Server : Majority(Q) /\ \A q \in Q : <<q, t, n>> \notin held
    BY DEF Blocked
<1>2. S \in SUBSET Server /\ Majority(S)
    BY DEF Chosen
<1>3. S \cap Q # {}
    BY <1>1, <1>2, MajoritiesMeet
<1> QED
    BY <1>1, <1>3

LEMMA ChosenGoesOn ==
    ASSUME NEW led, NEW logOf, NEW led2, NEW logOf2,
           HistoryOK(led, logOf), HistoryOK(led2, logOf2), Extends(led, logOf, led2, logOf2),
           NEW held, NEW held2, held \subseteq held2,
           NEW t \in Nat, NEW n \in Nat, Chosen(t, n, logOf, held)
    PROVE  Chosen(t, n, logOf2, held2)
<1>1. t \in DOMAIN logOf /\ Holds(logOf[t], n, t)
    BY DEF Chosen
<1>2. t \in DOMAIN logOf2 /\ Holds(logOf2[t], n, t)
    BY <1>1, ExtendsHolds DEF Extends
<1>3. Majority({q \in Server : <<q, t, n>> \in held})
    BY DEF Chosen
<1>4. Majority({q \in Server : <<q, t, n>> \in held2})
    BY <1>3, MoreIsMajority
<1> QED
    BY <1>2, <1>4 DEF Chosen

\* What is committed stays so, in a log that keeps it, and in later terms.
LEMMA SettledGoesOn ==
    ASSUME NEW led, NEW logOf, NEW led2, NEW logOf2,
           HistoryOK(led, logOf), HistoryOK(led2, logOf2), Extends(led, logOf, led2, logOf2),
           NEW held, NEW held2, held \subseteq held2,
           NEW l, NEW l2 \in Seq(Nat), NEW c \in Nat, NEW b \in Nat, NEW b2 \in Nat,
           b <= b2, c <= Len(l2), SamePrefix(l2, l, c), Settled(l, c, b, logOf, held)
    PROVE  Settled(l2, c, b2, logOf2, held2)
<1> SUFFICES ASSUME c > 0
             PROVE  \E t \in DOMAIN logOf2, n \in Nat :
                       /\ t <= b2 /\ c <= n
                       /\ Chosen(t, n, logOf2, held2)
                       /\ SamePrefix(l2, logOf2[t], c)
    BY DEF Settled
<1>1. PICK t \in DOMAIN logOf, n \in Nat : /\ t <= b /\ c <= n
                                           /\ Chosen(t, n, logOf, held)
                                           /\ SamePrefix(l, logOf[t], c)
    BY DEF Settled
<1>2. t \in Nat /\ t \in DOMAIN logOf2 /\ Chosen(t, n, logOf2, held2)
  <2>1. t \in Nat
      BY DEF HistoryOK
  <2>2. Chosen(t, n, logOf2, held2)
      BY <2>1, <1>1, ChosenGoesOn
  <2> QED
      BY <2>1, <2>2 DEF Chosen
<1>3. logOf[t] \in Seq(Nat) /\ Len(logOf[t]) \in Nat /\ n <= Len(logOf[t])
    BY <1>1, LenProperties DEF HistoryOK, Chosen, Holds
<1>4. SamePrefix(l2, logOf2[t], c)
  <2> SUFFICES ASSUME NEW k \in 1 .. c PROVE l2[k] = logOf2[t][k]
      BY DEF SamePrefix
  <2>1. l2[k] = l[k] /\ l[k] = logOf[t][k]
      BY <1>1 DEF SamePrefix
  <2>2. k \in 1 .. Len(logOf[t])
      BY <1>1, <1>3
  <2>3. logOf[t][k] = logOf2[t][k]
      BY <2>2 DEF Extends, SamePrefix
  <2> QED
      BY <2>1, <2>3
<1>5. t <= b2
    BY <1>1, <1>2
<1> QED
    BY <1>1, <1>2, <1>4, <1>5

\* Of a committed prefix each prefix is committed.
LEMMA SettledLess ==
    ASSUME NEW logOf, NEW held, NEW l \in Seq(Nat), NEW c \in Nat, NEW d \in Nat, d <= c, NEW b,
           Settled(l, c, b, logOf, held)
    PROVE  Settled(l, d, b, logOf, held)
<1>1. Len(l) \in Nat
    BY LenProperties
<1>2. CASE d = 0
    BY <1>1, <1>2 DEF Settled
<1>3. CASE d > 0
  <2>1. PICK t \in DOMAIN logOf, n \in Nat : /\ t <= b /\ c <= n
                                             /\ Chosen(t, n, logOf, held)
                                             /\ SamePrefix(l, logOf[t], c)
      BY <1>3 DEF Settled
  <2>2. SamePrefix(l, logOf[t], d)
      BY <2>1 DEF SamePrefix
  <2>3. d <= n /\ d <= Len(l)
      BY <2>1, <1>1 DEF Settled
  <2> QED
      BY <2>1, <2>2, <2>3 DEF Settled
<1> QED
    BY <1>2, <1>3

\* A leader has each entry of earlier terms that is committed.
LeadersHaveChosen(logOf, held) ==
    \A u \in DOMAIN logOf, t \in Nat, n \in Nat :
        t < u /\ Chosen(t, n, logOf, held) => Holds(logOf[u], n, t)

LEMMA SafeNextHaveChosen ==
    ASSUME NEW logOf, NEW held, LeadersSafe(logOf, held)'
    PROVE  LeadersHaveChosen(logOf, held)
<1> SUFFICES ASSUME NEW u \in DOMAIN logOf, NEW t \in Nat, NEW n \in Nat,
                    t < u, Chosen(t, n, logOf, held), ~Holds(logOf[u], n, t)
             PROVE  FALSE
    BY DEF LeadersHaveChosen
<1> DEFINE S == {q \in Server : <<q, t, n>> \in held}
<1>1. PICK Q \in SUBSET Server : Majority(Q) /\ \A q \in Q : <<q, t, n>> \notin held
    BY DEF LeadersSafe, Blocked
<1>2. S \in SUBSET Server /\ Majority(S)
    BY DEF Chosen
<1>3. S \cap Q # {}
    BY <1>1, <1>2, MajoritiesMeet
<1> QED
    BY <1>1, <1>3

\* Each leader of the term, or of a later one, has what is committed.
LEMMA SettledInLeader ==
    ASSUME NEW led, NEW logOf, HistoryOK(led, logOf), NEW held, LeadersHaveChosen(logOf, held),
           NEW l \in Seq(Nat), NEW c \in Nat, NEW b \in Nat, Settled(l, c, b, logOf, held),
           NEW T \in DOMAIN logOf, b <= T
    PROVE  c <= Len(logOf[T]) /\ SamePrefix(l, logOf[T], c)
<1>1. logOf[T] \in Seq(Nat) /\ Len(logOf[T]) \in Nat /\ T \in Nat /\ FromLeaders(logOf[T], logOf)
    BY LenProperties DEF HistoryOK
<1>2. CASE c = 0
    BY <1>1, <1>2 DEF SamePrefix
<1>3. CASE c > 0
  <2>1. PICK t \in DOMAIN logOf, n \in Nat : /\ t <= b /\ c <= n
                                             /\ Chosen(t, n, logOf, held)
                                             /\ SamePrefix(l, logOf[t], c)
      BY <1>3 DEF Settled
  <2>2. t \in Nat /\ logOf[t] \in Seq(Nat) /\ Len(logOf[t]) \in Nat /\ FromLeaders(logOf[t], logOf)
        /\ n \in 1 .. Len(logOf[t]) /\ logOf[t][n] = t
      BY <2>1, LenProperties DEF HistoryOK, Chosen, Holds
  <2>3. Holds(logOf[T], n, t)
    <3>1. CASE t = T
        BY <3>1, <2>1 DEF Chosen
    <3>2. CASE t # T
      <4>1. t < T
          BY <3>2, <2>1, <2>2, <1>1
      <4> QED
          BY <4>1, <2>1, <2>2 DEF LeadersHaveChosen
    <3> QED
        BY <3>1, <3>2
  <2>4. n \in 1 .. Len(logOf[T]) /\ logOf[T][n] = t
      BY <2>3 DEF Holds
  <2>5. SamePrefix(logOf[t], logOf[T], n)
      BY <1>1, <2>2, <2>4, SameEntrySamePrefix
  <2>6. SamePrefix(l, logOf[T], c)
    <3> SUFFICES ASSUME NEW k \in 1 .. c PROVE l[k] = logOf[T][k]
        BY DEF SamePrefix
    <3>1. k \in 1 .. n
        BY <2>1
    <3> QED
        BY <3>1, <2>1, <2>5 DEF SamePrefix
  <2> QED
      BY <2>1, <2>4, <2>6, <1>1
<1> QED
    BY <1>2, <1>3

\* What a peer holds of the log of its term's leader, it has held.
LEMMA HeldByPrefix ==
    ASSUME Typed', NEW led2, NEW logOf2, HistoryOK(led2, logOf2), NEW held2, HoldingHeld(held2)',
           NEW q \in Server, currentTerm'[q] \in DOMAIN logOf2, NEW n \in Nat, n <= Len(log'[q]),
           n <= Len(logOf2[currentTerm'[q]]), SamePrefix(log'[q], logOf2[currentTerm'[q]], n)
    PROVE  HeldUpTo(q, currentTerm'[q], n, logOf2, held2)
<1>1. Len(log'[q]) \in Nat
    BY LenProperties DEF Typed, LogsTyped
<1>2. ASSUME NEW k \in 1 .. n, logOf2[currentTerm'[q]][k] = currentTerm'[q]
      PROVE  <<q, currentTerm'[q], k>> \in held2
  <2>1. k \in 1 .. Len(log'[q]) /\ log'[q][k] = currentTerm'[q]
      BY <1>1, <1>2 DEF SamePrefix
  <2> QED
      BY <2>1 DEF HoldingHeld
<1> QED
    BY <1>2 DEF HeldUpTo

LEMMA HeldUpToGoesOn ==
    ASSUME NEW led, NEW logOf, NEW led2, NEW logOf2,
           HistoryOK(led, logOf), HistoryOK(led2, logOf2), Extends(led, logOf, led2, logOf2),
           NEW held, NEW held2, held \subseteq held2,
           NEW q, NEW t, NEW n \in Nat, HeldUpTo(q, t, n, logOf, held)
    PROVE  HeldUpTo(q, t, n, logOf2, held2)
<1>1. t \in DOMAIN logOf /\ n <= Len(logOf[t])
    BY DEF HeldUpTo
<1>2. /\ t \in DOMAIN logOf2 /\ Len(logOf[t]) \in Nat /\ Len(logOf2[t]) \in Nat
      /\ Len(logOf[t]) <= Len(logOf2[t])
    BY <1>1, LenProperties DEF HistoryOK, Extends
<1>3. ASSUME NEW k \in 1 .. n, logOf2[t][k] = t PROVE <<q, t, k>> \in held2
  <2>1. k \in 1 .. Len(logOf[t])
      BY <1>1, <1>2
  <2>2. logOf[t][k] = t
      BY <2>1, <1>1, <1>3 DEF Extends, SamePrefix
  <2> QED
      BY <2>2 DEF HeldUpTo
<1> QED
    BY <1>1, <1>2, <1>3 DEF HeldUpTo

----------------------------------------------------------------------------
(* Commitment along a step *)

\* A step along the history before it and after it.
Along(led, logOf, held, led2, logOf2, held2) ==
    /\ LogInv(led, logOf)         /\ HeldInv(logOf, held)
    /\ LogInv(led2, logOf2)'      /\ HeldInv(logOf2, held2)'
    /\ HistoryStep(led, logOf, led2, logOf2)
    /\ HeldStep(held, held2)

\* The facts about the two histories that do not depend on the state.
Grown(led, logOf, held, led2, logOf2, held2) ==
    /\ HistoryOK(led, logOf)
    /\ HistoryOK(led2, logOf2)
    /\ Extends(led, logOf, led2, logOf2)
    /\ held \subseteq held2
    /\ LeadersHaveChosen(logOf2, held2)

LEMMA AlongGrown ==
    ASSUME NEW led, NEW logOf, NEW held, NEW led2, NEW logOf2, NEW held2,
           Along(led, logOf, held, led2, logOf2, held2)
    PROVE  Grown(led, logOf, held, led2, logOf2, held2)
<1>1. LeadersHaveChosen(logOf2, held2)
    BY SafeNextHaveChosen DEF Along, HeldInv
<1>2. HistoryOK(led2, logOf2)
    BY DEF Along, LogInv, HistoryOK
<1> QED
    BY <1>1, <1>2 DEF Along, Grown, LogInv, HistoryStep, HeldStep

\* Every leader of the peer's term or of a later one, new ones included, has
\* what the peer has committed.
LEMMA CommittedInLeaders ==
    ASSUME Typed, NEW led, NEW logOf, NEW held, NEW led2, NEW logOf2, NEW held2,
           Grown(led, logOf, held, led2, logOf2, held2), CommitsSettled(logOf, held),
           NEW i \in Server
    PROVE  /\ commitIndex[i] \in Nat /\ commitIndex[i] <= Len(log[i]) /\ lii[i] <= commitIndex[i]
           /\ Settled(log[i], commitIndex[i], currentTerm[i], logOf2, held2)
           /\ \A T \in DOMAIN logOf2 : currentTerm[i] <= T =>
                 commitIndex[i] <= Len(logOf2[T]) /\ SamePrefix(log[i], logOf2[T], commitIndex[i])
<1>1. commitIndex[i] \in Nat /\ currentTerm[i] \in Nat /\ log[i] \in Seq(Nat)
    BY DEF Typed, PeersTyped, LogsTyped
<1>2. /\ Settled(log[i], commitIndex[i], currentTerm[i], logOf, held) /\ lii[i] <= commitIndex[i]
      /\ commitIndex[i] <= Len(log[i])
    BY DEF CommitsSettled, Settled
<1>3. SamePrefix(log[i], log[i], commitIndex[i])
    BY DEF SamePrefix
<1>4. Settled(log[i], commitIndex[i], currentTerm[i], logOf2, held2)
    BY <1>1, <1>2, <1>3, SettledGoesOn DEF Grown
<1>5. ASSUME NEW T \in DOMAIN logOf2, currentTerm[i] <= T
      PROVE  commitIndex[i] <= Len(logOf2[T]) /\ SamePrefix(log[i], logOf2[T], commitIndex[i])
    BY <1>1, <1>4, <1>5, SettledInLeader DEF Grown
<1> QED
    BY <1>1, <1>2, <1>4, <1>5

\* So no step takes it out of the peer's log.
LEMMA CommittedGoesOn ==
    ASSUME Typed, Typed', DiskInSync, [Next]_vars,
           NEW led, NEW logOf, NEW held, NEW led2, NEW logOf2, NEW held2,
           Along(led, logOf, held, led2, logOf2, held2), CommitsSettled(logOf, held),
           NEW i \in Server
    PROVE  commitIndex[i] <= Len(log'[i]) /\ SamePrefix(log'[i], log[i], commitIndex[i])
<1>1. Grown(led, logOf, held, led2, logOf2, held2)
    BY AlongGrown
<1>2. /\ commitIndex[i] \in Nat /\ commitIndex[i] <= Len(log[i])
      /\ \A T \in DOMAIN logOf2 : currentTerm[i] <= T =>
            commitIndex[i] <= Len(logOf2[T]) /\ SamePrefix(log[i], logOf2[T], commitIndex[i])
    BY <1>1, CommittedInLeaders
<1>3. currentTerm[i] <= currentTerm'[i]
    BY StepKeepsVotes DEF Typed, PeersTyped
<1>4. CASE log'[i] = log[i]
    BY <1>2, <1>4 DEF SamePrefix
<1>5. ASSUME NEW n \in Nat, currentTerm'[i] \in DOMAIN logOf2,
             Adopts(log[i], log'[i], logOf2[currentTerm'[i]], n)
      PROVE  commitIndex[i] <= Len(log'[i]) /\ SamePrefix(log'[i], log[i], commitIndex[i])
  <2>1. log[i] \in Seq(Nat) /\ log'[i] \in Seq(Nat) /\ logOf2[currentTerm'[i]] \in Seq(Nat)
      BY <1>1, <1>5 DEF Typed, LogsTyped, Grown, HistoryOK
  <2>2. commitIndex[i] <= Len(logOf2[currentTerm'[i]])
        /\ SamePrefix(log[i], logOf2[currentTerm'[i]], commitIndex[i])
      BY <1>2, <1>3, <1>5
  <2> QED
      BY <2>1, <2>2, <1>2, <1>5, AdoptsKeeps
<1>6. GoesOn(i, logOf2)
    BY DEF Along, HistoryStep
<1> QED
    BY <1>4, <1>5, <1>6 DEF GoesOn

\* What is committed stays so in the peer's log.
LEMMA CommittedSettled ==
    ASSUME Typed, Typed', DiskInSync, [Next]_vars,
           NEW led, NEW logOf, NEW held, NEW led2, NEW logOf2, NEW held2,
           Along(led, logOf, held, led2, logOf2, held2), CommitsSettled(logOf, held),
           NEW i \in Server, NEW c \in Nat, c <= commitIndex[i]
    PROVE  Settled(log'[i], c, currentTerm'[i], logOf2, held2)
<1>1. Grown(led, logOf, held, led2, logOf2, held2)
    BY AlongGrown
<1>2. commitIndex[i] \in Nat /\ Settled(log[i], commitIndex[i], currentTerm[i], logOf, held)
    BY DEF Typed, PeersTyped, CommitsSettled
<1>3. commitIndex[i] <= Len(log'[i]) /\ SamePrefix(log'[i], log[i], commitIndex[i])
    BY CommittedGoesOn
<1>4. /\ currentTerm[i] \in Nat /\ currentTerm'[i] \in Nat /\ currentTerm[i] <= currentTerm'[i]
      /\ log'[i] \in Seq(Nat)
    BY StepKeepsVotes DEF Typed, PeersTyped, LogsTyped
<1>5. Settled(log'[i], commitIndex[i], currentTerm'[i], logOf2, held2)
    BY <1>1, <1>2, <1>3, <1>4, SettledGoesOn DEF Grown
<1> QED
    BY <1>2, <1>4, <1>5, SettledLess

\* A peer's commit index and snapshot move only in these steps.
LEMMA CommitStep ==
    ASSUME Typed, DiskInSync, [Next]_vars, NEW i \in Server
    PROVE  \/ commitIndex'[i] = commitIndex[i] /\ (lii'[i] = lii[i] \/ lii'[i] <= commitIndex[i])
           \/ \E m \in rpc : /\ AcceptEntries(m) /\ m.dst = i
                             /\ commitIndex'[i] = FollowerCommit(i, m) /\ lii'[i] = lii[i]
           \/ \E m \in rpc : /\ HandleInstallSnapshot(m) /\ m.dst = i /\ m.lii > lii[i]
                             /\ commitIndex'[i] = SnapshotCommit(i, m) /\ lii'[i] = m.lii
           \/ /\ NewCommit(i, matchIndex'[i], commitIndex'[i]) /\ lii'[i] = lii[i]
              /\ state[i] = "Leader" /\ state'[i] = "Leader" /\ log'[i] = log[i]
              /\ currentTerm'[i] = currentTerm[i]
           \/ Restart(i) /\ commitIndex'[i] = lii[i] /\ lii'[i] = lii[i]
<1> DEFINE Quiet == commitIndex'[i] = commitIndex[i] /\ lii'[i] = lii[i]
           Here(m) == /\ NewCommit(i, matchIndex'[i], commitIndex'[i]) /\ lii'[i] = lii[i]
                      /\ state[i] = "Leader" /\ state'[i] = "Leader" /\ log'[i] = log[i]
                      /\ currentTerm'[i] = currentTerm[i]
<1>1. ASSUME NEW j \in Server, StartElection(j) \/ Start(j) PROVE Quiet
    BY <1>1 DEF StartElection, Start, logVars
<1>2. ASSUME NEW j \in Server, Restart(j)
      PROVE  Quiet \/ (Restart(i) /\ commitIndex'[i] = lii[i] /\ lii'[i] = lii[i])
  <2>1. disk[j].lii = lii[j]
    <3>1. disk[j] = [term |-> currentTerm[j], vote |-> votedFor[j], log |-> log[j], lii |-> lii[j]]
        BY DEF DiskInSync
    <3> QED
        BY <3>1
  <2>2. CASE i = j
      BY <2>1, <2>2, <1>2 DEF Restart, Typed, PeersTyped, LogsTyped
  <2>3. CASE i # j
      BY <2>3, <1>2 DEF Restart, Typed, PeersTyped, LogsTyped
  <2> QED
      BY <2>2, <2>3
<1>3. ASSUME NEW j \in Server, NEW k \in Server,
             SendAppendEntries(j, k) \/ SnapshotNeeded(j, k) \/ SendInstallSnapshot(j, k)
      PROVE  Quiet
    BY <1>3 DEF SendAppendEntries, SnapshotNeeded, SendInstallSnapshot, logVars
<1>4. ASSUME NEW j \in Server, NEW index \in lii[j] + 1 .. commitIndex[j], Snapshot(j, index)
      PROVE  commitIndex'[i] = commitIndex[i] /\ (lii'[i] = lii[i] \/ lii'[i] <= commitIndex[i])
  <2>1. commitIndex'[i] = commitIndex[i]
      BY <1>4 DEF Snapshot
  <2>2. CASE i # j
      BY <1>4, <2>1, <2>2 DEF Snapshot, Typed, LogsTyped
  <2>3. CASE i = j
    <3>1. lii'[i] = AtMost(index, LastLogIndex(i))
        BY <1>4, <2>3 DEF Snapshot, Typed, LogsTyped
    <3>2. LastLogIndex(i) \in Nat /\ lii[j] \in Nat /\ commitIndex[j] \in Nat
        BY LastTermType DEF Typed, LogsTyped, PeersTyped
    <3> QED
        BY <2>1, <3>1, <3>2, <2>3 DEF AtMost
  <2> QED
      BY <2>2, <2>3
<1>5. ASSUME NEW m \in rpc, Receive(m)
      PROVE  \/ Quiet
             \/ /\ AcceptEntries(m) /\ m.dst = i
                /\ commitIndex'[i] = FollowerCommit(i, m) /\ lii'[i] = lii[i]
             \/ /\ HandleInstallSnapshot(m) /\ m.dst = i /\ m.lii > lii[i]
                /\ commitIndex'[i] = SnapshotCommit(i, m) /\ lii'[i] = m.lii
             \/ Here(m)
  <2>1. CASE \/ HandleRequestVote(m) \/ HandleVoteReply(m) \/ IgnoreVoteReply(m)
             \/ VoteReplyStepDown(m) \/ IgnoreAppendReply(m) \/ ReplyStepDown(m)
             \/ IgnoreSnapshotReply(m)
      BY <2>1 DEF HandleRequestVote, HandleVoteReply, IgnoreVoteReply, VoteReplyStepDown,
                  IgnoreAppendReply, ReplyStepDown, IgnoreSnapshotReply, logVars
  <2>2. CASE RefuseEntries(m) \/ HandleAppendConflict(m) \/ RefuseStaleTerm(m)
      BY <2>2 DEF RefuseEntries, HandleAppendConflict, RefuseStaleTerm, logVars
  <2>3. CASE AcceptEntries(m)
      BY <2>3 DEF AcceptEntries, Typed, PeersTyped
  <2>4. CASE HandleInstallSnapshot(m)
    <3>1. CASE i # m.dst \/ ~(m.lii > lii[m.dst])
        BY <2>4, <3>1 DEF HandleInstallSnapshot, Typed, PeersTyped, LogsTyped, logVars
    <3>2. CASE i = m.dst /\ m.lii > lii[m.dst]
      <4>1. lii' = [lii EXCEPT ![i] = m.lii]
            /\ commitIndex' = [commitIndex EXCEPT ![i] = SnapshotCommit(i, m)]
          BY <2>4, <3>2 DEF HandleInstallSnapshot
      <4> QED
          BY <4>1, <2>4, <3>2 DEF Typed, PeersTyped, LogsTyped
    <3> QED
        BY <3>1, <3>2
  <2>5. CASE HandleAppendSuccess(m) \/ HandleSnapshotReply(m)
    <3>1. PICK c : /\ NewCommit(m.dst, matchIndex'[m.dst], c)
                   /\ commitIndex' = [commitIndex EXCEPT ![m.dst] = c]
                   /\ state[m.dst] = "Leader"
                   /\ UNCHANGED <<termVars, logVars, state>>
        BY <2>5 DEF HandleAppendSuccess, HandleSnapshotReply
    <3>2. CASE i # m.dst
        BY <3>1, <3>2 DEF logVars, Typed, PeersTyped
    <3>3. CASE i = m.dst
      <4>1. commitIndex'[i] = c
          BY <3>1, <3>3 DEF Typed, PeersTyped
      <4> QED
          BY <4>1, <3>1, <3>3 DEF logVars, termVars
    <3> QED
        BY <3>2, <3>3
  <2> QED
      BY <1>5, <2>1, <2>2, <2>3, <2>4, <2>5 DEF Receive
<1>6. CASE UNCHANGED vars
    BY <1>6 DEF vars, logVars
<1> QED
    BY <1>1, <1>2, <1>3, <1>4, <1>5, <1>6 DEF Next

\* What a leader takes a peer to have changes only in these steps.
LEMMA MatchStep ==
    ASSUME Typed, DiskInSync, [Next]_vars, NEW i \in Server, NEW j \in Server,
           state'[i] = "Leader", state[i] = "Leader"
    PROVE  \/ matchIndex'[i][j] = matchIndex[i][j] /\ nextIndex'[i][j] = nextIndex[i][j]
           \/ \E m \in rpc : /\ HandleAppendSuccess(m) /\ m.dst = i /\ m.src = j
                             /\ matchIndex'[i][j] = m.match /\ nextIndex'[i][j] = m.match + 1
           \/ \E m \in rpc : /\ HandleAppendConflict(m) /\ m.dst = i /\ m.src = j
                             /\ matchIndex'[i][j] = matchIndex[i][j]
                             /\ BacksUpTo(i, m, nextIndex'[i][j])
           \/ \E m \in rpc : /\ HandleSnapshotReply(m) /\ m.dst = i /\ m.src = j
                             /\ matchIndex'[i][j] = AtLeast(matchIndex[i][j], m.lii)
                             /\ nextIndex'[i][j] = AtLeast(nextIndex[i][j], m.lii + 1)
<1> DEFINE Quiet == matchIndex'[i][j] = matchIndex[i][j] /\ nextIndex'[i][j] = nextIndex[i][j]
<1>1. ASSUME NEW k \in Server, StartElection(k) \/ Start(k) PROVE Quiet
    BY <1>1 DEF StartElection, Start, leaderVars
<1>2. ASSUME NEW k \in Server, Restart(k) PROVE Quiet
  <2>1. i # k
      BY <1>2 DEF Restart, Typed, PeersTyped
  <2> QED
      BY <2>1, <1>2 DEF Restart, Typed, PeersTyped
<1>3. ASSUME NEW h \in Server, NEW k \in Server,
             SendAppendEntries(h, k) \/ SnapshotNeeded(h, k) \/ SendInstallSnapshot(h, k)
      PROVE  Quiet
    BY <1>3 DEF SendAppendEntries, SnapshotNeeded, SendInstallSnapshot, leaderVars
<1>4. ASSUME NEW k \in Server, NEW index, Snapshot(k, index)
      PROVE  Quiet
    BY <1>4 DEF Snapshot, leaderVars
<1>5. ASSUME NEW m \in rpc, Receive(m)
      PROVE  \/ Quiet
             \/ /\ HandleAppendSuccess(m) /\ m.dst = i /\ m.src = j
                /\ matchIndex'[i][j] = m.match /\ nextIndex'[i][j] = m.match + 1
             \/ /\ HandleAppendConflict(m) /\ m.dst = i /\ m.src = j
                /\ matchIndex'[i][j] = matchIndex[i][j]
                /\ BacksUpTo(i, m, nextIndex'[i][j])
             \/ /\ HandleSnapshotReply(m) /\ m.dst = i /\ m.src = j
                /\ matchIndex'[i][j] = AtLeast(matchIndex[i][j], m.lii)
                /\ nextIndex'[i][j] = AtLeast(nextIndex[i][j], m.lii + 1)
  <2>0. m.dst \in Server /\ m.src \in Server
      BY MessageTypes DEF Typed
  <2>1. CASE \/ HandleRequestVote(m) \/ IgnoreVoteReply(m)
             \/ VoteReplyStepDown(m) \/ IgnoreAppendReply(m) \/ ReplyStepDown(m)
             \/ IgnoreSnapshotReply(m)
      BY <2>1 DEF HandleRequestVote, IgnoreVoteReply, VoteReplyStepDown,
                  IgnoreAppendReply, ReplyStepDown, IgnoreSnapshotReply, leaderVars
  <2>2. CASE AcceptEntries(m) \/ RefuseEntries(m) \/ HandleInstallSnapshot(m) \/ RefuseStaleTerm(m)
      BY <2>2 DEF AcceptEntries, RefuseEntries, HandleInstallSnapshot, RefuseStaleTerm, leaderVars
  <2>3. CASE HandleVoteReply(m)
    <3>1. i # m.dst
        BY <2>3 DEF HandleVoteReply, CountsFor
    <3> QED
        BY <2>0, <2>3, <3>1 DEF HandleVoteReply, BecomeLeader, leaderVars, Typed, PeersTyped
  <2>4. CASE HandleAppendSuccess(m)
    <3>1. matchIndex' = [matchIndex EXCEPT ![m.dst][m.src] = m.match]
          /\ nextIndex' = [nextIndex EXCEPT ![m.dst][m.src] = m.match + 1]
        BY <2>4 DEF HandleAppendSuccess
    <3>2. CASE m.dst = i /\ m.src = j
        BY <2>4, <3>1, <3>2 DEF Typed, PeersTyped
    <3>3. CASE ~(m.dst = i /\ m.src = j)
        BY <2>0, <3>1, <3>3 DEF Typed, PeersTyped
    <3> QED
        BY <3>2, <3>3
  <2>5. CASE HandleAppendConflict(m)
    <3>1. PICK k : /\ BacksUpTo(m.dst, m, k)
                    /\ nextIndex' = [nextIndex EXCEPT ![m.dst][m.src] = k]
                    /\ matchIndex' = matchIndex
        BY <2>5 DEF HandleAppendConflict
    <3>2. CASE m.dst = i /\ m.src = j
      <4>1. nextIndex'[i][j] = k
          BY <3>1, <3>2 DEF Typed, PeersTyped
      <4> QED
          BY <4>1, <2>5, <3>1, <3>2
    <3>3. CASE ~(m.dst = i /\ m.src = j)
        BY <2>0, <3>1, <3>3 DEF Typed, PeersTyped
    <3> QED
        BY <3>2, <3>3
  <2>6. CASE HandleSnapshotReply(m)
    <3>1. matchIndex' = [matchIndex EXCEPT ![m.dst][m.src] = AtLeast(@, m.lii)]
          /\ nextIndex' = [nextIndex EXCEPT ![m.dst][m.src] = AtLeast(@, m.lii + 1)]
        BY <2>6 DEF HandleSnapshotReply
    <3>2. CASE m.dst = i /\ m.src = j
        BY <2>6, <3>1, <3>2 DEF Typed, PeersTyped
    <3>3. CASE ~(m.dst = i /\ m.src = j)
        BY <2>0, <3>1, <3>3 DEF Typed, PeersTyped
    <3> QED
        BY <3>2, <3>3
  <2> QED
      BY <1>5, <2>1, <2>2, <2>3, <2>4, <2>5, <2>6 DEF Receive
<1>6. CASE UNCHANGED vars
    BY <1>6 DEF vars, leaderVars
<1> QED
    BY <1>1, <1>2, <1>3, <1>4, <1>5, <1>6 DEF Next

\* No peer was elected before in the term that is being won.
LEMMA WonTermIsNew ==
    ASSUME Typed, Typed', ElectionInv, ElectionInv', [Next]_vars,
           NEW led, NEW logOf, LogInv(led, logOf), NEW i \in Server,
           state[i] = "Candidate", state'[i] = "Leader", Majority(votes'[i]),
           currentTerm'[i] = currentTerm[i]
    PROVE  currentTerm[i] \notin DOMAIN logOf
<1> SUFFICES ASSUME currentTerm[i] \in DOMAIN logOf PROVE FALSE
    OBVIOUS
<1>1. currentTerm[i] \in Nat /\ led[currentTerm[i]] \in Server
    BY DEF Typed, PeersTyped, LogInv, HistoryOK
<1>2. Elected(led[currentTerm[i]], currentTerm[i])
    BY DEF LogInv, ElectionsHeld
<1>3. PICK j \in Server, t \in Nat : j = led[currentTerm[i]] /\ t = currentTerm[i]
    BY <1>1
<1>4. Elected(j, t)'
    BY <1>2, <1>3, ElectedStable DEF ElectionInv
<1>5. i = j
    BY <1>3, <1>4, ElectedOnce
<1> QED
    BY <1>3, <1>5 DEF LogInv, ElectionsHeld

\* A new leader has no entry of its term yet, and counts on nothing else.
LEMMA NewLeaderMatches ==
    ASSUME Typed, Typed', ElectionInv, ElectionInv', [Next]_vars,
           NEW led, NEW logOf, NEW held, NEW led2, NEW logOf2, NEW held2,
           Along(led, logOf, held, led2, logOf2, held2),
           NEW i \in Server, NEW j \in Server, state[i] # "Leader", state'[i] = "Leader"
    PROVE  /\ nextIndex'[i][j] <= Len(log'[i]) + 1
           /\ HeldUpTo(j, currentTerm'[i], matchIndex'[i][j], logOf2, held2)
<1>1. /\ currentTerm'[i] = currentTerm[i] /\ state[i] = "Candidate" /\ Majority(votes'[i])
      /\ log'[i] = log[i]
    BY LeaderStep DEF ElectionInv
<1>2. PICK m \in rpc : HandleVoteReply(m) /\ m.dst = i
    BY LeaderStep DEF ElectionInv
<1>3. currentTerm[i] \notin DOMAIN logOf
    BY <1>1, WonTermIsNew DEF Along
<1>4. currentTerm'[i] \in DOMAIN logOf2 /\ logOf2[currentTerm'[i]] = log'[i]
    BY DEF Along, LogInv, LeadersKnown
<1>5. log[i] \in Seq(Nat) /\ Len(log[i]) \in Nat /\ lii[i] \in Nat /\ lii[i] <= Len(log[i])
    BY LenProperties DEF Typed, LogsTyped
<1>6. nextIndex'[i][j] = Len(log[i]) + 1 /\ matchIndex'[i][j] \in {Len(log[i]), lii[i]}
  <2>1. BecomeLeader(i)
    <3>1. BecomeLeader(i) \/ state' = state
        BY <1>2 DEF HandleVoteReply
    <3> QED
        BY <3>1, <1>1
  <2>2. /\ nextIndex'[i] = [k \in Server |-> LastLogIndex(i) + 1]
        /\ matchIndex'[i] = [k \in Server |-> IF k = i THEN LastLogIndex(i) ELSE lii[i]]
      BY <2>1 DEF BecomeLeader, Typed, PeersTyped
  <2> QED
      BY <2>2 DEF LastLogIndex
<1>7. ASSUME NEW k \in 1 .. matchIndex'[i][j] PROVE log[i][k] # currentTerm[i]
  <2>1. k \in 1 .. Len(log[i])
      BY <1>5, <1>6
  <2>2. log[i][k] \in DOMAIN logOf
      BY <2>1 DEF Along, LogInv, LogsKnown, FromLeaders
  <2> QED
      BY <2>2, <1>3
<1> QED
    BY <1>1, <1>4, <1>5, <1>6, <1>7 DEF HeldUpTo

\* What a leader counts on was held: the reply that tells it is of its term.
LEMMA LeadersMatchGoOn ==
    ASSUME Typed, Typed', ElectionInv, ElectionInv', [Next]_vars, NoLateReplies,
           NEW led, NEW logOf, NEW held, NEW led2, NEW logOf2, NEW held2,
           Along(led, logOf, held, led2, logOf2, held2), CommitInv(logOf, held)
    PROVE  LeadersMatch(logOf2, held2)'
<1> SUFFICES ASSUME NEW i \in Server, NEW j \in Server, state'[i] = "Leader", state[i] = "Leader"
             PROVE  /\ nextIndex'[i][j] <= Len(log'[i]) + 1
                    /\ HeldUpTo(j, currentTerm'[i], matchIndex'[i][j], logOf2, held2)
    BY NewLeaderMatches DEF LeadersMatch, LastLogIndex
<1>1. Grown(led, logOf, held, led2, logOf2, held2)
    BY AlongGrown
<1>2. currentTerm'[i] = currentTerm[i]
    BY LeaderStep DEF ElectionInv
<1>3. /\ currentTerm[i] \in DOMAIN logOf /\ logOf[currentTerm[i]] = log[i]
      /\ logOf2[currentTerm[i]] = log'[i]
    BY <1>2 DEF Along, LogInv, LeadersKnown
<1>4. /\ Len(log[i]) \in Nat /\ Len(log'[i]) \in Nat /\ Len(log[i]) <= Len(log'[i])
      /\ lii[i] \in Nat /\ lii[i] <= Len(log[i]) /\ currentTerm[i] \in Nat
  <2>1. Len(log[i]) <= Len(log'[i])
      BY <1>1, <1>3 DEF Grown, Extends
  <2> QED
      BY <2>1, LenProperties DEF Typed, LogsTyped, PeersTyped
<1>5. /\ matchIndex[i][j] \in Nat /\ nextIndex[i][j] \in Nat
      /\ nextIndex[i][j] <= Len(log[i]) + 1
      /\ HeldUpTo(j, currentTerm[i], matchIndex[i][j], logOf, held)
    BY DEF Typed, PeersTyped, CommitInv, LeadersMatch, LastLogIndex
<1>6. ASSUME NEW n \in Nat, HeldUpTo(j, currentTerm[i], n, logOf, held)
      PROVE  HeldUpTo(j, currentTerm'[i], n, logOf2, held2) /\ n <= Len(log'[i])
  <2>1. HeldUpTo(j, currentTerm[i], n, logOf2, held2)
      BY <1>1, <1>6, HeldUpToGoesOn DEF Grown
  <2> QED
      BY <2>1, <1>2, <1>3 DEF HeldUpTo
<1>7. CASE matchIndex'[i][j] = matchIndex[i][j] /\ nextIndex'[i][j] = nextIndex[i][j]
    BY <1>4, <1>5, <1>6, <1>7
<1>8. ASSUME NEW m \in rpc, m.dst = i, m.src = j, HandleAppendSuccess(m),
             matchIndex'[i][j] = m.match, nextIndex'[i][j] = m.match + 1
      PROVE  /\ nextIndex'[i][j] <= Len(log'[i]) + 1
             /\ HeldUpTo(j, currentTerm'[i], matchIndex'[i][j], logOf2, held2)
  <2>1. m.asked = currentTerm[i] /\ m.type = "AppendReply" /\ m.ok
      BY <1>8 DEF HandleAppendSuccess, Arrives, NoLateReplies
  <2>2. m.match \in Nat
      BY <2>1, MessageTypes DEF Typed
  <2>3. HeldUpTo(j, currentTerm[i], m.match, logOf, held)
      BY <2>1, <1>8 DEF CommitInv, CommitKnown
  <2> QED
      BY <2>2, <2>3, <1>4, <1>6, <1>8
<1>9. ASSUME NEW m \in rpc, m.dst = i, m.src = j, HandleAppendConflict(m),
             matchIndex'[i][j] = matchIndex[i][j], BacksUpTo(i, m, nextIndex'[i][j])
      PROVE  /\ nextIndex'[i][j] <= Len(log'[i]) + 1
             /\ HeldUpTo(j, currentTerm'[i], matchIndex'[i][j], logOf2, held2)
  <2>1. m.asked = currentTerm[i] /\ m.type = "AppendReply" /\ ~m.ok
      BY <1>9 DEF HandleAppendConflict, Arrives, NoLateReplies
  <2>2. m.conflictIndex \in Nat /\ nextIndex'[i][j] \in Nat
      BY <2>1, MessageTypes DEF Typed, PeersTyped
  <2>3. m.conflictIndex <= Len(log[i]) + 1
    <3>1. CommitKnown(m, logOf, held)
        BY DEF CommitInv
    <3> QED
        BY <3>1, <2>1, <2>2, <1>3, <1>4 DEF CommitKnown
  <2>4. nextIndex'[i][j] = m.conflictIndex \/ nextIndex'[i][j] - 1 \in lii[i] .. LastLogIndex(i)
      BY <1>9 DEF BacksUpTo
  <2>5. nextIndex'[i][j] <= Len(log'[i]) + 1
      BY <2>2, <2>3, <2>4, <1>4 DEF LastLogIndex
  <2> QED
      BY <2>5, <1>5, <1>6, <1>9
<1>10. ASSUME NEW m \in rpc, m.dst = i, m.src = j, HandleSnapshotReply(m),
              matchIndex'[i][j] = AtLeast(matchIndex[i][j], m.lii),
              nextIndex'[i][j] = AtLeast(nextIndex[i][j], m.lii + 1)
       PROVE  /\ nextIndex'[i][j] <= Len(log'[i]) + 1
              /\ HeldUpTo(j, currentTerm'[i], matchIndex'[i][j], logOf2, held2)
  <2>1. m.asked = currentTerm[i] /\ m.type = "SnapshotReply" /\ m.term <= currentTerm[i]
      BY <1>10 DEF HandleSnapshotReply
  <2>2. m.lii \in Nat /\ m.term \in Nat
      BY <2>1, MessageTypes DEF Typed
  <2>3. HeldUpTo(j, currentTerm[i], m.lii, logOf, held)
    <3>1. CommitKnown(m, logOf, held)
        BY DEF CommitInv
    <3>2. m.asked <= m.term /\ (m.asked = m.term => HeldUpTo(m.src, m.asked, m.lii, logOf, held))
        BY <3>1, <2>1 DEF CommitKnown
    <3>3. m.asked = m.term
        BY <3>2, <2>1, <2>2, <1>4
    <3> QED
        BY <3>2, <3>3, <2>1, <1>10
  <2>4. matchIndex'[i][j] \in {matchIndex[i][j], m.lii}
        /\ (nextIndex'[i][j] = nextIndex[i][j] \/ nextIndex'[i][j] = m.lii + 1)
      BY <1>10 DEF AtLeast
  <2>5. HeldUpTo(j, currentTerm'[i], m.lii, logOf2, held2) /\ m.lii <= Len(log'[i])
        /\ HeldUpTo(j, currentTerm'[i], matchIndex[i][j], logOf2, held2)
      BY <2>2, <2>3, <1>5, <1>6
  <2>6. nextIndex'[i][j] <= Len(log'[i]) + 1
      BY <2>2, <2>4, <2>5, <1>4, <1>5
  <2> QED
      BY <2>4, <2>5, <2>6
<1> QED
    BY <1>7, <1>8, <1>9, <1>10, MatchStep DEF ElectionInv

\* A commit index that a leader computes is backed by a majority that held it.
LEMMA NewCommitSettled ==
    ASSUME Typed, Typed', NEW led, NEW logOf, NEW held, NEW led2, NEW logOf2, NEW held2,
           Along(led, logOf, held, led2, logOf2, held2), LeadersMatch(logOf2, held2)',
           NEW i \in Server, state'[i] = "Leader", log'[i] = log[i],
           currentTerm'[i] = currentTerm[i],
           NEW c \in Committable(i, matchIndex'[i])
    PROVE  Settled(log'[i], c, currentTerm'[i], logOf2, held2)
<1>1. /\ currentTerm'[i] \in DOMAIN logOf2 /\ logOf2[currentTerm'[i]] = log'[i]
      /\ HoldingHeld(held2)' /\ HistoryOK(led2, logOf2)
    BY AlongGrown DEF Along, Grown, LogInv, LeadersKnown, HeldInv
<1>2. Len(log[i]) \in Nat /\ lii[i] \in Nat /\ currentTerm[i] \in Nat
    BY LenProperties DEF Typed, LogsTyped, PeersTyped
<1>3. /\ c \in 1 .. Len(log'[i]) /\ log'[i][c] = currentTerm'[i]
      /\ Majority({i} \cup {j \in Server : matchIndex'[i][j] >= c})
    BY <1>2 DEF Committable, LastLogIndex
<1>4. ASSUME NEW j \in Server, matchIndex'[i][j] >= c PROVE <<j, currentTerm'[i], c>> \in held2
  <2>1. HeldUpTo(j, currentTerm'[i], matchIndex'[i][j], logOf2, held2) /\ matchIndex'[i][j] \in Nat
      BY DEF LeadersMatch, Typed, PeersTyped
  <2>2. c \in 1 .. matchIndex'[i][j]
      BY <1>3, <1>4, <2>1
  <2> QED
      BY <2>1, <2>2, <1>1, <1>3 DEF HeldUpTo
<1>5. <<i, currentTerm'[i], c>> \in held2
    BY <1>1, <1>3 DEF HoldingHeld
<1>6. Majority({q \in Server : <<q, currentTerm'[i], c>> \in held2})
    BY <1>3, <1>4, <1>5, MoreIsMajority
<1>7. Chosen(currentTerm'[i], c, logOf2, held2)
    BY <1>1, <1>3, <1>6 DEF Chosen, Holds
<1>8. SamePrefix(log'[i], logOf2[currentTerm'[i]], c)
    BY <1>1 DEF SamePrefix
<1> QED
    BY <1>1, <1>2, <1>3, <1>7, <1>8 DEF Settled

\* What a request says is committed is so in the log that adopts the leader's.
LEMMA AdoptsSettled ==
    ASSUME NEW led, NEW logOf, NEW held, NEW led2, NEW logOf2, NEW held2,
           Grown(led, logOf, held, led2, logOf2, held2),
           NEW l \in Seq(Nat), NEW r \in Seq(Nat), NEW T \in DOMAIN logOf, NEW n \in Nat,
           Adopts(l, r, logOf[T], n), NEW c \in Nat, c <= n,
           Settled(logOf[T], c, T, logOf, held)
    PROVE  Settled(r, c, T, logOf2, held2)
<1>1. logOf[T] \in Seq(Nat) /\ T \in Nat /\ Len(r) \in Nat
    BY LenProperties DEF Grown, HistoryOK
<1>2. n <= Len(r) /\ SamePrefix(r, logOf[T], n)
    BY <1>1, AdoptsPrefix
<1>3. c <= Len(r) /\ SamePrefix(r, logOf[T], c)
    BY <1>1, <1>2 DEF SamePrefix
<1> QED
    BY <1>1, <1>3, SettledGoesOn DEF Grown

LEMMA CommitsSettledGoOn ==
    ASSUME Typed, Typed', DiskInSync, [Next]_vars,
           NEW led, NEW logOf, NEW held, NEW led2, NEW logOf2, NEW held2,
           Along(led, logOf, held, led2, logOf2, held2), CommitInv(logOf, held),
           LeadersMatch(logOf2, held2)'
    PROVE  CommitsSettled(logOf2, held2)'
<1> SUFFICES ASSUME NEW i \in Server
             PROVE  /\ Settled(log'[i], commitIndex'[i], currentTerm'[i], logOf2, held2)
                    /\ lii'[i] <= commitIndex'[i]
    BY DEF CommitsSettled
<1>1. Grown(led, logOf, held, led2, logOf2, held2) /\ CommitsSettled(logOf, held)
    BY AlongGrown DEF CommitInv
<1>2. /\ commitIndex[i] \in Nat /\ commitIndex'[i] \in Nat /\ lii[i] \in Nat /\ lii'[i] \in Nat
      /\ lii[i] <= commitIndex[i] /\ log[i] \in Seq(Nat) /\ log'[i] \in Seq(Nat)
    BY <1>1 DEF Typed, PeersTyped, LogsTyped, CommitsSettled
<1>3. ASSUME NEW c \in Nat, c <= commitIndex[i]
      PROVE  Settled(log'[i], c, currentTerm'[i], logOf2, held2)
    BY <1>1, <1>3, CommittedSettled
<1>4. CASE commitIndex'[i] = commitIndex[i] /\ (lii'[i] = lii[i] \/ lii'[i] <= commitIndex[i])
    BY <1>2, <1>3, <1>4
<1>5. ASSUME NEW m \in rpc, AcceptEntries(m), m.dst = i,
             commitIndex'[i] = FollowerCommit(i, m), lii'[i] = lii[i]
      PROVE  /\ Settled(log'[i], commitIndex'[i], currentTerm'[i], logOf2, held2)
             /\ lii'[i] <= commitIndex'[i]
  <2>1. m.type = "AppendEntries"
      BY <1>5 DEF AcceptEntries
  <2>2. m.prev \in Nat /\ m.entries \in Seq(Nat) /\ m.commit \in Nat /\ Len(m.entries) \in Nat
      BY <2>1, MessageTypes, LenProperties DEF Typed
  <2>3. /\ m.commit <= m.prev + Len(m.entries)
        /\ Settled(logOf[m.term], m.commit, m.term, logOf, held)
      BY <2>1 DEF CommitInv, CommitKnown
  <2>4. /\ m.term \in DOMAIN logOf /\ currentTerm'[i] = m.term
        /\ Adopts(log[i], log'[i], logOf[m.term], m.prev + Len(m.entries))
      BY <1>5, AcceptAdopts DEF Along
  <2>5. CASE m.commit > commitIndex[i]
    <3>1. commitIndex'[i] = m.commit
        BY <1>5, <2>2, <2>3, <2>5 DEF FollowerCommit, AtMost
    <3>2. m.prev + Len(m.entries) \in Nat
        BY <2>2
    <3>3. Settled(log'[i], m.commit, m.term, logOf2, held2)
        BY <1>1, <1>2, <2>2, <2>3, <2>4, <3>2, AdoptsSettled
    <3> QED
        BY <3>1, <3>3, <2>2, <2>4, <2>5, <1>2, <1>5
  <2>6. CASE ~(m.commit > commitIndex[i])
    <3>1. commitIndex'[i] = commitIndex[i]
        BY <1>5, <2>6 DEF FollowerCommit
    <3> QED
        BY <3>1, <1>2, <1>3, <1>5
  <2> QED
      BY <2>5, <2>6
<1>6. ASSUME NEW m \in rpc, HandleInstallSnapshot(m), m.dst = i, m.lii > lii[i],
             commitIndex'[i] = SnapshotCommit(i, m), lii'[i] = m.lii
      PROVE  /\ Settled(log'[i], commitIndex'[i], currentTerm'[i], logOf2, held2)
             /\ lii'[i] <= commitIndex'[i]
  <2>1. m.type = "InstallSnapshot"
      BY <1>6 DEF HandleInstallSnapshot
  <2>2. m.lii \in Nat
      BY <2>1, MessageTypes DEF Typed
  <2>3. Settled(logOf[m.term], m.lii, m.term, logOf, held)
      BY <2>1 DEF CommitInv, CommitKnown
  <2>4. /\ m.term \in DOMAIN logOf /\ currentTerm'[i] = m.term
        /\ Adopts(log[i], log'[i], logOf[m.term], m.lii)
      BY <1>6, SnapshotAdopts DEF Along
  <2>5. CASE m.lii > commitIndex[i]
    <3>1. commitIndex'[i] = m.lii
        BY <1>6, <1>2, <2>2, <2>5 DEF SnapshotCommit, AtLeast
    <3>2. Settled(log'[i], m.lii, m.term, logOf2, held2)
        BY <1>1, <1>2, <2>2, <2>3, <2>4, AdoptsSettled
    <3> QED
      <4>1. Settled(log'[i], commitIndex'[i], currentTerm'[i], logOf2, held2)
          BY <3>1, <3>2, <2>4
      <4>2. lii'[i] = commitIndex'[i]
          BY <3>1, <1>6
      <4> QED
          BY <4>1, <4>2, <1>2
  <2>6. CASE ~(m.lii > commitIndex[i])
    <3>1. commitIndex'[i] = commitIndex[i] /\ lii'[i] <= commitIndex'[i]
        BY <1>6, <1>2, <2>2, <2>6 DEF SnapshotCommit, AtLeast
    <3> QED
        BY <3>1, <1>2, <1>3
  <2> QED
      BY <2>5, <2>6
<1>7. CASE /\ NewCommit(i, matchIndex'[i], commitIndex'[i]) /\ lii'[i] = lii[i]
           /\ state[i] = "Leader" /\ state'[i] = "Leader" /\ log'[i] = log[i]
           /\ currentTerm'[i] = currentTerm[i]
  <2>1. CASE commitIndex'[i] = commitIndex[i]
      BY <2>1, <1>2, <1>3, <1>7
  <2>2. CASE commitIndex'[i] \in Committable(i, matchIndex'[i])
    <3>1. Settled(log'[i], commitIndex'[i], currentTerm'[i], logOf2, held2)
        BY <1>7, <2>2, NewCommitSettled
    <3>2. commitIndex'[i] > commitIndex[i]
        BY <2>2 DEF Committable
    <3> QED
        BY <3>1, <3>2, <1>2, <1>7
  <2> QED
      BY <2>1, <2>2, <1>7 DEF NewCommit
<1>8. CASE Restart(i) /\ commitIndex'[i] = lii[i] /\ lii'[i] = lii[i]
    BY <1>2, <1>3, <1>8
<1> QED
    BY <1>4, <1>5, <1>6, <1>7, <1>8, CommitStep

----------------------------------------------------------------------------
(* What the messages tell of commitment goes on *)

\* What a message told before the step is still so.
LEMMA CommitKnownGoesOn ==
    ASSUME Typed, NEW led, NEW logOf, NEW held, NEW led2, NEW logOf2, NEW held2,
           Along(led, logOf, held, led2, logOf2, held2),
           NEW n \in rpc, CommitKnown(n, logOf, held)
    PROVE  CommitKnown(n, logOf2, held2)
<1>1. Grown(led, logOf, held, led2, logOf2, held2)
    BY AlongGrown
<1>2. ASSUME NEW t \in DOMAIN logOf, NEW c \in Nat, Settled(logOf[t], c, t, logOf, held)
      PROVE  Settled(logOf2[t], c, t, logOf2, held2)
  <2>1. /\ t \in Nat /\ logOf[t] \in Seq(Nat) /\ logOf2[t] \in Seq(Nat)
        /\ Len(logOf[t]) \in Nat /\ Len(logOf2[t]) \in Nat
        /\ Len(logOf[t]) <= Len(logOf2[t]) /\ SamePrefix(logOf[t], logOf2[t], Len(logOf[t]))
      BY <1>1, LenProperties DEF Grown, HistoryOK, Extends
  <2>2. c <= Len(logOf[t])
      BY <1>2 DEF Settled
  <2>3. c <= Len(logOf2[t]) /\ SamePrefix(logOf2[t], logOf[t], c)
    <3>1. c <= Len(logOf2[t])
        BY <2>1, <2>2
    <3>2. ASSUME NEW k \in 1 .. c PROVE logOf2[t][k] = logOf[t][k]
      <4>1. k \in 1 .. Len(logOf[t])
          BY <2>1, <2>2
      <4> QED
          BY <4>1, <2>1 DEF SamePrefix
    <3> QED
        BY <3>1, <3>2 DEF SamePrefix
  <2> QED
      BY <1>1, <1>2, <2>1, <2>3, SettledGoesOn DEF Grown
<1>3. ASSUME NEW q, NEW t, NEW c \in Nat, HeldUpTo(q, t, c, logOf, held)
      PROVE  HeldUpTo(q, t, c, logOf2, held2)
    BY <1>1, <1>3, HeldUpToGoesOn DEF Grown
<1>4. n.type \in {"AppendEntries", "InstallSnapshot"} => n.term \in DOMAIN logOf
    BY DEF Along, LogInv, MessagesKnown, RequestKnown
<1>5. n.type = "AppendEntries" =>
          /\ n.commit <= n.prev + Len(n.entries)
          /\ Settled(logOf2[n.term], n.commit, n.term, logOf2, held2)
    BY <1>2, <1>4, MessageTypes DEF CommitKnown, Typed
<1>6. n.type = "InstallSnapshot" => Settled(logOf2[n.term], n.lii, n.term, logOf2, held2)
    BY <1>2, <1>4, MessageTypes DEF CommitKnown, Typed
<1>7. n.type = "AppendReply" /\ n.ok => HeldUpTo(n.src, n.asked, n.match, logOf2, held2)
    BY <1>3, MessageTypes DEF CommitKnown, Typed
<1>8. ASSUME n.type = "AppendReply", ~n.ok, n.conflictIndex > 0
      PROVE  n.asked \in DOMAIN logOf2 /\ n.conflictIndex <= Len(logOf2[n.asked]) + 1
  <2>1. n.asked \in DOMAIN logOf /\ n.conflictIndex <= Len(logOf[n.asked]) + 1
      BY <1>8 DEF CommitKnown
  <2>2. n.conflictIndex \in Nat
      BY <1>8, MessageTypes DEF Typed
  <2>3. n.asked \in DOMAIN logOf2
        /\ Len(logOf[n.asked]) \in Nat /\ Len(logOf2[n.asked]) \in Nat
        /\ Len(logOf[n.asked]) <= Len(logOf2[n.asked])
      BY <2>1, <1>1, LenProperties DEF Grown, HistoryOK, Extends
  <2> QED
      BY <2>1, <2>2, <2>3
<1>9. n.type = "SnapshotReply" =>
          /\ n.asked <= n.term
          /\ n.asked = n.term => HeldUpTo(n.src, n.asked, n.lii, logOf2, held2)
    BY <1>3, MessageTypes DEF CommitKnown, Typed
<1> QED
    BY <1>5, <1>6, <1>7, <1>8, <1>9 DEF CommitKnown

LEMMA OldCommitKnown ==
    ASSUME Typed, NEW m, Old(m), NEW logOf, NEW held,
           \A n \in rpc : CommitKnown(n, logOf, held)
    PROVE  CommitKnown(m, logOf, held)
<1>1. PICK n \in rpc :
              /\ m.type = n.type /\ m.src = n.src /\ m.dst = n.dst /\ m.term = n.term
              /\ m = n \/ n \in Requests
              /\ m.type = "RequestVote" => m.lastIndex = n.lastIndex /\ m.lastTerm = n.lastTerm
              /\ m.type = "AppendEntries" => /\ m.prev = n.prev /\ m.prevTerm = n.prevTerm
                                             /\ m.entries = n.entries /\ m.commit = n.commit
              /\ m.type = "InstallSnapshot" => m.lii = n.lii /\ m.data = n.data
              /\ m.type \in {"VoteReply", "AppendReply", "SnapshotReply"} => m = n
    BY OldFields
<1>2. CASE m = n
    BY <1>2
<1>3. CASE n \in Requests
  <2>1. n.type \in {"RequestVote", "AppendEntries", "InstallSnapshot"}
      BY <1>3 DEF Requests
  <2>2. CommitKnown(n, logOf, held)
      OBVIOUS
  <2> QED
      BY <1>1, <2>1, <2>2 DEF CommitKnown
<1> QED
    BY <1>1, <1>2, <1>3

\* A leader tells its followers of what it committed, and of no more than it sends.
LEMMA EntriesSentKnown ==
    ASSUME Typed, Typed', DiskInSync, [Next]_vars,
           NEW led, NEW logOf, NEW held, NEW led2, NEW logOf2, NEW held2,
           Along(led, logOf, held, led2, logOf2, held2), CommitInv(logOf, held),
           NEW m, EntriesSent(m)
    PROVE  CommitKnown(m, logOf2, held2)
<1>1. PICK i, j \in Server :
         /\ SendAppendEntries(i, j)
         /\ m = [type |-> "AppendEntries", src |-> i, dst |-> j,
                 term |-> currentTerm[i], prev |-> nextIndex[i][j] - 1,
                 prevTerm |-> TermAt(log[i], nextIndex[i][j] - 1),
                 entries |-> SubSeq(log[i], nextIndex[i][j] - 1 + 1, LastLogIndex(i)),
                 commit |-> commitIndex[i], live |-> TRUE]
    BY DEF EntriesSent
<1>2. /\ m.type = "AppendEntries" /\ m.term = currentTerm[i] /\ m.prev = nextIndex[i][j] - 1
      /\ m.entries = SubSeq(log[i], nextIndex[i][j] - 1 + 1, Len(log[i]))
      /\ m.commit = commitIndex[i]
    BY <1>1 DEF LastLogIndex
<1>3. /\ state'[i] = "Leader" /\ currentTerm'[i] = currentTerm[i] /\ log'[i] = log[i]
      /\ nextIndex[i][j] - 1 \in lii[i] .. Len(log[i])
    BY <1>1 DEF SendAppendEntries, termVars, logVars, LastLogIndex
<1>4. logOf2[currentTerm[i]] = log[i]
    BY <1>3 DEF Along, LogInv, LeadersKnown
<1>5. /\ commitIndex[i] \in Nat /\ commitIndex[i] <= Len(log[i])
      /\ Settled(log[i], commitIndex[i], currentTerm[i], logOf2, held2)
    BY AlongGrown, CommittedInLeaders DEF CommitInv
<1>6. log[i] \in Seq(Nat) /\ lii[i] \in Nat /\ Len(log[i]) \in Nat /\ nextIndex[i][j] \in Nat
    BY LenProperties DEF Typed, PeersTyped, LogsTyped
<1>7. m.prev + Len(m.entries) = Len(log[i])
  <2>1. PICK p \in 0 .. Len(log[i]) : p = nextIndex[i][j] - 1
      BY <1>3, <1>6
  <2>2. m.entries = SubSeq(log[i], p + 1, Len(log[i])) /\ m.prev = p
      BY <1>2, <2>1
  <2>3. Len(m.entries) = Len(log[i]) - p
      BY <2>2, <1>6, RestOf
  <2> QED
      BY <2>2, <2>3, <1>6
<1>8. Settled(logOf2[m.term], m.commit, m.term, logOf2, held2)
    BY <1>2, <1>4, <1>5
<1> QED
    BY <1>2, <1>5, <1>7, <1>8 DEF CommitKnown

\* ... and sends a snapshot of what it committed.
LEMMA SnapshotSentKnown ==
    ASSUME Typed, Typed', DiskInSync, [Next]_vars,
           NEW led, NEW logOf, NEW held, NEW led2, NEW logOf2, NEW held2,
           Along(led, logOf, held, led2, logOf2, held2), CommitInv(logOf, held),
           NEW m, SnapshotSent(m)
    PROVE  CommitKnown(m, logOf2, held2)
<1>1. PICK i, j \in Server :
         /\ SendInstallSnapshot(i, j) /\ state[i] = "Leader"
         /\ m = [type |-> "InstallSnapshot", src |-> i, dst |-> j,
                 term |-> currentTerm[i], lii |-> lii[i],
                 data |-> SubSeq(log[i], 1, lii[i]), live |-> TRUE]
    BY DEF SnapshotSent
<1>2. m.type = "InstallSnapshot" /\ m.term = currentTerm[i] /\ m.lii = lii[i]
    BY <1>1
<1>3. state'[i] = "Leader" /\ currentTerm'[i] = currentTerm[i] /\ log'[i] = log[i]
    BY <1>1 DEF SendInstallSnapshot, termVars, logVars
<1>4. logOf2[currentTerm[i]] = log[i]
    BY <1>3 DEF Along, LogInv, LeadersKnown
<1>5. /\ commitIndex[i] \in Nat /\ lii[i] <= commitIndex[i]
      /\ Settled(log[i], commitIndex[i], currentTerm[i], logOf2, held2)
    BY AlongGrown, CommittedInLeaders DEF CommitInv
<1>6. log[i] \in Seq(Nat) /\ lii[i] \in Nat
    BY DEF Typed, LogsTyped
<1>7. Settled(log[i], lii[i], currentTerm[i], logOf2, held2)
    BY <1>5, <1>6, SettledLess
<1> QED
    BY <1>2, <1>4, <1>7 DEF CommitKnown

\* A follower acknowledges what its log now shares with its leader's.
LEMMA AcceptedKnown ==
    ASSUME Typed, Typed', NEW led, NEW logOf, NEW held, NEW led2, NEW logOf2, NEW held2,
           Along(led, logOf, held, led2, logOf2, held2), NEW n \in rpc, AcceptEntries(n)
    PROVE  HeldUpTo(n.dst, n.term, n.prev + Len(n.entries), logOf2, held2)
<1>1. Grown(led, logOf, held, led2, logOf2, held2) /\ HoldingHeld(held2)'
    BY AlongGrown DEF Along, HeldInv
<1>2. /\ n.dst \in Server /\ n.term \in DOMAIN logOf /\ currentTerm'[n.dst] = n.term
      /\ n.prev + Len(n.entries) \in Nat /\ logOf[n.term] \in Seq(Nat)
      /\ Adopts(log[n.dst], log'[n.dst], logOf[n.term], n.prev + Len(n.entries))
    BY AcceptAdopts DEF Along
<1>3. PICK c \in Nat : c = n.prev + Len(n.entries)
    BY <1>2
<1>4. log[n.dst] \in Seq(Nat) /\ log'[n.dst] \in Seq(Nat) /\ Adopts(log[n.dst], log'[n.dst], logOf[n.term], c)
    BY <1>2, <1>3 DEF Typed, LogsTyped
<1>5. c <= Len(log'[n.dst]) /\ SamePrefix(log'[n.dst], logOf[n.term], c) /\ c <= Len(logOf[n.term])
  <2>1. c <= Len(log'[n.dst]) /\ SamePrefix(log'[n.dst], logOf[n.term], c)
      BY <1>2, <1>4, AdoptsPrefix
  <2> QED
      BY <2>1, <1>4 DEF Adopts
<1>6. /\ n.term \in DOMAIN logOf2 /\ logOf2[n.term] \in Seq(Nat)
      /\ Len(logOf[n.term]) <= Len(logOf2[n.term])
      /\ SamePrefix(logOf[n.term], logOf2[n.term], Len(logOf[n.term]))
    BY <1>1, <1>2 DEF Grown, HistoryOK, Extends
<1>7. c <= Len(logOf2[n.term]) /\ SamePrefix(log'[n.dst], logOf2[n.term], c)
    BY <1>2, <1>5, <1>6, PrefixGoesOn
<1>8. HeldUpTo(n.dst, currentTerm'[n.dst], c, logOf2, held2)
    BY <1>1, <1>2, <1>5, <1>6, <1>7, HeldByPrefix DEF Grown
<1> QED
    BY <1>2, <1>3, <1>8

\* A peer that answers an InstallSnapshot holds what the snapshot covers.
LEMMA InstalledKnown ==
    ASSUME Typed, Typed', DiskInSync, [Next]_vars,
           NEW led, NEW logOf, NEW held, NEW led2, NEW logOf2, NEW held2,
           Along(led, logOf, held, led2, logOf2, held2), CommitInv(logOf, held),
           NEW n \in rpc, HandleInstallSnapshot(n)
    PROVE  HeldUpTo(n.dst, n.term, n.lii, logOf2, held2)
<1>1. Grown(led, logOf, held, led2, logOf2, held2) /\ HoldingHeld(held2)'
    BY AlongGrown DEF Along, HeldInv
<1>2. n.type = "InstallSnapshot" /\ n.dst \in Server /\ n.lii \in Nat /\ n.term \in Nat
    BY MessageTypes DEF HandleInstallSnapshot, Typed
<1>3. n.term \in DOMAIN logOf
    BY <1>2 DEF Along, LogInv, MessagesKnown, RequestKnown
<1>4. currentTerm'[n.dst] = n.term /\ currentTerm[n.dst] <= n.term
  <2>1. n.term >= currentTerm[n.dst] /\ Follow(n.dst, n.term)
      BY DEF HandleInstallSnapshot
  <2> QED
      BY <2>1, <1>2 DEF Follow, Typed, PeersTyped
<1>5. /\ n.term \in DOMAIN logOf2 /\ logOf2[n.term] \in Seq(Nat) /\ logOf[n.term] \in Seq(Nat)
      /\ Len(logOf[n.term]) <= Len(logOf2[n.term])
      /\ SamePrefix(logOf[n.term], logOf2[n.term], Len(logOf[n.term]))
      /\ log[n.dst] \in Seq(Nat) /\ log'[n.dst] \in Seq(Nat)
    BY <1>1, <1>2, <1>3 DEF Grown, HistoryOK, Extends, Typed, LogsTyped
<1>6. /\ n.lii <= Len(log'[n.dst]) /\ n.lii <= Len(logOf2[n.term])
      /\ SamePrefix(log'[n.dst], logOf2[n.term], n.lii)
  <2>1. CASE n.lii > lii[n.dst]
    <3>1. Adopts(log[n.dst], log'[n.dst], logOf[n.term], n.lii)
        BY <2>1, SnapshotAdopts DEF Along
    <3>2. /\ n.lii <= Len(log'[n.dst]) /\ SamePrefix(log'[n.dst], logOf[n.term], n.lii)
          /\ n.lii <= Len(logOf[n.term])
      <4>1. n.lii <= Len(log'[n.dst]) /\ SamePrefix(log'[n.dst], logOf[n.term], n.lii)
          BY <1>2, <1>5, <3>1, AdoptsPrefix
      <4> QED
          BY <4>1, <3>1 DEF Adopts
    <3> QED
        BY <3>2, <1>2, <1>5, PrefixGoesOn
  <2>2. CASE ~(n.lii > lii[n.dst])
    <3>1. log'[n.dst] = log[n.dst]
        BY <2>2 DEF HandleInstallSnapshot, logVars
    <3>2. /\ commitIndex[n.dst] \in Nat /\ commitIndex[n.dst] <= Len(log[n.dst])
          /\ lii[n.dst] <= commitIndex[n.dst] /\ lii[n.dst] \in Nat
          /\ commitIndex[n.dst] <= Len(logOf2[n.term])
          /\ SamePrefix(log[n.dst], logOf2[n.term], commitIndex[n.dst])
        BY <1>1, <1>2, <1>4, <1>5, CommittedInLeaders DEF CommitInv, Typed, LogsTyped
    <3>3. Len(log[n.dst]) \in Nat /\ Len(logOf2[n.term]) \in Nat
        BY <1>5, LenProperties
    <3> QED
        BY <2>2, <3>1, <3>2, <3>3, <1>2 DEF SamePrefix
  <2> QED
      BY <2>1, <2>2
<1>7. HeldUpTo(n.dst, currentTerm'[n.dst], n.lii, logOf2, held2)
    BY <1>1, <1>2, <1>4, <1>5, <1>6, HeldByPrefix DEF Grown
<1> QED
    BY <1>4, <1>7

\* A follower never tells its leader to go on past the leader's log.
LEMMA RefusedKnown ==
    ASSUME Typed, NEW led, NEW logOf, NEW held, NEW led2, NEW logOf2, NEW held2,
           Along(led, logOf, held, led2, logOf2, held2), CommitInv(logOf, held),
           NEW n \in rpc, RefuseEntries(n), NEW ct, NEW ci \in Nat, Conflict(n.dst, n, ct, ci)
    PROVE  n.term \in DOMAIN logOf2 /\ ci <= Len(logOf2[n.term]) + 1
<1>1. Grown(led, logOf, held, led2, logOf2, held2)
    BY AlongGrown
<1>2. /\ n.type = "AppendEntries" /\ n.dst \in Server /\ n.prev \in Nat /\ n.term \in Nat
      /\ Len(n.entries) \in Nat
    BY MessageTypes, LenProperties DEF RefuseEntries, Typed
<1>3. n.term \in DOMAIN logOf /\ n.prev + Len(n.entries) <= Len(logOf[n.term])
    BY <1>2 DEF Along, LogInv, MessagesKnown, RequestKnown
<1>4. /\ n.term \in DOMAIN logOf2 /\ Len(logOf[n.term]) <= Len(logOf2[n.term])
      /\ Len(logOf[n.term]) \in Nat /\ Len(logOf2[n.term]) \in Nat
    BY <1>1, <1>3, LenProperties DEF Grown, HistoryOK, Extends
<1>5. currentTerm[n.dst] <= n.term
    BY <1>2 DEF RefuseEntries, Typed, PeersTyped
<1>6. /\ lii[n.dst] \in Nat /\ lii[n.dst] <= commitIndex[n.dst] /\ commitIndex[n.dst] \in Nat
      /\ commitIndex[n.dst] <= Len(logOf2[n.term])
    BY <1>1, <1>2, <1>4, <1>5, CommittedInLeaders DEF CommitInv, Typed, LogsTyped
<1>7. LastLogIndex(n.dst) \in Nat
    BY <1>2, LastTermType DEF Typed
<1>8. ci = lii[n.dst] + 1 \/ ci <= n.prev
    BY <1>2, <1>6, <1>7 DEF Conflict
<1> QED
    BY <1>2, <1>3, <1>4, <1>6, <1>8

LEMMA CommitKnownNext ==
    ASSUME Typed, Typed', DiskInSync, [Next]_vars,
           NEW led, NEW logOf, NEW held, NEW led2, NEW logOf2, NEW held2,
           Along(led, logOf, held, led2, logOf2, held2), CommitInv(logOf, held),
           NEW m \in rpc'
    PROVE  CommitKnown(m, logOf2, held2)
<1>1. CASE Old(m)
  <2>1. \A n \in rpc : CommitKnown(n, logOf2, held2)
      BY CommitKnownGoesOn DEF CommitInv
  <2> QED
      BY <1>1, <2>1, OldCommitKnown
<1>2. CASE VoteAsked(m)
  <2>1. m.type = "RequestVote"
      BY <1>2 DEF VoteAsked
  <2> QED
      BY <2>1 DEF CommitKnown
<1>3. CASE VoteAnswered(m)
  <2>1. m.type = "VoteReply"
      BY <1>3 DEF VoteAnswered
  <2> QED
      BY <2>1 DEF CommitKnown
<1>4. CASE EntriesSent(m)
    BY <1>4, EntriesSentKnown
<1>5. CASE SnapshotSent(m)
    BY <1>5, SnapshotSentKnown
<1>6. CASE EntriesAnswered(m)
  <2>1. PICK n \in rpc :
            /\ m.type = "AppendReply" /\ m.src = n.dst /\ m.asked = n.term
            /\ \/ m.ok /\ AcceptEntries(n) /\ m.match = n.prev + Len(n.entries)
               \/ ~m.ok /\ m.conflictIndex = 0
               \/ ~m.ok /\ RefuseEntries(n) /\ \E ct : Conflict(n.dst, n, ct, m.conflictIndex)
      BY <1>6 DEF EntriesAnswered
  <2>2. CASE m.ok /\ AcceptEntries(n) /\ m.match = n.prev + Len(n.entries)
    <3>1. HeldUpTo(m.src, m.asked, m.match, logOf2, held2)
        BY <2>1, <2>2, AcceptedKnown
    <3> QED
        BY <3>1, <2>1, <2>2 DEF CommitKnown
  <2>3. CASE ~m.ok /\ m.conflictIndex = 0
      BY <2>1, <2>3 DEF CommitKnown
  <2>4. ASSUME ~m.ok, RefuseEntries(n), NEW ct, Conflict(n.dst, n, ct, m.conflictIndex)
        PROVE  CommitKnown(m, logOf2, held2)
    <3>1. PICK ci \in Nat : ci = m.conflictIndex
        BY <2>1 DEF Typed, WellFormed, Requests, Replies
    <3>2. n.term \in DOMAIN logOf2 /\ ci <= Len(logOf2[n.term]) + 1
        BY <2>4, <3>1, RefusedKnown
    <3> QED
        BY <3>1, <3>2, <2>1, <2>4 DEF CommitKnown
  <2> QED
      BY <2>1, <2>2, <2>3, <2>4
<1>7. CASE SnapshotAnswered(m)
  <2>1. PICK n \in rpc :
            /\ n.type = "InstallSnapshot" /\ m.type = "SnapshotReply"
            /\ m.src = n.dst /\ m.asked = n.term /\ m.lii = n.lii
            /\ \/ m.term = n.term /\ HandleInstallSnapshot(n)
               \/ m.term = currentTerm[n.dst] /\ n.term < m.term
      BY <1>7 DEF SnapshotAnswered
  <2>2. CASE m.term = n.term /\ HandleInstallSnapshot(n)
    <3>1. HeldUpTo(m.src, m.asked, m.lii, logOf2, held2)
        BY <2>1, <2>2, InstalledKnown
    <3>2. m.asked <= m.term
        BY <2>1, <2>2, MessageTypes DEF Typed
    <3> QED
        BY <3>1, <3>2, <2>1 DEF CommitKnown
  <2>3. CASE m.term = currentTerm[n.dst] /\ n.term < m.term
    <3>1. n.term \in Nat /\ n.dst \in Server /\ m.term \in Nat
        BY <2>3, MessageTypes DEF Typed, PeersTyped
    <3>2. m.asked <= m.term /\ m.asked # m.term
        BY <2>1, <2>3, <3>1
    <3> QED
        BY <3>2, <2>1 DEF CommitKnown
  <2> QED
      BY <2>1, <2>2, <2>3
<1> QED
    BY <1>1, <1>2, <1>3, <1>4, <1>5, <1>6, <1>7, MessageStep DEF Sent

\* What is committed, and what is told of it, goes on through every step.
LEMMA CommitInvGoesOn ==
    ASSUME Typed, Typed', ElectionInv, ElectionInv', [Next]_vars, NoLateReplies,
           NEW led, NEW logOf, NEW held, NEW led2, NEW logOf2, NEW held2,
           Along(led, logOf, held, led2, logOf2, held2), CommitInv(logOf, held)
    PROVE  CommitInv(logOf2, held2)'
<1>1. DiskInSync
    BY DEF ElectionInv
<1>2. LeadersMatch(logOf2, held2)'
    BY LeadersMatchGoOn
<1>3. CommitsSettled(logOf2, held2)'
    BY <1>1, <1>2, CommitsSettledGoOn
<1>4. \A m \in rpc' : CommitKnown(m, logOf2, held2)
    BY <1>1, CommitKnownNext
<1>5. \A m \in rpc' : CommitKnown(m, logOf2, held2)'
    BY <1>4 DEF CommitKnown, Settled, HeldUpTo, Chosen
<1> QED
    BY <1>2, <1>3, <1>5 DEF CommitInv

----------------------------------------------------------------------------
(* The invariant *)

\* Before the first step nobody led and nobody held anything.
LEMMA InitHistory ==
    ASSUME Init
    PROVE  HistoryInv
<1>1. PICK led, logOf, held :
          /\ logOf = [t \in {} |-> <<>>] /\ led = logOf /\ held = {}
    OBVIOUS
<1>2. DOMAIN logOf = {}
    BY <1>1
<1>3. LogInv(led, logOf)
  <2>1. HistoryOK(led, logOf) /\ ElectionsHeld(led, logOf)
      BY <1>2 DEF HistoryOK, ElectionsHeld
  <2>2. LeadersKnown(led, logOf)
      BY DEF Init, LeadersKnown
  <2>3. LogsKnown(logOf)
      BY DEF Init, LogsKnown, FromLeaders
  <2>4. MessagesKnown(led, logOf)
      BY DEF Init, MessagesKnown
  <2> QED
      BY <2>1, <2>2, <2>3, <2>4 DEF LogInv
<1>4. HeldInv(logOf, held)
  <2>1. HeldKept(logOf, held)
      BY <1>1 DEF HeldKept
  <2>2. HoldingHeld(held)
      BY DEF Init, HoldingHeld
  <2>3. VotesSound(logOf, held)
      BY DEF Init, VotesSound
  <2>4. LeadersSafe(logOf, held)
      BY <1>2 DEF LeadersSafe
  <2> QED
      BY <2>1, <2>2, <2>3, <2>4 DEF HeldInv
<1>5. CommitInv(logOf, held)
  <2>1. CommitsSettled(logOf, held)
      BY DEF Init, CommitsSettled, Settled
  <2>2. LeadersMatch(logOf, held)
      BY DEF Init, LeadersMatch
  <2>3. \A m \in rpc : CommitKnown(m, logOf, held)
      BY DEF Init
  <2> QED
      BY <2>1, <2>2, <2>3 DEF CommitInv
<1> QED
    BY <1>3, <1>4, <1>5 DEF HistoryInv

\* Each step goes on with the history before it.
LEMMA StepAlong ==
    ASSUME Typed, Typed', ElectionInv, ElectionInv', [Next]_vars,
           NEW led, NEW logOf, NEW held, LogInv(led, logOf), HeldInv(logOf, held)
    PROVE  \E led2, logOf2, held2 : Along(led, logOf, held, led2, logOf2, held2)
<1>1. PICK led2, logOf2 : LogInv(led2, logOf2)' /\ HistoryStep(led, logOf, led2, logOf2)
    BY LogInvGoesOn
<1>2. PICK held2 : HeldStep(held, held2) /\ HeldInv(logOf2, held2)'
    BY <1>1, HeldInvGoesOn
<1> QED
    BY <1>1, <1>2 DEF Along

\* The history explains every state that is reached.
THEOREM HistoryHolds == Spec => []HistoryInv
<1>1. Init => HistoryInv
    BY InitHistory
<1>2. TypeOK /\ TypeOK' /\ ElectionInv /\ ElectionInv' /\ HistoryInv /\ [Next]_vars => HistoryInv'
  <2> SUFFICES ASSUME Typed, Typed', ElectionInv, ElectionInv', HistoryInv, [Next]_vars
               PROVE  HistoryInv'
      BY TypedIsTypeOK DEF Typed, TypeOK, SnapshotWithinLog,
         PeersTyped, LogsTyped, DisksTyped, DiskType, WellFormed
  <2>1. PICK led, logOf, held : /\ LogInv(led, logOf) /\ HeldInv(logOf, held)
                                /\ NoLateReplies => CommitInv(logOf, held)
      BY DEF HistoryInv
  <2>2. PICK led2, logOf2, held2 : Along(led, logOf, held, led2, logOf2, held2)
      BY <2>1, StepAlong
  <2>3. NoLateReplies => CommitInv(logOf2, held2)'
      BY <2>1, <2>2, CommitInvGoesOn
  <2> QED
      BY <2>2, <2>3 DEF HistoryInv, Along, NoLateReplies
<1> QED
    BY <1>1, <1>2, TypeCorrect, VotesBinding, PTL DEF Spec

----------------------------------------------------------------------------
(* What follows *)

\* Two logs that hold an entry of the same term at the same index are the same
\* up to it, whatever AppendEntries (raft.go) cuts and overlays and whatever
\* InstallSnapshot replaces, with replies as late as they may be.
THEOREM LogsMatch == Spec => []LogMatching
<1>1. TypeOK /\ HistoryInv => LogMatching
    BY TypedIsTypeOK, FromLeadersMatch DEF HistoryInv, LogInv
<1> QED
    BY <1>1, HistoryHolds, TypeCorrect, PTL

LEMMA SafeHaveChosen ==
    ASSUME NEW logOf, NEW held, LeadersSafe(logOf, held)
    PROVE  LeadersHaveChosen(logOf, held)
<1> SUFFICES ASSUME NEW u \in DOMAIN logOf, NEW t \in Nat, NEW n \in Nat,
                    t < u, Chosen(t, n, logOf, held), ~Holds(logOf[u], n, t)
             PROVE  FALSE
    BY DEF LeadersHaveChosen
<1>1. Blocked(t, n, held)
    BY DEF LeadersSafe
<1> QED
    BY <1>1, ChosenNotBlocked

\* The history as it is, seen as one that has not grown.
LEMMA GrownAsIs ==
    ASSUME NEW led, NEW logOf, NEW held, LogInv(led, logOf), HeldInv(logOf, held)
    PROVE  Grown(led, logOf, held, led, logOf, held)
<1>1. LeadersHaveChosen(logOf, held)
    BY SafeHaveChosen DEF HeldInv
<1>2. ASSUME NEW t \in DOMAIN logOf
      PROVE  /\ Len(logOf[t]) <= Len(logOf[t])
             /\ SamePrefix(logOf[t], logOf[t], Len(logOf[t]))
             /\ \A k \in Len(logOf[t]) + 1 .. Len(logOf[t]) : logOf[t][k] = t
  <2>1. Len(logOf[t]) \in Nat
      BY LenProperties DEF LogInv, HistoryOK
  <2> QED
      BY <2>1 DEF SamePrefix
<1> QED
    BY <1>1, <1>2 DEF Grown, Extends, LogInv

\* Whatever a peer takes to be committed, by the leader's commit index in an
\* AppendEntries, by a snapshot or by checkCommit (raft.go), each leader of its
\* term and of later ones has, when broadcastHeartBeat gets no reply of an
\* earlier term: then no leader overwrites what a service applied.
THEOREM LeadersComplete == ASSUME NoLateReplies PROVE Spec => []LeaderCompleteness
<1>1. TypeOK /\ HistoryInv => LeaderCompleteness
  <2> SUFFICES ASSUME Typed, HistoryInv, NEW l \in Server, NEW i \in Server,
                      state[l] = "Leader", currentTerm[l] >= currentTerm[i]
               PROVE  /\ commitIndex[i] <= Len(log[l])
                      /\ SubSeq(log[l], 1, commitIndex[i]) = SubSeq(log[i], 1, commitIndex[i])
      BY TypedIsTypeOK DEF LeaderCompleteness
  <2>1. PICK led, logOf, held : /\ LogInv(led, logOf) /\ HeldInv(logOf, held)
                                /\ CommitInv(logOf, held)
      BY DEF HistoryInv
  <2>2. Grown(led, logOf, held, led, logOf, held)
      BY <2>1, GrownAsIs
  <2>3. currentTerm[l] \in DOMAIN logOf /\ logOf[currentTerm[l]] = log[l]
      BY <2>1 DEF LogInv, LeadersKnown
  <2>4. /\ log[l] \in Seq(Nat) /\ log[i] \in Seq(Nat)
        /\ currentTerm[l] \in Nat /\ currentTerm[i] \in Nat
      BY DEF Typed, PeersTyped, LogsTyped
  <2>5. /\ commitIndex[i] \in Nat /\ commitIndex[i] <= Len(log[i]) /\ commitIndex[i] <= Len(log[l])
        /\ SamePrefix(log[i], log[l], commitIndex[i])
      BY <2>1, <2>2, <2>3, <2>4, CommittedInLeaders DEF CommitInv
  <2> QED
      BY <2>4, <2>5, SamePrefixSubSeq
<1> QED
    BY <1>1, HistoryHolds, TypeCorrect, PTL

\* An entry that checkCommit (raft.go) commits in the leader's own term is with
\* a majority, and stays there: nobody overwrites it, not even after crashes.
THEOREM CommitsHaveQuorum == ASSUME NoLateReplies PROVE Spec => []CommitHasQuorum
<1>1. TypeOK /\ HistoryInv => CommitHasQuorum
  <2> SUFFICES ASSUME Typed, HistoryInv, NEW l \in Server,
                      NEW k \in 1 .. AtMost(commitIndex[l], Len(log[l])),
                      state[l] = "Leader", log[l][k] = currentTerm[l]
               PROVE  Majority({i \in Server : k \in DOMAIN log[i] /\ log[i][k] = log[l][k]})
      BY TypedIsTypeOK DEF CommitHasQuorum
  <2>1. PICK led, logOf, held : /\ LogInv(led, logOf) /\ HeldInv(logOf, held)
                                /\ CommitInv(logOf, held)
      BY DEF HistoryInv
  <2>2. PICK T \in Nat : T = currentTerm[l]
      BY DEF Typed, PeersTyped
  <2>3. commitIndex[l] \in Nat /\ Len(log[l]) \in Nat
      BY LenProperties DEF Typed, PeersTyped, LogsTyped
  <2>4. k \in Nat /\ 0 < k /\ k <= commitIndex[l]
      BY <2>3 DEF AtMost
  <2>5. PICK t \in DOMAIN logOf, n \in Nat : /\ t <= T /\ commitIndex[l] <= n
                                             /\ Chosen(t, n, logOf, held)
                                             /\ SamePrefix(log[l], logOf[t], commitIndex[l])
      BY <2>1, <2>2, <2>3, <2>4 DEF CommitInv, CommitsSettled, Settled
  <2>6. /\ t \in Nat /\ logOf[t] \in Seq(Nat) /\ Len(logOf[t]) \in Nat
        /\ n \in 1 .. Len(logOf[t]) /\ logOf[t][n] = t
        /\ \A h \in 1 .. Len(logOf[t]) : logOf[t][h] <= t
      BY <2>1, <2>5, LenProperties DEF LogInv, HistoryOK, Chosen, Holds
  <2>7. k \in 1 .. Len(logOf[t]) /\ k \in 1 .. n /\ logOf[t][k] = T
      BY <2>2, <2>3, <2>4, <2>5, <2>6 DEF SamePrefix
  <2>8. t = T
      BY <2>5, <2>6, <2>7
  <2>9. LeadersHaveChosen(logOf, held)
      BY <2>1, SafeHaveChosen DEF HeldInv
  <2>10. ASSUME NEW q \in Server, <<q, t, n>> \in held
         PROVE  k \in DOMAIN log[q] /\ log[q][k] = log[l][k]
    <3>1. Holds(log[q], n, t) \/ Passed(t, n, currentTerm[q], logOf)
        BY <2>1, <2>6, <2>10 DEF HeldInv, HeldKept
    <3>2. ~Passed(t, n, currentTerm[q], logOf)
        BY <2>5, <2>6, <2>9 DEF Passed, LeadersHaveChosen
    <3>3. log[q] \in Seq(Nat) /\ Len(log[q]) \in Nat /\ n \in 1 .. Len(log[q]) /\ log[q][n] = t
        BY <3>1, <3>2, LenProperties DEF Holds, Typed, LogsTyped
    <3>4. SamePrefix(log[q], logOf[t], n)
        BY <3>3, <2>1 DEF LogInv, LogsKnown, FromLeaders
    <3>5. log[q][k] = T
        BY <3>4, <2>7 DEF SamePrefix
    <3>6. k \in DOMAIN log[q]
        BY <3>3, <2>7, LenProperties
    <3> QED
        BY <3>5, <3>6, <2>2
  <2>11. Majority({q \in Server : <<q, t, n>> \in held})
      BY <2>5 DEF Chosen
  <2> QED
      BY <2>10, <2>11, MoreIsMajority
<1> QED
    BY <1>1, HistoryHolds, TypeCorrect, PTL

\* getLogTerm (raft.go) is never asked for an entry past the end of the leader's
\* log: neither an acknowledgement nor a conflict index that is told goes there.
THEOREM NextIndexesInLog == ASSUME NoLateReplies PROVE Spec => []NextIndexInLog
<1>1. HistoryInv => NextIndexInLog
    BY DEF HistoryInv, CommitInv, LeadersMatch, NextIndexInLog
<1> QED
    BY <1>1, HistoryHolds, PTL

\* Snapshot and InstallSnapshot (raft.go) compact only what is committed, and a
\* peer commits only what its log has.
THEOREM CompactsCommitted == ASSUME NoLateReplies PROVE Spec => []CompactedCommittedHeld
<1>1. HistoryInv => CompactedCommittedHeld
    BY DEF HistoryInv, CommitInv, CommitsSettled, Settled, CompactedCommittedHeld, LastLogIndex
<1> QED
    BY <1>1, HistoryHolds, PTL

\* No step takes out of a peer's log what the peer has committed.
THEOREM CommittedStays == ASSUME NoLateReplies PROVE Spec => CommittedKept
<1> DEFINE Kept == \A i \in Server :
                      /\ commitIndex[i] <= Len(log'[i])
                      /\ SubSeq(log'[i], 1, commitIndex[i]) = SubSeq(log[i], 1, commitIndex[i])
<1>1. TypeOK /\ TypeOK' /\ ElectionInv /\ ElectionInv' /\ HistoryInv /\ [Next]_vars => [Kept]_vars
  <2> SUFFICES ASSUME Typed, Typed', ElectionInv, ElectionInv', HistoryInv, [Next]_vars,
                      NEW i \in Server
               PROVE  /\ commitIndex[i] <= Len(log'[i])
                      /\ SubSeq(log'[i], 1, commitIndex[i]) = SubSeq(log[i], 1, commitIndex[i])
      BY TypedIsTypeOK DEF Typed, TypeOK, SnapshotWithinLog,
         PeersTyped, LogsTyped, DisksTyped, DiskType, WellFormed
  <2>1. PICK led, logOf, held : /\ LogInv(led, logOf) /\ HeldInv(logOf, held)
                                /\ CommitInv(logOf, held)
      BY DEF HistoryInv
  <2>2. PICK led2, logOf2, held2 : Along(led, logOf, held, led2, logOf2, held2)
      BY <2>1, StepAlong
  <2>3. commitIndex[i] <= Len(log'[i]) /\ SamePrefix(log'[i], log[i], commitIndex[i])
      BY <2>1, <2>2, CommittedGoesOn DEF CommitInv, ElectionInv
  <2>4. /\ log[i] \in Seq(Nat) /\ log'[i] \in Seq(Nat) /\ commitIndex[i] \in Nat
        /\ commitIndex[i] <= Len(log[i])
      BY <2>1 DEF Typed, PeersTyped, LogsTyped, CommitInv, CommitsSettled, Settled
  <2> QED
      BY <2>3, <2>4, SamePrefixSubSeq
<1>2. CommittedKept <=> [][Kept]_vars
    BY DEF CommittedKept
<1> QED
    BY <1>1, <1>2, HistoryHolds, TypeCorrect, VotesBinding, PTL DEF Spec

\* AppendEntries's commit index is no greater than what the request covers, so
\* taking the lesser of the two never takes the follower back, and neither does
\* InstallSnapshot nor checkCommit: only a restart does.
THEOREM CommitsRise == ASSUME NoLateReplies PROVE Spec => CommitMonotonic
<1> DEFINE Rises == \A i \in Server : commitIndex'[i] >= commitIndex[i] \/ Restart(i)
<1>1. TypeOK /\ TypeOK' /\ ElectionInv /\ HistoryInv /\ [Next]_vars => [Rises]_vars
  <2> SUFFICES ASSUME Typed, Typed', ElectionInv, HistoryInv, [Next]_vars, NEW i \in Server
               PROVE  commitIndex'[i] >= commitIndex[i] \/ Restart(i)
      BY TypedIsTypeOK DEF Typed, TypeOK, SnapshotWithinLog,
         PeersTyped, LogsTyped, DisksTyped, DiskType, WellFormed
  <2>1. PICK logOf, held : CommitInv(logOf, held)
      BY DEF HistoryInv
  <2>2. commitIndex[i] \in Nat /\ commitIndex'[i] \in Nat
      BY DEF Typed, PeersTyped
  <2>3. CASE commitIndex'[i] = commitIndex[i] \/ Restart(i)
      BY <2>2, <2>3
  <2>4. ASSUME NEW m \in rpc, AcceptEntries(m), commitIndex'[i] = FollowerCommit(i, m)
        PROVE  commitIndex'[i] >= commitIndex[i]
    <3>1. m.type = "AppendEntries"
        BY <2>4 DEF AcceptEntries
    <3>2. m.commit \in Nat /\ m.prev \in Nat /\ Len(m.entries) \in Nat
        BY <3>1, MessageTypes, LenProperties DEF Typed
    <3>3. m.commit <= m.prev + Len(m.entries)
        BY <2>1, <3>1 DEF CommitInv, CommitKnown
    <3> QED
        BY <2>2, <2>4, <3>2, <3>3 DEF FollowerCommit, AtMost
  <2>5. ASSUME NEW m \in rpc, HandleInstallSnapshot(m), commitIndex'[i] = SnapshotCommit(i, m)
        PROVE  commitIndex'[i] >= commitIndex[i]
    <3>1. m.lii \in Nat
        BY <2>5, MessageTypes DEF Typed, HandleInstallSnapshot
    <3> QED
        BY <2>2, <2>5, <3>1 DEF SnapshotCommit, AtLeast
  <2>6. CASE NewCommit(i, matchIndex'[i], commitIndex'[i])
      BY <2>2, <2>6 DEF NewCommit, Committable
  <2>7. DiskInSync
      BY DEF ElectionInv
  <2> QED
      BY <2>3, <2>4, <2>5, <2>6, <2>7, CommitStep
<1>2. CommitMonotonic <=> [][Rises]_vars
    BY DEF CommitMonotonic
<1> QED
    BY <1>1, <1>2, HistoryHolds, TypeCorrect, VotesBinding, PTL DEF Spec

=============================================================================
