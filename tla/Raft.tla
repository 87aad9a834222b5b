-------------------------------- MODULE Raft --------------------------------
(***************************************************************************)
(* The Raft peer of distributed-system/lab-2/src/raft/raft.go: leader       *)
(* election, log replication, persistence and snapshots, as one action per  *)
(* critical section of rf.mu, over the network of labrpc, which loses,      *)
(* delays and reorders requests and replies and never duplicates them.      *)
(*                                                                          *)
(* A log entry is the term it was created in.  Its command is the one the   *)
(* leader of that term put at that index, so (index, term) identifies it.   *)
(* log[i] is the whole log of peer i from index 1 on: its first lii[i]      *)
(* entries are those the snapshot stands for (lii = lastIncludedIndex,      *)
(* lastIncludedTerm = term of entry lii), the others are rf.log[1:].        *)
(* rf.log[0], which repeats lastIncludedTerm, has no entry of its own here. *)
(***************************************************************************)
EXTENDS Integers, Sequences, FiniteSets

CONSTANTS
    Server,         \* the peers
    Nil             \* votedFor = -1

\* What a run lets the environment do.  Each is a bound and narrows no handler.
CONSTANTS
    Standing,       \* <<i, t>>: peer i's election timer may fire into term t
    Submitting,     \* <<i, t, k>>: clients may call Start on i leading in term t
                    \* when the new entry is the k-th
    MaxInFlight,    \* requests and replies the network holds at one time
    Links,          \* <<i, t, j>>: i's requests of term t can reach j
    Crashing,       \* the peers that may crash and restart
    Compacting,     \* the peers whose service takes snapshots
    LateReplies     \* replies asked for in these terms may arrive after them

ASSUME ServerAssumption ==
    /\ IsFiniteSet(Server)
    /\ Nil \notin Server

ASSUME BoundAssumption ==
    /\ Standing \subseteq Server \X Nat
    /\ Submitting \subseteq Server \X Nat \X Nat
    /\ Links \subseteq Server \X Nat \X Server
    /\ LateReplies \subseteq Nat

----------------------------------------------------------------------------
\* Persistent state, kept in memory and rewritten to disk by persist().
VARIABLES currentTerm, votedFor, log, lii
\* disk[i] is what the Persister of peer i holds.
VARIABLE disk
\* Volatile state of every peer.
VARIABLES state, commitIndex
\* votes[i]: the peers counted by votesReceived in i's current candidacy.
VARIABLE votes
\* Volatile state of a leader.
VARIABLES nextIndex, matchIndex
\* <<i, j>>: i's broadcast found j behind the snapshot, released rf.mu, and
\* has not taken it again in sendInstallSnapshot(j).
VARIABLE snapDue
\* The requests and the replies in flight.
VARIABLE rpc

termVars   == <<currentTerm, votedFor>>
logVars    == <<log, lii>>
leaderVars == <<nextIndex, matchIndex>>
vars == <<currentTerm, votedFor, log, lii, disk, state, commitIndex, votes,
          nextIndex, matchIndex, snapDue, rpc>>

----------------------------------------------------------------------------
Majority(S) == Cardinality(S) * 2 > Cardinality(Server)

LastLogIndex(i) == Len(log[i])

\* The term of entry k of a whole log; entry 0 is the initial dummy of term 0.
TermAt(l, k) == IF k = 0 THEN 0 ELSE l[k]

LastLogTerm(i) == TermAt(log[i], LastLogIndex(i))

AtLeast(a, b) == IF a >= b THEN a ELSE b
AtMost(a, b)  == IF a <= b THEN a ELSE b

\* Mutations of persist(): nothing is saved; the log is not.
PersistNothing(i) == UNCHANGED disk
PersistVoteOnly(i) ==
    disk' = [disk EXCEPT ![i].term = currentTerm'[i], ![i].vote = votedFor'[i]]

\* What persist() writes, once the handler has set the fields.
Persist(i) ==
    disk' = [disk EXCEPT ![i] = [term |-> currentTerm'[i], vote |-> votedFor'[i],
                                 log  |-> log'[i],         lii  |-> lii'[i]]]

\* The network takes `done` out and may lose any of the messages `sent`.
Exchange(done, sent) ==
    \E carried \in SUBSET sent :
        /\ rpc' = (rpc \ done) \cup carried
        /\ Cardinality(rpc') <= MaxInFlight

\* The reply to m: nobody waits for it when the caller has crashed since.
Answer(m, reply) == Exchange({m}, IF m.live THEN {reply} ELSE {})

Connected(i, t) == {j \in Server \ {i} : <<i, t, j>> \in Links}

----------------------------------------------------------------------------
Init ==
    /\ currentTerm = [i \in Server |-> 0]
    /\ votedFor    = [i \in Server |-> Nil]
    /\ log         = [i \in Server |-> <<>>]
    /\ lii         = [i \in Server |-> 0]
    /\ disk        = [i \in Server |-> [term |-> 0, vote |-> Nil, log |-> <<>>, lii |-> 0]]
    /\ state       = [i \in Server |-> "Follower"]
    /\ commitIndex = [i \in Server |-> 0]
    /\ votes       = [i \in Server |-> {}]
    /\ nextIndex   = [i \in Server |-> [j \in Server |-> 0]]
    /\ matchIndex  = [i \in Server |-> [j \in Server |-> 0]]
    /\ snapDue     = {}
    /\ rpc         = {}

----------------------------------------------------------------------------
(* Elections *)

\* The step-down of every handler that meets a higher term.
StepDown(i, t) ==
    /\ currentTerm' = [currentTerm EXCEPT ![i] = t]
    /\ votedFor'    = [votedFor EXCEPT ![i] = Nil]
    /\ state'       = [state EXCEPT ![i] = "Follower"]

\* ticker finds the election timer expired and runs startElection.
StartElection(i) ==
    /\ state[i] # "Leader"
    /\ <<i, currentTerm[i] + 1>> \in Standing
    /\ state'       = [state EXCEPT ![i] = "Candidate"]
    /\ currentTerm' = [currentTerm EXCEPT ![i] = @ + 1]
    /\ votedFor'    = [votedFor EXCEPT ![i] = i]
    /\ votes'       = [votes EXCEPT ![i] = {i}]
    /\ UNCHANGED <<logVars, commitIndex, leaderVars, snapDue>>
    /\ Persist(i)
    /\ Exchange({}, {[type |-> "RequestVote", src |-> i, dst |-> j,
                      term |-> currentTerm[i] + 1, lastIndex |-> LastLogIndex(i),
                      lastTerm |-> LastLogTerm(i), live |-> TRUE] : j \in Connected(i, currentTerm[i] + 1)})

\* RequestVote's logOK.
LogUpToDate(i, m) ==
    \/ m.lastTerm > LastLogTerm(i)
    \/ m.lastTerm = LastLogTerm(i) /\ m.lastIndex >= LastLogIndex(i)

\* A mutation of the grant: the vote given before is not looked at.
GrantsAgain(i, m, v) == LogUpToDate(i, m)

\* Whether peer i, its vote in m's term being v, votes for the caller.
Grants(i, m, v) == v \in {Nil, m.src} /\ LogUpToDate(i, m)

VoteReply(m, t, granted) ==
    [type |-> "VoteReply", src |-> m.dst, dst |-> m.src, term |-> t,
     granted |-> granted, asked |-> m.term]

\* RequestVote, for a request whose term is not behind.
HandleRequestVote(m) ==
    LET i   == m.dst
        new == m.term > currentTerm[i]
        v   == IF new THEN Nil ELSE votedFor[i]
        yes == Grants(i, m, v)
    IN  /\ m.type = "RequestVote"
        /\ m.term >= currentTerm[i]
        /\ currentTerm' = [currentTerm EXCEPT ![i] = m.term]
        /\ votedFor'    = [votedFor EXCEPT ![i] = IF yes THEN m.src ELSE v]
        /\ state'       = [state EXCEPT ![i] = IF new THEN "Follower" ELSE @]
        /\ UNCHANGED <<logVars, commitIndex, votes, leaderVars, snapDue>>
        /\ Persist(i)
        /\ Answer(m, VoteReply(m, m.term, yes))

\* A mutation of the reply check: the term asked in is not looked at.
CountsForAnyTerm(i, m) == state[i] = "Candidate"

\* The reply still belongs to the candidacy that asked for it.
CountsFor(i, m) == currentTerm[i] = m.asked /\ state[i] = "Candidate"

\* startElection's goroutine: the reply is out of date and changes nothing.
IgnoreVoteReply(m) ==
    /\ m.type = "VoteReply"
    /\ ~CountsFor(m.dst, m)
    /\ Exchange({m}, {})
    /\ UNCHANGED <<termVars, logVars, disk, state, commitIndex, votes, leaderVars, snapDue>>

\* startElection's goroutine: the voter is in a higher term.
VoteReplyStepDown(m) ==
    LET i == m.dst
    IN  /\ m.type = "VoteReply"
        /\ CountsFor(i, m)
        /\ m.term > currentTerm[i]
        /\ StepDown(i, m.term)
        /\ UNCHANGED <<logVars, commitIndex, votes, leaderVars, snapDue>>
        /\ Persist(i)
        /\ Exchange({m}, {})

\* Becoming leader: every peer is assumed to hold what this peer has compacted.
BecomeLeader(i) ==
    /\ state'      = [state EXCEPT ![i] = "Leader"]
    /\ nextIndex'  = [nextIndex EXCEPT ![i] = [j \in Server |-> LastLogIndex(i) + 1]]
    /\ matchIndex' = [matchIndex EXCEPT ![i] =
                        [j \in Server |-> IF j = i THEN LastLogIndex(i) ELSE lii[i]]]

\* startElection's goroutine: count the vote, lead on reaching a majority.
HandleVoteReply(m) ==
    LET i == m.dst
        v == IF m.granted THEN votes[i] \cup {m.src} ELSE votes[i]
    IN  /\ m.type = "VoteReply"
        /\ CountsFor(i, m)
        /\ m.term <= currentTerm[i]
        /\ votes' = [votes EXCEPT ![i] = v]
        /\ IF m.granted /\ Majority(v)
             THEN BecomeLeader(i)
             ELSE UNCHANGED <<state, leaderVars>>
        /\ UNCHANGED <<termVars, logVars, disk, commitIndex, snapDue>>
        /\ Exchange({m}, {})

----------------------------------------------------------------------------
(* Log replication *)

\* Start: a command reaches the leader.
Start(i) ==
    /\ state[i] = "Leader"
    /\ <<i, currentTerm[i], LastLogIndex(i) + 1>> \in Submitting
    /\ log' = [log EXCEPT ![i] = Append(@, currentTerm[i])]
    /\ UNCHANGED <<termVars, lii, state, commitIndex, votes, leaderVars, snapDue, rpc>>
    /\ Persist(i)

\* broadcastHeartBeat's goroutine for peer j, which finds j's next entry in the
\* log.  getLogTerm panics on an index past the end: such a step is no step.
SendAppendEntries(i, j) ==
    LET prev == nextIndex[i][j] - 1
    IN  /\ j \in Connected(i, currentTerm[i])
        /\ state[i] = "Leader"
        /\ prev \in lii[i] .. LastLogIndex(i)
        /\ Exchange({}, {[type |-> "AppendEntries", src |-> i, dst |-> j,
                          term |-> currentTerm[i], prev |-> prev,
                          prevTerm |-> TermAt(log[i], prev),
                          entries |-> SubSeq(log[i], prev + 1, LastLogIndex(i)),
                          commit |-> commitIndex[i], live |-> TRUE]})
        /\ UNCHANGED <<termVars, logVars, disk, state, commitIndex, votes,
                       leaderVars, snapDue>>

\* The same goroutine when j's next entry is compacted: it releases rf.mu on
\* its way to sendInstallSnapshot.
SnapshotNeeded(i, j) ==
    /\ j \in Connected(i, currentTerm[i])
    /\ state[i] = "Leader"
    /\ nextIndex[i][j] - 1 < lii[i]
    /\ snapDue' = snapDue \cup {<<i, j>>}
    /\ UNCHANGED <<termVars, logVars, disk, state, commitIndex, votes, leaderVars, rpc>>

\* A mutation of the overlay: no conflicting entry is deleted.
OverlayOnlyAppends(l, prev, entries) ==
    l \o SubSeq(entries, Len(l) - prev + 1, Len(entries))

\* What a log becomes when `entries` are laid over it after index prev: it is
\* cut at the first entry that differs, and only there.
Overlay(l, prev, entries) ==
    IF /\ prev + Len(entries) <= Len(l)
       /\ SubSeq(l, prev + 1, prev + Len(entries)) = entries
      THEN l
      ELSE SubSeq(l, 1, prev) \o entries

\* A mutation of the commit rule: the follower takes any commit index.
FollowerCommitAlways(i, m) == AtMost(m.commit, m.prev + Len(m.entries))

\* AppendEntries's new commit index, given the request's.
FollowerCommit(i, m) ==
    IF m.commit > commitIndex[i]
      THEN AtMost(m.commit, m.prev + Len(m.entries))
      ELSE commitIndex[i]

\* Accepting a request of the current or of a new leader.
Follow(i, t) ==
    /\ currentTerm' = [currentTerm EXCEPT ![i] = t]
    /\ votedFor'    = [votedFor EXCEPT ![i] = IF t > currentTerm[i] THEN Nil ELSE @]
    /\ state'       = [state EXCEPT ![i] =
                         IF t > currentTerm[i] \/ @ = "Candidate" THEN "Follower" ELSE @]

\* A mutation of the reply: it acknowledges the follower's whole log.
AppendReplyWhole(m, t, ok, match, conflictTerm, conflictIndex) ==
    [type |-> "AppendReply", src |-> m.dst, dst |-> m.src, term |-> t, ok |-> ok,
     match |-> LastLogIndex(m.dst), conflictTerm |-> conflictTerm,
     conflictIndex |-> conflictIndex, asked |-> m.term]

AppendReply(m, t, ok, match, conflictTerm, conflictIndex) ==
    [type |-> "AppendReply", src |-> m.dst, dst |-> m.src, term |-> t, ok |-> ok,
     match |-> match, conflictTerm |-> conflictTerm, conflictIndex |-> conflictIndex,
     asked |-> m.term]

\* Whether the request's previous entry is the one this peer holds there.
Consistent(i, m) ==
    /\ m.prev \in lii[i] .. LastLogIndex(i)
    /\ TermAt(log[i], m.prev) = m.prevTerm

\* AppendEntries: the previous entry agrees.
AcceptEntries(m) ==
    LET i == m.dst
    IN  /\ m.type = "AppendEntries"
        /\ m.term >= currentTerm[i]
        /\ Consistent(i, m)
        /\ Follow(i, m.term)
        /\ log' = [log EXCEPT ![i] = Overlay(@, m.prev, m.entries)]
        /\ commitIndex' = [commitIndex EXCEPT ![i] = FollowerCommit(i, m)]
        /\ UNCHANGED <<lii, votes, leaderVars, snapDue>>
        /\ Persist(i)
        /\ Answer(m, AppendReply(m, m.term, TRUE, m.prev + Len(m.entries), 0, 0))

\* The first index of the run of entries of term ct that ends at prev, no lower
\* than the first entry after the snapshot.
StartsRun(i, prev, ct, k) ==
    /\ \A n \in k .. prev : TermAt(log[i], n) = ct
    /\ k - 1 > lii[i] => TermAt(log[i], k - 1) # ct

\* The term and the index AppendEntries tells the leader to back up to.
Conflict(i, m, ct, ci) ==
    \/ m.prev < lii[i] /\ ct = -1 /\ ci = lii[i] + 1
    \/ m.prev > LastLogIndex(i) /\ ct = -1 /\ ci = LastLogIndex(i) + 1
    \/ m.prev = lii[i] /\ ct = TermAt(log[i], m.prev) /\ ci = lii[i] + 1
    \/ /\ m.prev \in lii[i] + 1 .. LastLogIndex(i)
       /\ ct = log[i][m.prev]
       /\ ci \in lii[i] + 1 .. m.prev
       /\ StartsRun(i, m.prev, ct, ci)

\* AppendEntries: the previous entry is compacted, missing or another one.
RefuseEntries(m) ==
    LET i == m.dst
    IN  /\ m.type = "AppendEntries"
        /\ m.term >= currentTerm[i]
        /\ ~Consistent(i, m)
        /\ Follow(i, m.term)
        /\ UNCHANGED <<logVars, commitIndex, votes, leaderVars, snapDue>>
        /\ Persist(i)
        /\ \E ct \in -1 .. currentTerm'[i], ci \in 0 .. LastLogIndex(i) + 1 :
              /\ Conflict(i, m, ct, ci)
              /\ Answer(m, AppendReply(m, m.term, FALSE, 0, ct, ci))

\* Mutations of checkCommit: without the term condition; off by one.
CommittableAnyTerm(i, match) ==
    {n \in lii[i] + 1 .. LastLogIndex(i) :
        n > commitIndex[i] /\ Majority({i} \cup {j \in Server : match[j] >= n})}
CommittableEarly(i, match) ==
    {n \in lii[i] + 1 .. LastLogIndex(i) :
        /\ n > commitIndex[i]
        /\ Majority({i} \cup {j \in Server : match[j] >= n - 1})
        /\ log[i][n] = currentTerm[i]}

\* checkCommit's indexes: this term's, past the snapshot, held by a majority.
Committable(i, match) ==
    {n \in lii[i] + 1 .. LastLogIndex(i) :
        /\ n > commitIndex[i]
        /\ Majority({i} \cup {j \in Server : match[j] >= n})
        /\ log[i][n] = currentTerm[i]}

\* checkCommit: c is the highest of them, or what was committed already.
NewCommit(i, match, c) ==
    /\ c \in Committable(i, match) \cup {commitIndex[i]}
    /\ \A n \in Committable(i, match) : n <= c

\* Nothing but AppendEntries's own delays keeps a reply past its term.
Arrives(m) == m.asked \in LateReplies \cup {currentTerm[m.dst]}

\* AppendEntries and InstallSnapshot replies: the peer is in a higher term.
ReplyStepDown(m) ==
    LET i == m.dst
    IN  /\ m.type \in {"AppendReply", "SnapshotReply"}
        /\ m.term > currentTerm[i]
        /\ StepDown(i, m.term)
        /\ UNCHANGED <<logVars, commitIndex, votes, leaderVars, snapDue>>
        /\ Persist(i)
        /\ Exchange({m}, {})

\* broadcastHeartBeat, reply: nothing to do, not a leader or nothing new.
IgnoreAppendReply(m) ==
    LET i == m.dst
    IN  /\ m.type = "AppendReply"
        /\ m.term <= currentTerm[i]
        /\ \/ state[i] # "Leader"
           \/ ~Arrives(m)
           \/ m.ok /\ m.match <= matchIndex[i][m.src]
        /\ Exchange({m}, {})
        /\ UNCHANGED <<termVars, logVars, disk, state, commitIndex, votes,
                       leaderVars, snapDue>>

\* broadcastHeartBeat, reply: the peer holds more than was known.
HandleAppendSuccess(m) ==
    LET i == m.dst
        j == m.src
    IN  /\ m.type = "AppendReply"
        /\ m.term <= currentTerm[i]
        /\ state[i] = "Leader"
        /\ Arrives(m)
        /\ m.ok
        /\ m.match > matchIndex[i][j]
        /\ matchIndex' = [matchIndex EXCEPT ![i][j] = m.match]
        /\ nextIndex'  = [nextIndex EXCEPT ![i][j] = m.match + 1]
        /\ \E c \in 0 .. AtLeast(LastLogIndex(i), commitIndex[i]) :
              /\ NewCommit(i, matchIndex'[i], c)
              /\ commitIndex' = [commitIndex EXCEPT ![i] = c]
        /\ UNCHANGED <<termVars, logVars, disk, state, votes, snapDue>>
        /\ Exchange({m}, {})

\* Where broadcastHeartBeat backs up to: past its own last entry of the
\* conflicting term, the one at the snapshot included, else where it is told.
BacksUpTo(i, m, k) ==
    LET same == {n \in lii[i] .. LastLogIndex(i) : TermAt(log[i], n) = m.conflictTerm}
    IN  IF m.conflictTerm = -1 \/ same = {}
          THEN k = m.conflictIndex
          ELSE k - 1 \in same /\ \A n \in same : n <= k - 1

\* broadcastHeartBeat, reply: the peer does not hold the previous entry.
HandleAppendConflict(m) ==
    LET i == m.dst
    IN  /\ m.type = "AppendReply"
        /\ m.term <= currentTerm[i]
        /\ state[i] = "Leader"
        /\ Arrives(m)
        /\ ~m.ok
        /\ \E k \in 0 .. AtLeast(LastLogIndex(i) + 1, m.conflictIndex) :
              /\ BacksUpTo(i, m, k)
              /\ nextIndex' = [nextIndex EXCEPT ![i][m.src] = k]
        /\ UNCHANGED <<termVars, logVars, disk, state, commitIndex, votes,
                       matchIndex, snapDue>>
        /\ Exchange({m}, {})

----------------------------------------------------------------------------
(* Snapshots *)

\* Snapshot: the service has a snapshot of what was applied up to index, which
\* the applier delivered and is therefore committed.
Snapshot(i, index) ==
    /\ i \in Compacting
    /\ index \in lii[i] + 1 .. commitIndex[i]
    /\ lii' = [lii EXCEPT ![i] = AtMost(index, LastLogIndex(i))]
    /\ UNCHANGED <<termVars, log, state, commitIndex, votes, leaderVars, snapDue, rpc>>
    /\ Persist(i)

\* sendInstallSnapshot takes rf.mu again: it checks that it leads, nothing else.
SendInstallSnapshot(i, j) ==
    /\ <<i, j>> \in snapDue
    /\ snapDue' = snapDue \ {<<i, j>>}
    /\ IF state[i] = "Leader"
         THEN Exchange({}, {[type |-> "InstallSnapshot", src |-> i, dst |-> j,
                             term |-> currentTerm[i], lii |-> lii[i],
                             data |-> SubSeq(log[i], 1, lii[i]), live |-> TRUE]})
         ELSE UNCHANGED rpc
    /\ UNCHANGED <<termVars, logVars, disk, state, commitIndex, votes, leaderVars>>

SnapshotReply(m, t) ==
    [type |-> "SnapshotReply", src |-> m.dst, dst |-> m.src, term |-> t,
     lii |-> m.lii, asked |-> m.term]

\* A mutation of the log under a snapshot: all of it stays.
UnderSnapshotSame(l, m) == l

\* The log under a snapshot: what follows it stays when the log has its last
\* entry (index and term), and goes otherwise.
UnderSnapshot(l, m) ==
    IF m.lii <= Len(l) /\ TermAt(l, m.lii) = TermAt(m.data, m.lii)
      THEN m.data \o SubSeq(l, m.lii + 1, Len(l))
      ELSE m.data

\* A mutation of InstallSnapshot: commitIndex stays behind the snapshot.
SnapshotCommitSame(i, m) == commitIndex[i]

\* InstallSnapshot's new commit index: at least what the snapshot covers.
SnapshotCommit(i, m) == AtLeast(commitIndex[i], m.lii)

\* InstallSnapshot, for a request whose term is not behind.
HandleInstallSnapshot(m) ==
    LET i     == m.dst
        newer == m.lii > lii[i]
    IN  /\ m.type = "InstallSnapshot"
        /\ m.term >= currentTerm[i]
        /\ Follow(i, m.term)
        /\ IF newer
             THEN /\ log' = [log EXCEPT ![i] = UnderSnapshot(@, m)]
                  /\ lii' = [lii EXCEPT ![i] = m.lii]
                  /\ commitIndex' = [commitIndex EXCEPT ![i] = SnapshotCommit(i, m)]
             ELSE UNCHANGED <<logVars, commitIndex>>
        /\ UNCHANGED <<votes, leaderVars, snapDue>>
        /\ Persist(i)
        /\ Answer(m, SnapshotReply(m, m.term))

\* sendInstallSnapshot, reply: no leader any more, or in another term.
IgnoreSnapshotReply(m) ==
    LET i == m.dst
    IN  /\ m.type = "SnapshotReply"
        /\ m.term <= currentTerm[i]
        /\ state[i] # "Leader" \/ currentTerm[i] # m.asked
        /\ Exchange({m}, {})
        /\ UNCHANGED <<termVars, logVars, disk, state, commitIndex, votes,
                       leaderVars, snapDue>>

\* sendInstallSnapshot, reply: the peer holds the snapshot that was sent.
HandleSnapshotReply(m) ==
    LET i == m.dst
        j == m.src
    IN  /\ m.type = "SnapshotReply"
        /\ m.term <= currentTerm[i]
        /\ state[i] = "Leader"
        /\ currentTerm[i] = m.asked
        /\ matchIndex' = [matchIndex EXCEPT ![i][j] = AtLeast(@, m.lii)]
        /\ nextIndex'  = [nextIndex EXCEPT ![i][j] = AtLeast(@, m.lii + 1)]
        /\ \E c \in 0 .. AtLeast(LastLogIndex(i), commitIndex[i]) :
              /\ NewCommit(i, matchIndex'[i], c)
              /\ commitIndex' = [commitIndex EXCEPT ![i] = c]
        /\ UNCHANGED <<termVars, logVars, disk, state, votes, snapDue>>
        /\ Exchange({m}, {})

----------------------------------------------------------------------------
\* The refusal every request handler opens with.
RefuseStaleTerm(m) ==
    LET t == currentTerm[m.dst]
    IN  /\ m.type \in {"RequestVote", "AppendEntries", "InstallSnapshot"}
        /\ m.term < t
        /\ CASE m.type = "RequestVote"     -> Answer(m, VoteReply(m, t, FALSE))
             [] m.type = "AppendEntries"   -> Answer(m, AppendReply(m, t, FALSE, 0, 0, 0))
             [] m.type = "InstallSnapshot" -> Answer(m, SnapshotReply(m, t))
        /\ UNCHANGED <<termVars, logVars, disk, state, commitIndex, votes,
                       leaderVars, snapDue>>

\* Messages left when the caller i crashes: no goroutine awaits their replies.
Orphaned(i) ==
    {IF m.src = i /\ m.type \in {"RequestVote", "AppendEntries", "InstallSnapshot"}
       THEN [m EXCEPT !.live = FALSE] ELSE m :
         m \in {n \in rpc : ~(n.dst = i /\ n.type \in
                               {"VoteReply", "AppendReply", "SnapshotReply"})}}

\* A crash, then Make over the same Persister.
Restart(i) ==
    /\ i \in Crashing
    /\ currentTerm' = [currentTerm EXCEPT ![i] = disk[i].term]
    /\ votedFor'    = [votedFor EXCEPT ![i] = disk[i].vote]
    /\ log'         = [log EXCEPT ![i] = disk[i].log]
    /\ lii'         = [lii EXCEPT ![i] = disk[i].lii]
    /\ state'       = [state EXCEPT ![i] = "Follower"]
    /\ commitIndex' = [commitIndex EXCEPT ![i] = disk[i].lii]
    /\ votes'       = [votes EXCEPT ![i] = {}]
    /\ nextIndex'   = [nextIndex EXCEPT ![i] = [j \in Server |-> 0]]
    /\ matchIndex'  = [matchIndex EXCEPT ![i] = [j \in Server |-> 0]]
    /\ snapDue'     = {p \in snapDue : p[1] # i}
    /\ rpc'         = Orphaned(i)
    /\ UNCHANGED disk

Receive(m) ==
    \/ HandleRequestVote(m)     \/ HandleVoteReply(m)
    \/ IgnoreVoteReply(m)       \/ VoteReplyStepDown(m)
    \/ AcceptEntries(m)         \/ RefuseEntries(m)
    \/ HandleAppendSuccess(m)   \/ HandleAppendConflict(m)
    \/ IgnoreAppendReply(m)     \/ ReplyStepDown(m)
    \/ HandleInstallSnapshot(m) \/ HandleSnapshotReply(m)
    \/ IgnoreSnapshotReply(m)   \/ RefuseStaleTerm(m)

Next ==
    \/ \E i \in Server : StartElection(i) \/ Start(i) \/ Restart(i)
    \/ \E i, j \in Server :
          SendAppendEntries(i, j) \/ SnapshotNeeded(i, j) \/ SendInstallSnapshot(i, j)
    \/ \E i \in Server : \E index \in lii[i] + 1 .. commitIndex[i] : Snapshot(i, index)
    \/ \E m \in rpc : Receive(m)

Spec == Init /\ [][Next]_vars

----------------------------------------------------------------------------
(* Types *)

Requests ==
    [type : {"RequestVote"}, src : Server, dst : Server, term : Nat,
     lastIndex : Nat, lastTerm : Nat, live : BOOLEAN]
    \cup
    [type : {"AppendEntries"}, src : Server, dst : Server, term : Nat, prev : Nat,
     prevTerm : Nat, entries : Seq(Nat), commit : Nat, live : BOOLEAN]
    \cup
    [type : {"InstallSnapshot"}, src : Server, dst : Server, term : Nat,
     lii : Nat, data : Seq(Nat), live : BOOLEAN]

Replies ==
    [type : {"VoteReply"}, src : Server, dst : Server, term : Nat,
     granted : BOOLEAN, asked : Nat]
    \cup
    [type : {"AppendReply"}, src : Server, dst : Server, term : Nat, ok : BOOLEAN,
     match : Nat, conflictTerm : Int, conflictIndex : Nat, asked : Nat]
    \cup
    [type : {"SnapshotReply"}, src : Server, dst : Server, term : Nat,
     lii : Nat, asked : Nat]

\* A snapshot stands for entries there are: in memory, on disk and on its way.
SnapshotWithinLog ==
    /\ \A i \in Server : lii[i] <= Len(log[i]) /\ disk[i].lii <= Len(disk[i].log)
    /\ \A m \in rpc : m.type = "InstallSnapshot" => m.lii = Len(m.data)

\* The type invariant, with what gives the physical indexes of rf.log, which
\* are relative to lastIncludedIndex, a meaning.
TypeOK ==
    /\ currentTerm \in [Server -> Nat]
    /\ votedFor \in [Server -> Server \cup {Nil}]
    /\ log \in [Server -> Seq(Nat)]
    /\ lii \in [Server -> Nat]
    /\ disk \in [Server -> [term : Nat, vote : Server \cup {Nil}, log : Seq(Nat), lii : Nat]]
    /\ state \in [Server -> {"Follower", "Candidate", "Leader"}]
    /\ commitIndex \in [Server -> Nat]
    /\ votes \in [Server -> SUBSET Server]
    /\ nextIndex \in [Server -> [Server -> Nat]]
    /\ matchIndex \in [Server -> [Server -> Nat]]
    /\ snapDue \subseteq Server \X Server
    /\ rpc \subseteq Requests \cup Replies
    /\ SnapshotWithinLog

----------------------------------------------------------------------------
(* Safety *)

\* No term has two leaders: a vote granted before a crash, or counted from a
\* late reply, never elects a second one (config.go, checkOneLeader).
ElectionSafety ==
    \A i, j \in Server :
        state[i] = "Leader" /\ state[j] = "Leader" /\ currentTerm[i] = currentTerm[j]
            => i = j

\* Why ElectionSafety holds, step by step: the inductive form of it.
\* A vote is a granted reply in flight, or one counted in a candidacy.
Granting(m) == m.type = "VoteReply" /\ m.granted

\* The voters counted by a candidacy that goes on, or went on to lead.
Supporters(i) == {j \in votes[i] : state[i] # "Follower"}

\* What a peer would restart from is what it acts on.
DiskInSync ==
    \A i \in Server : disk[i] = [term |-> currentTerm[i], vote |-> votedFor[i],
                                 log  |-> log[i],         lii  |-> lii[i]]

\* A voter is in the term it voted in and has not changed its vote, or is past it.
VotesBind ==
    /\ \A m \in rpc : Granting(m) =>
          /\ m.asked <= currentTerm[m.src]
          /\ m.asked = currentTerm[m.src] => votedFor[m.src] = m.dst
    /\ \A i \in Server : \A j \in Supporters(i) :
          /\ currentTerm[i] <= currentTerm[j]
          /\ currentTerm[i] = currentTerm[j] => votedFor[j] = i

\* No two votes of one peer in one term are for different candidates.
VotesUnique ==
    /\ \A m, n \in rpc :
          Granting(m) /\ Granting(n) /\ m.src = n.src /\ m.asked = n.asked
            => m.dst = n.dst
    /\ \A m \in rpc, i \in Server :
          Granting(m) /\ m.src \in Supporters(i) /\ m.asked = currentTerm[i]
            => m.dst = i
    /\ \A i, j \in Server :
          Supporters(i) \cap Supporters(j) # {} /\ currentTerm[i] = currentTerm[j]
            => i = j

\* A leader has counted a majority.
LeadersElected ==
    \A i \in Server : state[i] = "Leader" => Majority(votes[i])

\* The inductive invariant of the elections: a vote, be it in flight, counted
\* or on disk, binds its voter for the term.
ElectionInv == DiskInSync /\ VotesBind /\ VotesUnique /\ LeadersElected

\* Two logs that hold an entry of the same term at the same index are the same
\* up to it, whatever was truncated, overlaid or replaced by a snapshot.
LogMatching ==
    \A i, j \in Server : \A k \in DOMAIN log[i] \cap DOMAIN log[j] :
        log[i][k] = log[j][k] => SubSeq(log[i], 1, k) = SubSeq(log[j], 1, k)

\* Whatever a peer considers committed is in the log of every leader of its
\* term or of a later one (so no leader overwrites what a service applied).
LeaderCompleteness ==
    \A l, i \in Server :
        state[l] = "Leader" /\ currentTerm[l] >= currentTerm[i]
            => /\ commitIndex[i] <= Len(log[l])
               /\ SubSeq(log[l], 1, commitIndex[i]) = SubSeq(log[i], 1, commitIndex[i])

\* An entry a leader commits in its own term is stored by a majority, and stays
\* stored: "if majority of the peers have this term commit it" (checkCommit).
CommitHasQuorum ==
    \A l \in Server : \A k \in 1 .. AtMost(commitIndex[l], Len(log[l])) :
        state[l] = "Leader" /\ log[l][k] = currentTerm[l]
            => Majority({i \in Server : k \in DOMAIN log[i] /\ log[i][k] = log[l][k]})

\* getLogTerm stays within rf.log when a leader prepares the next AppendEntries, if
\* replies come in the term they were asked for (LateReplies = {}).
NextIndexInLog ==
    \A l, j \in Server : state[l] = "Leader" => nextIndex[l][j] <= LastLogIndex(l) + 1

\* A peer compacts only what is committed, and commits only what it holds.
CompactedCommittedHeld ==
    \A i \in Server : lii[i] <= commitIndex[i] /\ commitIndex[i] <= LastLogIndex(i)

\* A peer's term never goes back, nor does its vote change within a term, not
\* even through a crash between granting the vote and answering.
VoteKept ==
    [][\A i \in Server :
         /\ currentTerm'[i] >= currentTerm[i]
         /\ currentTerm'[i] = currentTerm[i] /\ votedFor[i] # Nil
              => votedFor'[i] = votedFor[i]]_vars

\* What a peer has committed is never truncated, replaced or lost, by an
\* AppendEntries, a snapshot or a restart.
CommittedKept ==
    [][\A i \in Server :
         /\ commitIndex[i] <= Len(log'[i])
         /\ SubSeq(log'[i], 1, commitIndex[i]) = SubSeq(log[i], 1, commitIndex[i])]_vars

\* commitIndex goes back in a restart only: a late or reordered AppendEntries
\* or snapshot never takes back what the applier may already have delivered.
CommitMonotonic ==
    [][\A i \in Server : commitIndex'[i] >= commitIndex[i] \/ Restart(i)]_vars

=============================================================================
