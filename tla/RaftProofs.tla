----------------------------- MODULE RaftProofs -----------------------------
(***************************************************************************)
(* What holds of Raft for every set of peers and every environment: its     *)
(* types, and that no term has two leaders.                                 *)
(***************************************************************************)
EXTENDS Raft, FiniteSetTheorems, SequenceTheorems, TLAPS

\* Two majorities of the peers share a peer.
LEMMA MajoritiesMeet ==
    ASSUME NEW S \in SUBSET Server, NEW T \in SUBSET Server, Majority(S), Majority(T)
    PROVE  S \cap T # {}
<1>1. /\ Cardinality(Server) \in Nat
      /\ Cardinality(S) \in Nat
      /\ Cardinality(T) \in Nat
    BY ServerAssumption, FS_CardinalityType, FS_Subset
<1>2. Cardinality(S) + Cardinality(T) > Cardinality(Server)
    BY <1>1 DEF Majority
<1> QED
    BY <1>2, ServerAssumption, FS_MajoritiesIntersect

-----------------------------------------------------------------------------
(* Types *)

\* Terms read from a log are terms.
LEMMA TermAtType ==
    ASSUME NEW l \in Seq(Nat), NEW k \in 0 .. Len(l)
    PROVE  TermAt(l, k) \in Nat
BY DEF TermAt

\* Overlaying entries on a log gives a log.
LEMMA OverlayType ==
    ASSUME NEW l \in Seq(Nat), NEW prev \in 0 .. Len(l), NEW entries \in Seq(Nat)
    PROVE  Overlay(l, prev, entries) \in Seq(Nat)
<1>1. SubSeq(l, 1, prev) \in Seq(Nat)
    BY SubSeqProperties
<1> QED
    BY <1>1, ConcatProperties DEF Overlay


\* Messages as the network may hold them.
WellFormed(M) ==
    /\ M \subseteq Requests \cup Replies
    /\ \A m \in M : m.type = "InstallSnapshot" => m.lii = Len(m.data)

\* Whatever the network loses, what is left is well formed.
LEMMA ExchangeWellFormed ==
    ASSUME NEW done, NEW sent, WellFormed(rpc), WellFormed(sent), Exchange(done, sent)
    PROVE  WellFormed(rpc)'
<1>1. PICK carried \in SUBSET sent : rpc' = (rpc \ done) \cup carried
    BY DEF Exchange
<1> QED
    BY <1>1 DEF WellFormed

\* A reply is well formed whenever its fields are in range.
LEMMA AnswerWellFormed ==
    ASSUME NEW m, NEW reply \in Replies, WellFormed(rpc), Answer(m, reply)
    PROVE  WellFormed(rpc)'
<1>1. WellFormed({reply}) /\ WellFormed({})
    BY DEF WellFormed, Replies
<1> QED
    BY <1>1, ExchangeWellFormed DEF Answer

DiskType == [term : Nat, vote : Server \cup {Nil}, log : Seq(Nat), lii : Nat]

\* persist() writes a well-formed record, with the snapshot within the log.
LEMMA PersistWellFormed ==
    ASSUME NEW i \in Server, disk \in [Server -> DiskType], Persist(i),
           \A j \in Server : disk[j].lii <= Len(disk[j].log),
           currentTerm'[i] \in Nat, votedFor'[i] \in Server \cup {Nil},
           log'[i] \in Seq(Nat), lii'[i] \in Nat, lii'[i] <= Len(log'[i])
    PROVE  /\ disk' \in [Server -> DiskType]
           /\ \A j \in Server : disk'[j].lii <= Len(disk'[j].log)
BY DEF Persist, DiskType

\* The fields of each kind of message.
LEMMA MessageTypes ==
    ASSUME WellFormed(rpc), NEW m \in rpc
    PROVE  /\ m.src \in Server /\ m.dst \in Server /\ m.term \in Nat
           /\ m.type = "RequestVote" => m \in Requests /\ m.lastIndex \in Nat /\ m.lastTerm \in Nat
           /\ m.type = "AppendEntries" => /\ m \in Requests /\ m.prev \in Nat /\ m.prevTerm \in Nat
                                         /\ m.entries \in Seq(Nat) /\ m.commit \in Nat
           /\ m.type = "InstallSnapshot" => /\ m \in Requests /\ m.lii \in Nat
                                           /\ m.data \in Seq(Nat) /\ m.lii = Len(m.data)
           /\ m.type = "VoteReply" => m.granted \in BOOLEAN /\ m.asked \in Nat
           /\ m.type = "AppendReply" => /\ m.ok \in BOOLEAN /\ m.match \in Nat
                                       /\ m.conflictTerm \in Int /\ m.conflictIndex \in Nat
           /\ m.type = "SnapshotReply" => m.lii \in Nat /\ m.asked \in Nat
BY DEF WellFormed, Requests, Replies

\* The type invariant in the parts the actions disturb: the peers' own fields,
\* the logs and their snapshots, the disks, the messages.
PeersTyped ==
    /\ currentTerm \in [Server -> Nat]
    /\ votedFor \in [Server -> Server \cup {Nil}]
    /\ state \in [Server -> {"Follower", "Candidate", "Leader"}]
    /\ commitIndex \in [Server -> Nat]
    /\ votes \in [Server -> SUBSET Server]
    /\ nextIndex \in [Server -> [Server -> Nat]]
    /\ matchIndex \in [Server -> [Server -> Nat]]
    /\ snapDue \subseteq Server \X Server

LogsTyped ==
    /\ log \in [Server -> Seq(Nat)]
    /\ lii \in [Server -> Nat]
    /\ \A i \in Server : lii[i] <= Len(log[i])

DisksTyped ==
    /\ disk \in [Server -> DiskType]
    /\ \A i \in Server : disk[i].lii <= Len(disk[i].log)

Typed == PeersTyped /\ LogsTyped /\ DisksTyped /\ WellFormed(rpc)

LEMMA TypedIsTypeOK == Typed <=> TypeOK
BY DEF Typed, TypeOK, SnapshotWithinLog, PeersTyped, LogsTyped, DisksTyped,
       DiskType, WellFormed

\* A handler that persists leaves the disks well formed if it leaves the peer's
\* own fields so.
LEMMA PersistTyped ==
    ASSUME NEW i \in Server, DisksTyped, PeersTyped', LogsTyped', Persist(i)
    PROVE  DisksTyped'
<1>1. /\ currentTerm'[i] \in Nat /\ votedFor'[i] \in Server \cup {Nil}
      /\ log'[i] \in Seq(Nat) /\ lii'[i] \in Nat /\ lii'[i] <= Len(log'[i])
    BY DEF PeersTyped, LogsTyped
<1> QED
    BY <1>1, PersistWellFormed DEF DisksTyped

\* The last entry of a log is a term, or the dummy's.
LEMMA LastTermType ==
    ASSUME LogsTyped, NEW i \in Server
    PROVE  LastLogIndex(i) \in Nat /\ LastLogTerm(i) \in Nat
BY DEF LogsTyped, LastLogIndex, LastLogTerm, TermAt

LEMMA StartElectionTyped ==
    ASSUME Typed, NEW i \in Server, StartElection(i)
    PROVE  Typed'
<1>1. PeersTyped'
    BY DEF StartElection, Typed, PeersTyped, leaderVars
<1>2. LogsTyped'
    BY DEF StartElection, Typed, LogsTyped, logVars
<1>3. DisksTyped'
    BY <1>1, <1>2, PersistTyped DEF StartElection, Typed
<1>4. WellFormed(rpc)'
  <2> DEFINE sent == {[type |-> "RequestVote", src |-> i, dst |-> j,
                       term |-> currentTerm[i] + 1, lastIndex |-> LastLogIndex(i),
                       lastTerm |-> LastLogTerm(i), live |-> TRUE] : j \in Connected(i, currentTerm[i] + 1)}
  <2>1. currentTerm[i] + 1 \in Nat /\ Connected(i, currentTerm[i] + 1) \subseteq Server
      BY DEF Typed, PeersTyped, Connected
  <2>2. LastLogIndex(i) \in Nat /\ LastLogTerm(i) \in Nat
      BY LastTermType DEF Typed
  <2>3. ASSUME NEW m \in sent PROVE m \in Requests /\ m.type = "RequestVote"
    <3>1. PICK j \in Connected(i, currentTerm[i] + 1) :
             m = [type |-> "RequestVote", src |-> i, dst |-> j,
                  term |-> currentTerm[i] + 1, lastIndex |-> LastLogIndex(i),
                  lastTerm |-> LastLogTerm(i), live |-> TRUE]
        OBVIOUS
    <3>2. j \in Server
        BY <2>1
    <3> QED
        BY <3>1, <3>2, <2>1, <2>2 DEF Requests
  <2>4. WellFormed(sent)
      BY <2>3 DEF WellFormed
  <2> QED
      BY <2>4, ExchangeWellFormed DEF StartElection, Typed
<1> QED
    BY <1>1, <1>2, <1>3, <1>4 DEF Typed

LEMMA HandleRequestVoteTyped ==
    ASSUME Typed, NEW m \in rpc, HandleRequestVote(m)
    PROVE  Typed'
<1> DEFINE i   == m.dst
           new == m.term > currentTerm[i]
           v   == IF new THEN Nil ELSE votedFor[i]
           yes == Grants(i, m, v)
<1>1. m.src \in Server /\ i \in Server /\ m.term \in Nat
    BY MessageTypes DEF Typed
<1>2. PeersTyped'
    BY <1>1 DEF HandleRequestVote, Typed, PeersTyped, leaderVars
<1>3. LogsTyped'
    BY DEF HandleRequestVote, Typed, LogsTyped, logVars
<1>4. DisksTyped'
    BY <1>1, <1>2, <1>3, PersistTyped DEF HandleRequestVote, Typed
<1>5. yes \in BOOLEAN
    BY DEF Grants, LogUpToDate
<1>6. VoteReply(m, m.term, yes) \in Replies
    BY <1>1, <1>5 DEF VoteReply, Replies
<1>7. WellFormed(rpc)'
    BY <1>6, AnswerWellFormed DEF HandleRequestVote, Typed
<1> QED
    BY <1>2, <1>3, <1>4, <1>7 DEF Typed

\* A step that takes a message out and sends nothing.
LEMMA TakeWellFormed ==
    ASSUME NEW m, WellFormed(rpc), Exchange({m}, {})
    PROVE  WellFormed(rpc)'
BY ExchangeWellFormed DEF WellFormed

\* A step that changes nothing but the messages.
LEMMA OnlyMessagesTyped ==
    ASSUME Typed, WellFormed(rpc)',
           UNCHANGED <<termVars, logVars, disk, state, commitIndex, votes, leaderVars, snapDue>>
    PROVE  Typed'
BY DEF Typed, PeersTyped, LogsTyped, DisksTyped, termVars, logVars, leaderVars

\* A reply that makes the peer step down into the replier's term.
LEMMA StepDownTyped ==
    ASSUME Typed, NEW m \in rpc, StepDown(m.dst, m.term), Persist(m.dst), Exchange({m}, {}),
           UNCHANGED <<logVars, commitIndex, votes, leaderVars, snapDue>>
    PROVE  Typed'
<1>1. m.dst \in Server /\ m.term \in Nat
    BY MessageTypes DEF Typed
<1>2. PeersTyped'
    BY <1>1 DEF StepDown, Typed, PeersTyped, leaderVars
<1>3. LogsTyped'
    BY DEF Typed, LogsTyped, logVars
<1>4. DisksTyped'
    BY <1>1, <1>2, <1>3, PersistTyped DEF Typed
<1> QED
    BY <1>2, <1>3, <1>4, TakeWellFormed DEF Typed

LEMMA HandleVoteReplyTyped ==
    ASSUME Typed, NEW m \in rpc, HandleVoteReply(m)
    PROVE  Typed'
<1> DEFINE i == m.dst
           v == IF m.granted THEN votes[i] \cup {m.src} ELSE votes[i]
<1>1. m.src \in Server /\ i \in Server
    BY MessageTypes DEF Typed
<1>2. v \in SUBSET Server
    BY <1>1 DEF Typed, PeersTyped
<1>3. LastLogIndex(i) \in Nat /\ lii[i] \in Nat
    BY <1>1, LastTermType DEF Typed, LogsTyped
<1>4. /\ state' \in [Server -> {"Follower", "Candidate", "Leader"}]
      /\ nextIndex' \in [Server -> [Server -> Nat]]
      /\ matchIndex' \in [Server -> [Server -> Nat]]
  <2>1. CASE m.granted /\ Majority(v)
    <3>1. BecomeLeader(i)
        BY <2>1 DEF HandleVoteReply
    <3>2. [j \in Server |-> LastLogIndex(i) + 1] \in [Server -> Nat]
        BY <1>3
    <3>3. [j \in Server |-> IF j = i THEN LastLogIndex(i) ELSE lii[i]] \in [Server -> Nat]
        BY <1>3
    <3> QED
        BY <3>1, <3>2, <3>3, <1>1 DEF BecomeLeader, Typed, PeersTyped
  <2>2. CASE ~(m.granted /\ Majority(v))
      BY <2>2 DEF HandleVoteReply, Typed, PeersTyped, leaderVars
  <2> QED
      BY <2>1, <2>2
<1>5. PeersTyped'
    BY <1>2, <1>4 DEF HandleVoteReply, Typed, PeersTyped, termVars
<1>6. LogsTyped' /\ DisksTyped'
    BY DEF HandleVoteReply, Typed, LogsTyped, DisksTyped, logVars
<1> QED
    BY <1>5, <1>6, TakeWellFormed DEF HandleVoteReply, Typed

LEMMA StartTyped ==
    ASSUME Typed, NEW i \in Server, Start(i)
    PROVE  Typed'
<1>1. PeersTyped'
    BY DEF Start, Typed, PeersTyped, termVars, leaderVars
<1>2. log[i] \in Seq(Nat) /\ currentTerm[i] \in Nat
    BY DEF Typed, PeersTyped, LogsTyped
<1>3. /\ Append(log[i], currentTerm[i]) \in Seq(Nat)
      /\ Len(Append(log[i], currentTerm[i])) = Len(log[i]) + 1
    BY <1>2
<1>4. LogsTyped'
    BY <1>2, <1>3 DEF Start, Typed, LogsTyped
<1>5. DisksTyped'
    BY <1>1, <1>4, PersistTyped DEF Start, Typed
<1> QED
    BY <1>1, <1>4, <1>5 DEF Start, Typed

LEMMA SendAppendEntriesTyped ==
    ASSUME Typed, NEW i \in Server, NEW j \in Server, SendAppendEntries(i, j)
    PROVE  Typed'
<1> DEFINE prev == nextIndex[i][j] - 1
           m == [type |-> "AppendEntries", src |-> i, dst |-> j,
                 term |-> currentTerm[i], prev |-> prev,
                 prevTerm |-> TermAt(log[i], prev),
                 entries |-> SubSeq(log[i], prev + 1, LastLogIndex(i)),
                 commit |-> commitIndex[i], live |-> TRUE]
<1>1. /\ log[i] \in Seq(Nat) /\ lii[i] \in Nat /\ LastLogIndex(i) = Len(log[i])
      /\ currentTerm[i] \in Nat /\ commitIndex[i] \in Nat
    BY DEF Typed, PeersTyped, LogsTyped, LastLogIndex
<1>2. prev \in 0 .. Len(log[i])
    BY <1>1 DEF SendAppendEntries
<1>3. TermAt(log[i], prev) \in Nat
    BY <1>1, <1>2, TermAtType
<1>4. SubSeq(log[i], prev + 1, LastLogIndex(i)) \in Seq(Nat)
    BY <1>1, <1>2, SubSeqProperties
<1>5. m \in Requests /\ m.type = "AppendEntries"
    BY <1>1, <1>2, <1>3, <1>4 DEF Requests
<1>6. WellFormed({m})
    BY <1>5 DEF WellFormed
<1>7. WellFormed(rpc)'
    BY <1>6, ExchangeWellFormed DEF SendAppendEntries, Typed
<1> QED
    BY <1>7, OnlyMessagesTyped DEF SendAppendEntries

\* Following a leader, of this term or of a later one.
LEMMA FollowTyped ==
    ASSUME PeersTyped, NEW i \in Server, NEW t \in Nat, Follow(i, t)
    PROVE  /\ currentTerm' \in [Server -> Nat]
           /\ votedFor' \in [Server -> Server \cup {Nil}]
           /\ state' \in [Server -> {"Follower", "Candidate", "Leader"}]
BY DEF Follow, PeersTyped

\* Overlaying keeps what is before the overlay.
LEMMA OverlayLength ==
    ASSUME NEW l \in Seq(Nat), NEW prev \in 0 .. Len(l), NEW entries \in Seq(Nat)
    PROVE  Len(Overlay(l, prev, entries)) >= prev
<1>1. Len(SubSeq(l, 1, prev)) = prev /\ SubSeq(l, 1, prev) \in Seq(Nat)
    BY SubSeqProperties
<1>2. Len(SubSeq(l, 1, prev) \o entries) = prev + Len(entries)
    BY <1>1, ConcatProperties
<1> QED
    BY <1>2, LenProperties DEF Overlay

LEMMA AcceptEntriesTyped ==
    ASSUME Typed, NEW m \in rpc, AcceptEntries(m)
    PROVE  Typed'
<1> DEFINE i == m.dst
<1>1. /\ i \in Server /\ m.src \in Server /\ m.term \in Nat /\ m.prev \in Nat
      /\ m.entries \in Seq(Nat) /\ m.commit \in Nat /\ Len(m.entries) \in Nat
    BY MessageTypes, LenProperties DEF Typed, AcceptEntries
<1>2. /\ log[i] \in Seq(Nat) /\ lii[i] \in Nat /\ lii[i] <= m.prev
      /\ m.prev \in 0 .. Len(log[i])
    BY <1>1 DEF AcceptEntries, Consistent, Typed, LogsTyped, LastLogIndex
<1>3. FollowerCommit(i, m) \in Nat
    BY <1>1 DEF FollowerCommit, AtMost, Typed, PeersTyped
<1>4. PeersTyped'
    BY <1>1, <1>3, FollowTyped DEF AcceptEntries, Typed, PeersTyped, leaderVars
<1>5. /\ Overlay(log[i], m.prev, m.entries) \in Seq(Nat)
      /\ Len(Overlay(log[i], m.prev, m.entries)) >= m.prev
    BY <1>1, <1>2, OverlayType, OverlayLength
<1>6. log' = [log EXCEPT ![i] = Overlay(log[i], m.prev, m.entries)] /\ lii' = lii
    BY DEF AcceptEntries
<1>7. Len(Overlay(log[i], m.prev, m.entries)) >= lii[i]
    BY <1>1, <1>2, <1>5, LenProperties
<1>8. LogsTyped'
    BY <1>5, <1>6, <1>7 DEF Typed, LogsTyped
<1>9. DisksTyped'
    BY <1>1, <1>4, <1>8, PersistTyped DEF AcceptEntries, Typed
<1>10. AppendReply(m, m.term, TRUE, m.prev + Len(m.entries), 0, 0) \in Replies
    BY <1>1 DEF AppendReply, Replies
<1>11. WellFormed(rpc)'
    BY <1>10, AnswerWellFormed DEF AcceptEntries, Typed
<1> QED
    BY <1>4, <1>8, <1>9, <1>11 DEF Typed

LEMMA RefuseEntriesTyped ==
    ASSUME Typed, NEW m \in rpc, RefuseEntries(m)
    PROVE  Typed'
<1> DEFINE i == m.dst
<1>1. i \in Server /\ m.src \in Server /\ m.term \in Nat
    BY MessageTypes DEF Typed
<1>2. PeersTyped'
    BY <1>1, FollowTyped DEF RefuseEntries, Typed, PeersTyped, leaderVars
<1>3. LogsTyped'
    BY DEF RefuseEntries, Typed, LogsTyped, logVars
<1>4. DisksTyped'
    BY <1>1, <1>2, <1>3, PersistTyped DEF RefuseEntries, Typed
<1>5. PICK ct \in -1 .. currentTerm'[i], ci \in 0 .. LastLogIndex(i) + 1 :
         Answer(m, AppendReply(m, m.term, FALSE, 0, ct, ci))
    BY DEF RefuseEntries
<1>6. ct \in Int /\ ci \in Nat
    BY <1>1, <1>2, LastTermType DEF Typed, PeersTyped
<1>7. AppendReply(m, m.term, FALSE, 0, ct, ci) \in Replies
    BY <1>1, <1>6 DEF AppendReply, Replies
<1>8. WellFormed(rpc)'
    BY <1>5, <1>7, AnswerWellFormed DEF Typed
<1> QED
    BY <1>2, <1>3, <1>4, <1>8 DEF Typed

LEMMA HandleAppendSuccessTyped ==
    ASSUME Typed, NEW m \in rpc, HandleAppendSuccess(m)
    PROVE  Typed'
<1> DEFINE i == m.dst
           j == m.src
<1>1. i \in Server /\ j \in Server /\ m.match \in Nat
    BY MessageTypes DEF Typed, HandleAppendSuccess
<1>2. PICK c \in 0 .. AtLeast(LastLogIndex(i), commitIndex[i]) :
         commitIndex' = [commitIndex EXCEPT ![i] = c]
    BY DEF HandleAppendSuccess
<1>3. c \in Nat
    BY <1>1, <1>2, LastTermType DEF Typed, PeersTyped, AtLeast
<1>4. PeersTyped'
    BY <1>1, <1>2, <1>3 DEF HandleAppendSuccess, Typed, PeersTyped, termVars
<1>5. LogsTyped' /\ DisksTyped'
    BY DEF HandleAppendSuccess, Typed, LogsTyped, DisksTyped, logVars
<1> QED
    BY <1>4, <1>5, TakeWellFormed DEF HandleAppendSuccess, Typed

LEMMA HandleSnapshotReplyTyped ==
    ASSUME Typed, NEW m \in rpc, HandleSnapshotReply(m)
    PROVE  Typed'
<1> DEFINE i == m.dst
           j == m.src
<1>1. i \in Server /\ j \in Server /\ m.lii \in Nat
    BY MessageTypes DEF Typed, HandleSnapshotReply
<1>2. PICK c \in 0 .. AtLeast(LastLogIndex(i), commitIndex[i]) :
         commitIndex' = [commitIndex EXCEPT ![i] = c]
    BY DEF HandleSnapshotReply
<1>3. c \in Nat
    BY <1>1, <1>2, LastTermType DEF Typed, PeersTyped, AtLeast
<1>4. /\ AtLeast(matchIndex[i][j], m.lii) \in Nat
      /\ AtLeast(nextIndex[i][j], m.lii + 1) \in Nat
    BY <1>1 DEF Typed, PeersTyped, AtLeast
<1>5. PeersTyped'
    BY <1>1, <1>2, <1>3, <1>4 DEF HandleSnapshotReply, Typed, PeersTyped, termVars
<1>6. LogsTyped' /\ DisksTyped'
    BY DEF HandleSnapshotReply, Typed, LogsTyped, DisksTyped, logVars
<1> QED
    BY <1>5, <1>6, TakeWellFormed DEF HandleSnapshotReply, Typed

LEMMA HandleAppendConflictTyped ==
    ASSUME Typed, NEW m \in rpc, HandleAppendConflict(m)
    PROVE  Typed'
<1> DEFINE i == m.dst
           j == m.src
<1>1. i \in Server /\ j \in Server /\ m.conflictIndex \in Nat
    BY MessageTypes DEF Typed, HandleAppendConflict
<1>2. PICK k \in 0 .. AtLeast(LastLogIndex(i) + 1, m.conflictIndex) :
         nextIndex' = [nextIndex EXCEPT ![i][j] = k]
    BY DEF HandleAppendConflict
<1>3. k \in Nat
    BY <1>1, <1>2, LastTermType DEF Typed, AtLeast
<1>4. PeersTyped'
    BY <1>1, <1>2, <1>3 DEF HandleAppendConflict, Typed, PeersTyped, termVars
<1>5. LogsTyped' /\ DisksTyped'
    BY DEF HandleAppendConflict, Typed, LogsTyped, DisksTyped, logVars
<1> QED
    BY <1>4, <1>5, TakeWellFormed DEF HandleAppendConflict, Typed

LEMMA SnapshotTyped ==
    ASSUME Typed, NEW i \in Server, NEW index \in lii[i] + 1 .. commitIndex[i],
           Snapshot(i, index)
    PROVE  Typed'
<1>1. PeersTyped'
    BY DEF Snapshot, Typed, PeersTyped, termVars, leaderVars
<1>2. /\ lii[i] \in Nat /\ commitIndex[i] \in Nat
      /\ log[i] \in Seq(Nat) /\ LastLogIndex(i) = Len(log[i])
    BY DEF Typed, PeersTyped, LogsTyped, LastLogIndex
<1>3. index \in Nat
    BY <1>2
<1>4. /\ AtMost(index, LastLogIndex(i)) \in Nat
      /\ AtMost(index, LastLogIndex(i)) <= Len(log[i])
    BY <1>2, <1>3, LenProperties DEF AtMost
<1>5. LogsTyped'
    BY <1>4 DEF Snapshot, Typed, LogsTyped
<1>6. DisksTyped'
    BY <1>1, <1>5, PersistTyped DEF Snapshot, Typed
<1> QED
    BY <1>1, <1>5, <1>6 DEF Snapshot, Typed

LEMMA SendInstallSnapshotTyped ==
    ASSUME Typed, NEW i \in Server, NEW j \in Server, SendInstallSnapshot(i, j)
    PROVE  Typed'
<1> DEFINE m == [type |-> "InstallSnapshot", src |-> i, dst |-> j,
                 term |-> currentTerm[i], lii |-> lii[i],
                 data |-> SubSeq(log[i], 1, lii[i]), live |-> TRUE]
<1>1. PeersTyped'
    BY DEF SendInstallSnapshot, Typed, PeersTyped, termVars, leaderVars
<1>2. LogsTyped' /\ DisksTyped'
    BY DEF SendInstallSnapshot, Typed, LogsTyped, DisksTyped, logVars
<1>3. /\ log[i] \in Seq(Nat) /\ lii[i] \in 0 .. Len(log[i]) /\ currentTerm[i] \in Nat
    BY DEF Typed, PeersTyped, LogsTyped
<1>4. SubSeq(log[i], 1, lii[i]) \in Seq(Nat) /\ Len(SubSeq(log[i], 1, lii[i])) = lii[i]
    BY <1>3, SubSeqProperties
<1>5. m \in Requests
    BY <1>3, <1>4 DEF Requests
<1>6. WellFormed({m})
    BY <1>4, <1>5 DEF WellFormed
<1>7. WellFormed(rpc)'
  <2>1. CASE state[i] = "Leader"
      BY <2>1, <1>6, ExchangeWellFormed DEF SendInstallSnapshot, Typed
  <2>2. CASE state[i] # "Leader"
      BY <2>2 DEF SendInstallSnapshot, Typed, WellFormed
  <2> QED
      BY <2>1, <2>2
<1> QED
    BY <1>1, <1>2, <1>7 DEF Typed

\* A log under a snapshot is a log, no shorter than the snapshot.
LEMMA UnderSnapshotType ==
    ASSUME NEW l \in Seq(Nat), NEW m, m.data \in Seq(Nat), m.lii = Len(m.data)
    PROVE  UnderSnapshot(l, m) \in Seq(Nat) /\ Len(UnderSnapshot(l, m)) >= m.lii
<1>1. m.lii \in Nat /\ Len(l) \in Nat
    BY LenProperties
<1>2. CASE m.lii <= Len(l) /\ TermAt(l, m.lii) = TermAt(m.data, m.lii)
  <2> DEFINE kept == SubSeq(l, m.lii + 1, Len(l))
  <2>1. kept \in Seq(Nat)
      BY <1>1, <1>2, SubSeqProperties
  <2>2. m.data \o kept \in Seq(Nat) /\ Len(m.data \o kept) = Len(m.data) + Len(kept)
      BY <2>1, ConcatProperties
  <2>3. UnderSnapshot(l, m) = m.data \o kept
      BY <1>2 DEF UnderSnapshot
  <2>4. Len(kept) \in Nat
      BY <2>1, LenProperties
  <2> HIDE DEF kept
  <2>5. m.data \o kept \in Seq(Nat) /\ Len(m.data \o kept) >= Len(m.data)
      BY <1>1, <2>2, <2>4
  <2> QED
      BY <2>3, <2>5
<1>3. CASE ~(m.lii <= Len(l) /\ TermAt(l, m.lii) = TermAt(m.data, m.lii))
  <2>1. UnderSnapshot(l, m) = m.data
      BY <1>3 DEF UnderSnapshot
  <2> QED
      BY <1>1, <2>1
<1> QED
    BY <1>2, <1>3

LEMMA HandleInstallSnapshotTyped ==
    ASSUME Typed, NEW m \in rpc, HandleInstallSnapshot(m)
    PROVE  Typed'
<1> DEFINE i == m.dst
<1>1. /\ i \in Server /\ m.src \in Server /\ m.term \in Nat /\ m.lii \in Nat
      /\ m.data \in Seq(Nat) /\ m.lii = Len(m.data)
    BY MessageTypes DEF Typed, HandleInstallSnapshot
<1>2. SnapshotCommit(i, m) \in Nat
    BY <1>1 DEF SnapshotCommit, AtLeast, Typed, PeersTyped
<1>3. commitIndex' \in [Server -> Nat]
    BY <1>1, <1>2 DEF HandleInstallSnapshot, Typed, PeersTyped
<1>4. PeersTyped'
    BY <1>1, <1>3, FollowTyped DEF HandleInstallSnapshot, Typed, PeersTyped, leaderVars
<1>5. log[i] \in Seq(Nat)
    BY <1>1 DEF Typed, LogsTyped
<1>6. UnderSnapshot(log[i], m) \in Seq(Nat) /\ Len(UnderSnapshot(log[i], m)) >= m.lii
    BY <1>1, <1>5, UnderSnapshotType
<1>7. LogsTyped'
  <2>1. CASE m.lii > lii[i]
    <3>1. /\ log' = [log EXCEPT ![i] = UnderSnapshot(log[i], m)]
          /\ lii' = [lii EXCEPT ![i] = m.lii]
        BY <2>1 DEF HandleInstallSnapshot
    <3> QED
        BY <3>1, <1>1, <1>6, LenProperties DEF Typed, LogsTyped
  <2>2. CASE ~(m.lii > lii[i])
      BY <2>2 DEF HandleInstallSnapshot, Typed, LogsTyped, logVars
  <2> QED
      BY <2>1, <2>2
<1>8. DisksTyped'
    BY <1>1, <1>4, <1>7, PersistTyped DEF HandleInstallSnapshot, Typed
<1>9. SnapshotReply(m, m.term) \in Replies
    BY <1>1 DEF SnapshotReply, Replies
<1>10. WellFormed(rpc)'
    BY <1>9, AnswerWellFormed DEF HandleInstallSnapshot, Typed
<1> QED
    BY <1>4, <1>7, <1>8, <1>10 DEF Typed

LEMMA RefuseStaleTermTyped ==
    ASSUME Typed, NEW m \in rpc, RefuseStaleTerm(m)
    PROVE  Typed'
<1> DEFINE t == currentTerm[m.dst]
<1>1. m.src \in Server /\ m.dst \in Server /\ m.term \in Nat /\ t \in Nat
    BY MessageTypes DEF Typed, PeersTyped
<1>2. /\ VoteReply(m, t, FALSE) \in Replies
      /\ AppendReply(m, t, FALSE, 0, 0, 0) \in Replies
    BY <1>1 DEF VoteReply, AppendReply, Replies
<1>3. m.type = "InstallSnapshot" => SnapshotReply(m, t) \in Replies
    BY <1>1, MessageTypes DEF SnapshotReply, Replies, Typed
<1>4. WellFormed(rpc)'
  <2>1. CASE m.type = "RequestVote"
      BY <2>1, <1>2, AnswerWellFormed DEF RefuseStaleTerm, Typed
  <2>2. CASE m.type = "AppendEntries"
      BY <2>2, <1>2, AnswerWellFormed DEF RefuseStaleTerm, Typed
  <2>3. CASE m.type = "InstallSnapshot"
      BY <2>3, <1>3, AnswerWellFormed DEF RefuseStaleTerm, Typed
  <2> QED
      BY <2>1, <2>2, <2>3 DEF RefuseStaleTerm
<1> QED
    BY <1>4, OnlyMessagesTyped DEF RefuseStaleTerm

\* A crash leaves in the network what it held, with no one waiting.
LEMMA OrphanedWellFormed ==
    ASSUME WellFormed(rpc), NEW i \in Server
    PROVE  WellFormed(Orphaned(i))
<1>1. ASSUME NEW m \in Orphaned(i)
      PROVE  /\ m \in Requests \cup Replies
             /\ m.type = "InstallSnapshot" => m.lii = Len(m.data)
  <2>1. PICK n \in rpc : m = IF n.src = i /\ n.type \in {"RequestVote", "AppendEntries", "InstallSnapshot"}
                               THEN [n EXCEPT !.live = FALSE] ELSE n
      BY DEF Orphaned
  <2>2. CASE m = n
      BY <2>2 DEF WellFormed
  <2>3. CASE /\ n.type \in {"RequestVote", "AppendEntries", "InstallSnapshot"}
             /\ m = [n EXCEPT !.live = FALSE]
    <3>1. n \in Requests /\ (n.type = "InstallSnapshot" => n.lii = Len(n.data))
        BY <2>3, MessageTypes DEF WellFormed
    <3>2. m \in Requests
        BY <2>3, <3>1 DEF Requests
    <3>3. m.type = n.type /\ (m.type = "InstallSnapshot" => m.lii = n.lii /\ m.data = n.data)
        BY <2>3, <3>1 DEF Requests
    <3> QED
        BY <3>1, <3>2, <3>3
  <2> QED
      BY <2>1, <2>2, <2>3
<1> QED
    BY <1>1 DEF WellFormed

LEMMA RestartTyped ==
    ASSUME Typed, NEW i \in Server, Restart(i)
    PROVE  Typed'
<1>1. /\ disk[i].term \in Nat /\ disk[i].vote \in Server \cup {Nil}
      /\ disk[i].log \in Seq(Nat) /\ disk[i].lii \in Nat
      /\ disk[i].lii <= Len(disk[i].log)
    BY DEF Typed, DisksTyped, DiskType
<1>2. PeersTyped'
    BY <1>1 DEF Restart, Typed, PeersTyped
<1>3. LogsTyped'
    BY <1>1 DEF Restart, Typed, LogsTyped
<1>4. DisksTyped'
    BY DEF Restart, Typed, DisksTyped
<1>5. WellFormed(rpc)'
    BY OrphanedWellFormed DEF Restart, Typed, WellFormed
<1> QED
    BY <1>2, <1>3, <1>4, <1>5 DEF Typed

LEMMA SnapshotNeededTyped ==
    ASSUME Typed, NEW i \in Server, NEW j \in Server, SnapshotNeeded(i, j)
    PROVE  Typed'
<1>1. PeersTyped'
    BY DEF SnapshotNeeded, Typed, PeersTyped, termVars, leaderVars
<1>2. LogsTyped' /\ DisksTyped'
    BY DEF SnapshotNeeded, Typed, LogsTyped, DisksTyped, logVars
<1> QED
    BY <1>1, <1>2 DEF SnapshotNeeded, Typed, WellFormed

LEMMA ReceiveTyped ==
    ASSUME Typed, NEW m \in rpc, Receive(m)
    PROVE  Typed'
<1>1. CASE HandleRequestVote(m)      BY <1>1, HandleRequestVoteTyped
<1>2. CASE HandleVoteReply(m)        BY <1>2, HandleVoteReplyTyped
<1>3. CASE IgnoreVoteReply(m)
    BY <1>3, TakeWellFormed, OnlyMessagesTyped DEF IgnoreVoteReply, Typed
<1>4. CASE VoteReplyStepDown(m)
    BY <1>4, StepDownTyped DEF VoteReplyStepDown
<1>5. CASE AcceptEntries(m)          BY <1>5, AcceptEntriesTyped
<1>6. CASE RefuseEntries(m)          BY <1>6, RefuseEntriesTyped
<1>7. CASE HandleAppendSuccess(m)    BY <1>7, HandleAppendSuccessTyped
<1>8. CASE HandleAppendConflict(m)   BY <1>8, HandleAppendConflictTyped
<1>9. CASE IgnoreAppendReply(m)
    BY <1>9, TakeWellFormed, OnlyMessagesTyped DEF IgnoreAppendReply, Typed
<1>10. CASE ReplyStepDown(m)
    BY <1>10, StepDownTyped DEF ReplyStepDown
<1>11. CASE HandleInstallSnapshot(m) BY <1>11, HandleInstallSnapshotTyped
<1>12. CASE HandleSnapshotReply(m)   BY <1>12, HandleSnapshotReplyTyped
<1>13. CASE IgnoreSnapshotReply(m)
    BY <1>13, TakeWellFormed, OnlyMessagesTyped DEF IgnoreSnapshotReply, Typed
<1>14. CASE RefuseStaleTerm(m)       BY <1>14, RefuseStaleTermTyped
<1> QED
    BY <1>1, <1>2, <1>3, <1>4, <1>5, <1>6, <1>7, <1>8, <1>9, <1>10, <1>11, <1>12,
       <1>13, <1>14 DEF Receive

\* What every peer holds is of its type, whatever is lost, delayed, reordered
\* or crashed: in particular the snapshot is always within the log, so no
\* handler indexes rf.log before its first entry.
THEOREM TypeCorrect == Spec => []TypeOK
<1>1. Init => Typed
    BY DEF Init, Typed, PeersTyped, LogsTyped, DisksTyped, DiskType, WellFormed
<1>2. Typed /\ [Next]_vars => Typed'
  <2> SUFFICES ASSUME Typed, [Next]_vars PROVE Typed'
      OBVIOUS
  <2>1. ASSUME NEW i \in Server, StartElection(i) PROVE Typed'
      BY <2>1, StartElectionTyped
  <2>2. ASSUME NEW i \in Server, Start(i) PROVE Typed'
      BY <2>2, StartTyped
  <2>3. ASSUME NEW i \in Server, Restart(i) PROVE Typed'
      BY <2>3, RestartTyped
  <2>4. ASSUME NEW i \in Server, NEW j \in Server, SendAppendEntries(i, j) PROVE Typed'
      BY <2>4, SendAppendEntriesTyped
  <2>5. ASSUME NEW i \in Server, NEW j \in Server, SnapshotNeeded(i, j) PROVE Typed'
      BY <2>5, SnapshotNeededTyped
  <2>6. ASSUME NEW i \in Server, NEW j \in Server, SendInstallSnapshot(i, j) PROVE Typed'
      BY <2>6, SendInstallSnapshotTyped
  <2>7. ASSUME NEW i \in Server, NEW index \in lii[i] + 1 .. commitIndex[i], Snapshot(i, index)
        PROVE  Typed'
      BY <2>7, SnapshotTyped
  <2>8. ASSUME NEW m \in rpc, Receive(m) PROVE Typed'
      BY <2>8, ReceiveTyped
  <2>9. CASE UNCHANGED vars
      BY <2>9 DEF vars, Typed, PeersTyped, LogsTyped, DisksTyped, WellFormed
  <2> QED
      BY <2>1, <2>2, <2>3, <2>4, <2>5, <2>6, <2>7, <2>8, <2>9 DEF Next
<1>3. Typed => TypeOK
    BY TypedIsTypeOK
<1> QED
    BY <1>1, <1>2, <1>3, PTL DEF Spec

-----------------------------------------------------------------------------
(* Elections *)

\* The votes in flight and counted, without what the disks hold.
VoteInv == VotesBind /\ VotesUnique /\ LeadersElected

\* A step that casts and counts no vote: it puts no granted reply in the
\* network, takes no peer back to an earlier term, changes no vote within a
\* term, and leaves a peer that goes on standing or leading as it was.
NoNewVote ==
    /\ \A m \in rpc' : Granting(m) => m \in rpc
    /\ \A i \in Server :
          /\ currentTerm'[i] >= currentTerm[i]
          /\ currentTerm'[i] = currentTerm[i] => votedFor'[i] = votedFor[i]
          /\ state'[i] # "Follower" => /\ state'[i] = state[i]
                                      /\ currentTerm'[i] = currentTerm[i]
                                      /\ votes'[i] = votes[i]

LEMMA NoNewVoteKeepsVoteInv ==
    ASSUME Typed, Typed', VoteInv, NoNewVote
    PROVE  VoteInv'
<1>1. \A i \in Server : currentTerm[i] \in Nat /\ currentTerm'[i] \in Nat
    BY DEF Typed, PeersTyped
<1>2. \A i \in Server : \A j \in Supporters(i)' :
          j \in Supporters(i) /\ currentTerm'[i] = currentTerm[i]
    BY DEF NoNewVote, Supporters
<1>3. \A m \in rpc' : Granting(m) => m \in rpc /\ m.src \in Server /\ m.asked \in Nat
    BY MessageTypes DEF NoNewVote, Typed, Granting
<1>4. VotesBind'
  <2>1. ASSUME NEW m \in rpc', Granting(m)
        PROVE  /\ m.asked <= currentTerm'[m.src]
               /\ m.asked = currentTerm'[m.src] => votedFor'[m.src] = m.dst
      BY <2>1, <1>1, <1>3 DEF VoteInv, VotesBind, NoNewVote
  <2>2. ASSUME NEW i \in Server, NEW j \in Supporters(i)'
        PROVE  /\ currentTerm'[i] <= currentTerm'[j]
               /\ currentTerm'[i] = currentTerm'[j] => votedFor'[j] = i
    <3>1. j \in Server
        BY DEF Supporters, Typed, PeersTyped
    <3> QED
        BY <3>1, <1>1, <1>2 DEF VoteInv, VotesBind, NoNewVote
  <2> QED
      BY <2>1, <2>2 DEF VotesBind, Granting
<1>5. VotesUnique'
  <2>1. ASSUME NEW m \in rpc', NEW n \in rpc', Granting(m), Granting(n),
               m.src = n.src, m.asked = n.asked
        PROVE  m.dst = n.dst
      BY <2>1, <1>3 DEF VoteInv, VotesUnique
  <2>2. ASSUME NEW m \in rpc', NEW i \in Server, Granting(m),
               m.src \in Supporters(i)', m.asked = currentTerm'[i]
        PROVE  m.dst = i
      BY <2>2, <1>2, <1>3 DEF VoteInv, VotesUnique
  <2>3. ASSUME NEW i \in Server, NEW j \in Server,
               Supporters(i)' \cap Supporters(j)' # {}, currentTerm'[i] = currentTerm'[j]
        PROVE  i = j
      BY <2>3, <1>2 DEF VoteInv, VotesUnique
  <2> QED
      BY <2>1, <2>2, <2>3 DEF VotesUnique, Granting
<1>6. LeadersElected'
    BY DEF VoteInv, LeadersElected, NoNewVote, Majority
<1> QED
    BY <1>4, <1>5, <1>6 DEF VoteInv

\* Messages that are no votes add no vote.
LEMMA ExchangeNoVote ==
    ASSUME NEW done, NEW sent, \A m \in sent : ~Granting(m), Exchange(done, sent)
    PROVE  \A m \in rpc' : Granting(m) => m \in rpc
BY DEF Exchange

LEMMA AnswerNoVote ==
    ASSUME NEW m, NEW reply, ~Granting(reply), Answer(m, reply)
    PROVE  \A n \in rpc' : Granting(n) => n \in rpc
BY ExchangeNoVote DEF Answer

\* A step that leaves terms, votes and roles alone.
LEMMA QuietNoNewVote ==
    ASSUME Typed, UNCHANGED <<termVars, state, votes>>,
           \A m \in rpc' : Granting(m) => m \in rpc
    PROVE  NoNewVote
BY DEF NoNewVote, termVars, Typed, PeersTyped

\* persist() brings the disk up to date when only peer i's fields changed.
LEMMA PersistInSync ==
    ASSUME Typed, DiskInSync, NEW i \in Server, Persist(i),
           \A j \in Server \ {i} :
              /\ currentTerm'[j] = currentTerm[j] /\ votedFor'[j] = votedFor[j]
              /\ log'[j] = log[j] /\ lii'[j] = lii[j]
    PROVE  DiskInSync'
<1>1. disk \in [Server -> DiskType]
    BY DEF Typed, DisksTyped
<1>2. disk'[i] = [term |-> currentTerm'[i], vote |-> votedFor'[i],
                  log  |-> log'[i],         lii  |-> lii'[i]]
    BY <1>1 DEF Persist
<1>3. \A j \in Server \ {i} : disk'[j] = disk[j]
    BY <1>1 DEF Persist
<1> QED
    BY <1>2, <1>3 DEF DiskInSync

LEMMA SameInSync ==
    ASSUME DiskInSync, UNCHANGED <<termVars, logVars, disk>>
    PROVE  DiskInSync'
BY DEF DiskInSync, termVars, logVars

LEMMA StepDownNoNewVote ==
    ASSUME Typed, DiskInSync, NEW m \in rpc, StepDown(m.dst, m.term),
           m.term > currentTerm[m.dst], Persist(m.dst), Exchange({m}, {}),
           UNCHANGED <<logVars, votes>>
    PROVE  NoNewVote /\ DiskInSync'
<1>1. m.dst \in Server /\ m.term \in Nat
    BY MessageTypes DEF Typed
<1>2. \A n \in rpc' : Granting(n) => n \in rpc
    BY ExchangeNoVote
<1>3. NoNewVote
    BY <1>1, <1>2 DEF NoNewVote, StepDown, Typed, PeersTyped
<1>4. DiskInSync'
    BY <1>1, PersistInSync DEF StepDown, logVars, Typed, PeersTyped
<1> QED
    BY <1>3, <1>4

\* Following a leader whose term is not behind.
LEMMA FollowNoNewVote ==
    ASSUME Typed, NEW i \in Server, NEW t \in Nat, t >= currentTerm[i], Follow(i, t),
           UNCHANGED votes, \A n \in rpc' : Granting(n) => n \in rpc
    PROVE  /\ NoNewVote
           /\ \A j \in Server \ {i} : currentTerm'[j] = currentTerm[j] /\ votedFor'[j] = votedFor[j]
BY DEF NoNewVote, Follow, Typed, PeersTyped

LEMMA AcceptEntriesNoNewVote ==
    ASSUME Typed, DiskInSync, NEW m \in rpc, AcceptEntries(m)
    PROVE  NoNewVote /\ DiskInSync'
<1>1. m.dst \in Server /\ m.term \in Nat
    BY MessageTypes DEF Typed
<1>2. \A n \in rpc' : Granting(n) => n \in rpc
    BY AnswerNoVote DEF AcceptEntries, AppendReply, Granting
<1>3. /\ NoNewVote
      /\ \A j \in Server \ {m.dst} : currentTerm'[j] = currentTerm[j] /\ votedFor'[j] = votedFor[j]
    BY <1>1, <1>2, FollowNoNewVote DEF AcceptEntries
<1>4. \A j \in Server \ {m.dst} : log'[j] = log[j] /\ lii'[j] = lii[j]
    BY DEF AcceptEntries, Typed, LogsTyped
<1>5. DiskInSync'
    BY <1>1, <1>3, <1>4, PersistInSync DEF AcceptEntries
<1> QED
    BY <1>3, <1>5

LEMMA RefuseEntriesNoNewVote ==
    ASSUME Typed, DiskInSync, NEW m \in rpc, RefuseEntries(m)
    PROVE  NoNewVote /\ DiskInSync'
<1>1. m.dst \in Server /\ m.term \in Nat
    BY MessageTypes DEF Typed
<1>2. \A n \in rpc' : Granting(n) => n \in rpc
  <2>1. PICK ct, ci : Answer(m, AppendReply(m, m.term, FALSE, 0, ct, ci))
      BY DEF RefuseEntries
  <2> QED
      BY <2>1, AnswerNoVote DEF AppendReply, Granting
<1>3. /\ NoNewVote
      /\ \A j \in Server \ {m.dst} : currentTerm'[j] = currentTerm[j] /\ votedFor'[j] = votedFor[j]
    BY <1>1, <1>2, FollowNoNewVote DEF RefuseEntries
<1>4. DiskInSync'
    BY <1>1, <1>3, PersistInSync DEF RefuseEntries, logVars
<1> QED
    BY <1>3, <1>4

LEMMA HandleInstallSnapshotNoNewVote ==
    ASSUME Typed, DiskInSync, NEW m \in rpc, HandleInstallSnapshot(m)
    PROVE  NoNewVote /\ DiskInSync'
<1>1. m.dst \in Server /\ m.term \in Nat
    BY MessageTypes DEF Typed
<1>2. \A n \in rpc' : Granting(n) => n \in rpc
    BY AnswerNoVote DEF HandleInstallSnapshot, SnapshotReply, Granting
<1>3. /\ NoNewVote
      /\ \A j \in Server \ {m.dst} : currentTerm'[j] = currentTerm[j] /\ votedFor'[j] = votedFor[j]
    BY <1>1, <1>2, FollowNoNewVote DEF HandleInstallSnapshot
<1>4. \A j \in Server \ {m.dst} : log'[j] = log[j] /\ lii'[j] = lii[j]
    BY DEF HandleInstallSnapshot, Typed, LogsTyped, logVars
<1>5. DiskInSync'
    BY <1>1, <1>3, <1>4, PersistInSync DEF HandleInstallSnapshot
<1> QED
    BY <1>3, <1>5

LEMMA RefuseStaleTermNoNewVote ==
    ASSUME Typed, DiskInSync, NEW m \in rpc, RefuseStaleTerm(m)
    PROVE  NoNewVote /\ DiskInSync'
<1>1. PICK reply : Answer(m, reply) /\ ~Granting(reply)
  <2>1. CASE m.type = "RequestVote"
      BY <2>1 DEF RefuseStaleTerm, VoteReply, Granting
  <2>2. CASE m.type = "AppendEntries"
      BY <2>2 DEF RefuseStaleTerm, AppendReply, Granting
  <2>3. CASE m.type = "InstallSnapshot"
      BY <2>3 DEF RefuseStaleTerm, SnapshotReply, Granting
  <2> QED
      BY <2>1, <2>2, <2>3 DEF RefuseStaleTerm
<1>2. \A n \in rpc' : Granting(n) => n \in rpc
    BY <1>1, AnswerNoVote
<1> QED
    BY <1>2, QuietNoNewVote, SameInSync DEF RefuseStaleTerm

\* A step that only takes a reply out, and changes what a leader knows.
LEMMA TakeNoNewVote ==
    ASSUME Typed, DiskInSync, NEW m \in rpc, Exchange({m}, {}),
           UNCHANGED <<termVars, logVars, disk, state, votes>>
    PROVE  NoNewVote /\ DiskInSync'
<1>1. \A n \in rpc' : Granting(n) => n \in rpc
    BY ExchangeNoVote
<1> QED
    BY <1>1, QuietNoNewVote, SameInSync

LEMMA SendNoNewVote ==
    ASSUME Typed, DiskInSync, NEW i \in Server, NEW j \in Server,
           SendAppendEntries(i, j) \/ SnapshotNeeded(i, j) \/ SendInstallSnapshot(i, j)
    PROVE  NoNewVote /\ DiskInSync'
<1>1. CASE SendAppendEntries(i, j)
  <2>1. \A n \in rpc' : Granting(n) => n \in rpc
      BY <1>1, ExchangeNoVote DEF SendAppendEntries, Granting
  <2> QED
      BY <1>1, <2>1, QuietNoNewVote, SameInSync DEF SendAppendEntries
<1>2. CASE SnapshotNeeded(i, j)
    BY <1>2, QuietNoNewVote, SameInSync DEF SnapshotNeeded
<1>3. CASE SendInstallSnapshot(i, j)
  <2>1. \A n \in rpc' : Granting(n) => n \in rpc
      BY <1>3, ExchangeNoVote DEF SendInstallSnapshot, Granting
  <2> QED
      BY <1>3, <2>1, QuietNoNewVote, SameInSync DEF SendInstallSnapshot
<1> QED
    BY <1>1, <1>2, <1>3

\* Start and Snapshot change a log, and bring the disk up to date.
LEMMA StartNoNewVote ==
    ASSUME Typed, DiskInSync, NEW i \in Server, Start(i)
    PROVE  NoNewVote /\ DiskInSync'
<1>1. NoNewVote
    BY QuietNoNewVote DEF Start
<1>2. DiskInSync'
    BY PersistInSync DEF Start, termVars, Typed, LogsTyped
<1> QED
    BY <1>1, <1>2

LEMMA SnapshotNoNewVote ==
    ASSUME Typed, DiskInSync, NEW i \in Server, NEW index, Snapshot(i, index)
    PROVE  NoNewVote /\ DiskInSync'
<1>1. NoNewVote
    BY QuietNoNewVote DEF Snapshot
<1>2. DiskInSync'
    BY PersistInSync DEF Snapshot, termVars, Typed, LogsTyped
<1> QED
    BY <1>1, <1>2

\* What a peer restarts from is what it acted on.
LEMMA RestartNoNewVote ==
    ASSUME Typed, DiskInSync, NEW i \in Server, Restart(i)
    PROVE  NoNewVote /\ DiskInSync'
<1>1. /\ currentTerm' = currentTerm /\ votedFor' = votedFor
      /\ log' = log /\ lii' = lii
  <2>1. /\ disk[i].term = currentTerm[i] /\ disk[i].vote = votedFor[i]
        /\ disk[i].log = log[i] /\ disk[i].lii = lii[i]
    <3>1. disk[i] = [term |-> currentTerm[i], vote |-> votedFor[i],
                     log  |-> log[i],         lii  |-> lii[i]]
        BY DEF DiskInSync
    <3> QED
        BY <3>1
  <2>2. currentTerm' = currentTerm /\ votedFor' = votedFor
      BY <2>1 DEF Restart, Typed, PeersTyped
  <2>3. log' = log /\ lii' = lii
      BY <2>1 DEF Restart, Typed, LogsTyped
  <2> QED
      BY <2>2, <2>3
<1>2. \A n \in rpc' : Granting(n) => n \in rpc
  <2>1. ASSUME NEW m \in rpc', Granting(m) PROVE m \in rpc
    <3>1. PICK n \in rpc : m = IF n.src = i /\ n.type \in {"RequestVote", "AppendEntries", "InstallSnapshot"}
                                 THEN [n EXCEPT !.live = FALSE] ELSE n
        BY DEF Restart, Orphaned
    <3>2. CASE /\ n.type \in {"RequestVote", "AppendEntries", "InstallSnapshot"}
               /\ m = [n EXCEPT !.live = FALSE]
      <4>1. n \in Requests
          BY <3>2, MessageTypes DEF Typed
      <4>2. m.type = n.type
          BY <3>2, <4>1 DEF Requests
      <4> QED
          BY <2>1, <3>2, <4>2 DEF Granting
    <3> QED
        BY <3>1, <3>2
  <2> QED
      BY <2>1
<1>3. NoNewVote
    BY <1>1, <1>2 DEF NoNewVote, Restart, Typed, PeersTyped
<1>4. DiskInSync'
    BY <1>1 DEF Restart, DiskInSync
<1> QED
    BY <1>3, <1>4

\* The three steps that cast or count a vote.

LEMMA StartElectionVote ==
    ASSUME Typed, Typed', DiskInSync, VoteInv, NEW i \in Server, StartElection(i)
    PROVE  VoteInv' /\ DiskInSync'
<1>1. /\ currentTerm[i] \in Nat /\ \A j \in Server : currentTerm[j] \in Nat
      /\ currentTerm'[i] = currentTerm[i] + 1 /\ votedFor'[i] = i
      /\ state'[i] = "Candidate" /\ votes'[i] = {i}
      /\ \A j \in Server \ {i} : /\ currentTerm'[j] = currentTerm[j]
                                 /\ votedFor'[j] = votedFor[j]
                                 /\ state'[j] = state[j] /\ votes'[j] = votes[j]
    BY DEF StartElection, Typed, PeersTyped
<1>2. \A m \in rpc' : Granting(m) => m \in rpc
    BY ExchangeNoVote DEF StartElection, Granting
<1>3. \A m \in rpc' : Granting(m) => /\ m \in rpc /\ m.src \in Server
                                    /\ m.dst \in Server /\ m.asked \in Nat
    BY <1>2, MessageTypes DEF Typed, Granting
<1>4. Supporters(i)' = {i} /\ \A j \in Server \ {i} : Supporters(j)' = Supporters(j)
    BY <1>1 DEF Supporters
<1>5. \A j \in Server : Supporters(j) \subseteq Server
    BY DEF Supporters, Typed, PeersTyped
<1>6. VotesBind'
  <2>1. ASSUME NEW m \in rpc', Granting(m)
        PROVE  /\ m.asked <= currentTerm'[m.src]
               /\ m.asked = currentTerm'[m.src] => votedFor'[m.src] = m.dst
      BY <2>1, <1>1, <1>3 DEF VoteInv, VotesBind
  <2>2. ASSUME NEW k \in Server, NEW j \in Supporters(k)'
        PROVE  /\ currentTerm'[k] <= currentTerm'[j]
               /\ currentTerm'[k] = currentTerm'[j] => votedFor'[j] = k
    <3>1. CASE k = i
        BY <3>1, <1>1, <1>4
    <3>2. CASE k # i
        BY <3>2, <1>1, <1>4, <1>5 DEF VoteInv, VotesBind
    <3> QED
        BY <3>1, <3>2
  <2> QED
      BY <2>1, <2>2 DEF VotesBind, Granting
<1>7. VotesUnique'
  <2>1. ASSUME NEW m \in rpc', NEW n \in rpc', Granting(m), Granting(n),
               m.src = n.src, m.asked = n.asked
        PROVE  m.dst = n.dst
      BY <2>1, <1>3 DEF VoteInv, VotesUnique
  <2>2. ASSUME NEW m \in rpc', NEW k \in Server, Granting(m),
               m.src \in Supporters(k)', m.asked = currentTerm'[k]
        PROVE  m.dst = k
    <3>1. CASE k = i
        BY <3>1, <2>2, <1>1, <1>3, <1>4 DEF VoteInv, VotesBind
    <3>2. CASE k # i
        BY <3>2, <2>2, <1>1, <1>3, <1>4 DEF VoteInv, VotesUnique
    <3> QED
        BY <3>1, <3>2
  <2>3. ASSUME NEW k \in Server, NEW j \in Server,
               Supporters(k)' \cap Supporters(j)' # {}, currentTerm'[k] = currentTerm'[j]
        PROVE  k = j
    <3>1. ASSUME NEW a \in Server \ {i}, i \in Supporters(a)
          PROVE  currentTerm'[a] # currentTerm'[i]
        BY <3>1, <1>1 DEF VoteInv, VotesBind
    <3> QED
        BY <2>3, <3>1, <1>1, <1>4 DEF VoteInv, VotesUnique
  <2> QED
      BY <2>1, <2>2, <2>3 DEF VotesUnique, Granting
<1>8. LeadersElected'
    BY <1>1 DEF VoteInv, LeadersElected, Majority
<1>9. DiskInSync'
    BY <1>1, PersistInSync DEF StartElection, logVars
<1> QED
    BY <1>6, <1>7, <1>8, <1>9 DEF VoteInv

LEMMA HandleRequestVoteVote ==
    ASSUME Typed, Typed', DiskInSync, VoteInv, NEW m \in rpc, HandleRequestVote(m)
    PROVE  VoteInv' /\ DiskInSync'
<1> DEFINE i     == m.dst
           new   == m.term > currentTerm[i]
           v     == IF new THEN Nil ELSE votedFor[i]
           yes   == Grants(i, m, v)
           reply == VoteReply(m, m.term, yes)
<1>1. /\ i \in Server /\ m.src \in Server /\ m.term \in Nat
      /\ \A j \in Server : currentTerm[j] \in Nat
    BY MessageTypes DEF Typed, PeersTyped
<1>2. /\ m.term >= currentTerm[i] /\ currentTerm'[i] = m.term
      /\ votedFor'[i] = IF yes THEN m.src ELSE v
      /\ state'[i] = IF new THEN "Follower" ELSE state[i]
      /\ \A j \in Server \ {i} : /\ currentTerm'[j] = currentTerm[j]
                                 /\ votedFor'[j] = votedFor[j]
                                 /\ state'[j] = state[j]
      /\ votes' = votes
    BY <1>1 DEF HandleRequestVote, Typed, PeersTyped
<1>3. yes => v \in {Nil, m.src}
    BY DEF Grants
<1>4. \A k \in Server : \A j \in Supporters(k)' :
          j \in Server /\ j \in Supporters(k) /\ currentTerm'[k] = currentTerm[k]
  <2> SUFFICES ASSUME NEW k \in Server, NEW j \in Supporters(k)'
               PROVE  /\ j \in Server /\ j \in Supporters(k)
                      /\ currentTerm'[k] = currentTerm[k]
      OBVIOUS
  <2>1. j \in votes[k] /\ state'[k] # "Follower" /\ j \in Server
      BY <1>2 DEF Supporters, Typed, PeersTyped
  <2>2. CASE k # i
      BY <2>1, <2>2, <1>2 DEF Supporters
  <2>3. CASE k = i
    <3>1. ~new /\ state'[k] = state[k]
        BY <2>1, <2>3, <1>2
    <3>2. m.term = currentTerm[k]
        BY <2>3, <3>1, <1>1, <1>2
    <3> QED
        BY <2>1, <2>3, <3>1, <3>2, <1>2 DEF Supporters
  <2> QED
      BY <2>2, <2>3
<1>5. reply.src = i /\ reply.dst = m.src /\ reply.asked = m.term /\ reply.granted = yes
    BY DEF VoteReply
<1>6. \A n \in rpc' : Granting(n) => n \in rpc \/ (n = reply /\ yes)
    BY <1>5 DEF HandleRequestVote, Answer, Exchange, Granting
<1>7. \A n \in rpc : Granting(n) => /\ n.src \in Server /\ n.dst \in Server /\ n.asked \in Nat
    BY MessageTypes DEF Typed, Granting
<1> HIDE DEF reply, yes
\* A vote of i before this step, in flight or counted, in the request's term,
\* is for the caller if this step grants one.
<1>8. ASSUME yes, NEW n \in rpc, Granting(n), n.src = i, n.asked = m.term
      PROVE  n.dst = m.src
  <2>1. n.asked <= currentTerm[i] /\ (n.asked = currentTerm[i] => votedFor[i] = n.dst)
      BY <1>8 DEF VoteInv, VotesBind
  <2> QED
      BY <2>1, <1>8, <1>1, <1>2, <1>3, <1>7, ServerAssumption
<1>9. ASSUME yes, NEW k \in Server, i \in Supporters(k)', currentTerm'[k] = m.term
      PROVE  k = m.src
  <2>1. /\ currentTerm[k] <= currentTerm[i]
        /\ currentTerm[k] = currentTerm[i] => votedFor[i] = k
      BY <1>9, <1>4 DEF VoteInv, VotesBind
  <2>2. currentTerm[k] = m.term
      BY <1>9, <1>4
  <2> QED
      BY <2>1, <2>2, <1>9, <1>1, <1>2, <1>3, ServerAssumption
<1>10. VotesBind'
  <2>1. ASSUME NEW n \in rpc', Granting(n)
        PROVE  /\ n.asked <= currentTerm'[n.src]
               /\ n.asked = currentTerm'[n.src] => votedFor'[n.src] = n.dst
    <3>1. CASE n = reply /\ yes
        BY <3>1, <1>1, <1>2, <1>5
    <3>2. CASE n \in rpc /\ n.src # i
        BY <3>2, <2>1, <1>2, <1>7 DEF VoteInv, VotesBind
    <3>3. CASE n \in rpc /\ n.src = i
      <4>1. n.asked <= currentTerm[i] /\ (n.asked = currentTerm[i] => votedFor[i] = n.dst)
          BY <3>3, <2>1 DEF VoteInv, VotesBind
      <4>2. n.asked \in Nat
          BY <3>3, <2>1, <1>7
      <4>3. CASE yes
          BY <4>1, <4>2, <4>3, <3>3, <2>1, <1>1, <1>2, <1>8
      <4>4. CASE ~yes
          BY <4>1, <4>2, <4>4, <3>3, <1>1, <1>2
      <4> QED
          BY <4>3, <4>4
    <3> QED
        BY <2>1, <3>1, <3>2, <3>3, <1>6
  <2>2. ASSUME NEW k \in Server, NEW j \in Supporters(k)'
        PROVE  /\ currentTerm'[k] <= currentTerm'[j]
               /\ currentTerm'[k] = currentTerm'[j] => votedFor'[j] = k
    <3>1. /\ j \in Server /\ currentTerm'[k] = currentTerm[k]
          /\ currentTerm[k] <= currentTerm[j]
          /\ currentTerm[k] = currentTerm[j] => votedFor[j] = k
        BY <1>4 DEF VoteInv, VotesBind
    <3>2. CASE j # i
        BY <3>1, <3>2, <1>2
    <3>3. CASE j = i /\ yes
        BY <3>1, <3>3, <1>1, <1>2, <1>9
    <3>4. CASE j = i /\ ~yes
        BY <3>1, <3>4, <1>1, <1>2
    <3> QED
        BY <3>2, <3>3, <3>4
  <2> QED
      BY <2>1, <2>2 DEF VotesBind, Granting
<1>11. VotesUnique'
  <2>1. ASSUME NEW a \in rpc', NEW b \in rpc', Granting(a), Granting(b),
               a.src = b.src, a.asked = b.asked
        PROVE  a.dst = b.dst
    <3>1. CASE a \in rpc /\ b \in rpc
        BY <2>1, <3>1 DEF VoteInv, VotesUnique
    <3>2. CASE a \in rpc /\ b = reply /\ yes
        BY <2>1, <3>2, <1>5, <1>8
    <3>3. CASE a = reply /\ b \in rpc /\ yes
        BY <2>1, <3>3, <1>5, <1>8
    <3> QED
        BY <2>1, <3>1, <3>2, <3>3, <1>6
  <2>2. ASSUME NEW n \in rpc', NEW k \in Server, Granting(n),
               n.src \in Supporters(k)', n.asked = currentTerm'[k]
        PROVE  n.dst = k
    <3>1. CASE n \in rpc
        BY <2>2, <3>1, <1>4 DEF VoteInv, VotesUnique
    <3>2. CASE n = reply /\ yes
        BY <2>2, <3>2, <1>5, <1>9
    <3> QED
        BY <2>2, <3>1, <3>2, <1>6
  <2>3. ASSUME NEW k \in Server, NEW j \in Server,
               Supporters(k)' \cap Supporters(j)' # {}, currentTerm'[k] = currentTerm'[j]
        PROVE  k = j
      BY <2>3, <1>4 DEF VoteInv, VotesUnique
  <2> QED
      BY <2>1, <2>2, <2>3 DEF VotesUnique, Granting
<1>12. LeadersElected'
    BY <1>2 DEF VoteInv, LeadersElected, Majority
<1>13. DiskInSync'
    BY <1>1, <1>2, PersistInSync DEF HandleRequestVote, logVars
<1> QED
    BY <1>10, <1>11, <1>12, <1>13 DEF VoteInv

LEMMA HandleVoteReplyVote ==
    ASSUME Typed, Typed', DiskInSync, VoteInv, NEW m \in rpc, HandleVoteReply(m)
    PROVE  VoteInv' /\ DiskInSync'
<1> DEFINE i == m.dst
           v == IF m.granted THEN votes[i] \cup {m.src} ELSE votes[i]
<1>1. /\ i \in Server /\ m.src \in Server /\ m.asked = currentTerm[i]
      /\ state[i] = "Candidate" /\ m.type = "VoteReply"
    BY MessageTypes DEF Typed, HandleVoteReply, CountsFor
<1>2. currentTerm' = currentTerm /\ votedFor' = votedFor /\ votes'[i] = v
    BY <1>1 DEF HandleVoteReply, termVars, Typed, PeersTyped
<1>3. \A k \in Server \ {i} : votes'[k] = votes[k] /\ state'[k] = state[k]
    BY <1>1 DEF HandleVoteReply, BecomeLeader, Typed, PeersTyped
<1>4. state'[i] = "Candidate" \/ (state'[i] = "Leader" /\ Majority(v))
    BY <1>1 DEF HandleVoteReply, BecomeLeader, Typed, PeersTyped
<1>5. \A n \in rpc' : Granting(n) => n \in rpc
    BY ExchangeNoVote DEF HandleVoteReply
\* Who supports whom afterwards: as before, and the voter if it granted.
<1>6. \A k \in Server : \A j \in Supporters(k)' :
          \/ j \in Supporters(k)
          \/ k = i /\ j = m.src /\ Granting(m)
    BY <1>1, <1>2, <1>3 DEF Supporters, Granting
<1>7. VotesBind'
    BY <1>1, <1>2, <1>5, <1>6 DEF VoteInv, VotesBind, Granting
<1>8. VotesUnique'
  <2>1. ASSUME NEW a \in rpc', NEW b \in rpc', Granting(a), Granting(b),
               a.src = b.src, a.asked = b.asked
        PROVE  a.dst = b.dst
      BY <2>1, <1>5 DEF VoteInv, VotesUnique
  <2>2. ASSUME NEW n \in rpc', NEW k \in Server, Granting(n),
               n.src \in Supporters(k)', n.asked = currentTerm'[k]
        PROVE  n.dst = k
      BY <2>2, <1>1, <1>2, <1>5, <1>6 DEF VoteInv, VotesUnique
  <2>3. ASSUME NEW k \in Server, NEW l \in Server, NEW j \in Supporters(k)',
               j \in Supporters(l)', currentTerm'[k] = currentTerm'[l]
        PROVE  k = l
    <3>1. currentTerm[k] = currentTerm[l]
        BY <2>3, <1>2
    <3>2. CASE j \in Supporters(k) /\ j \in Supporters(l)
        BY <3>1, <3>2 DEF VoteInv, VotesUnique
    <3>3. CASE j \in Supporters(k) /\ l = i /\ j = m.src /\ Granting(m)
        BY <3>1, <3>3, <1>1 DEF VoteInv, VotesUnique
    <3>4. CASE j \in Supporters(l) /\ k = i /\ j = m.src /\ Granting(m)
        BY <3>1, <3>4, <1>1 DEF VoteInv, VotesUnique
    <3> QED
        BY <2>3, <3>2, <3>3, <3>4, <1>6
  <2> QED
      BY <2>1, <2>2, <2>3 DEF VotesUnique, Granting
<1>9. LeadersElected'
    BY <1>1, <1>2, <1>3, <1>4 DEF VoteInv, LeadersElected, Majority
<1>10. DiskInSync'
    BY SameInSync DEF HandleVoteReply
<1> QED
    BY <1>7, <1>8, <1>9, <1>10 DEF VoteInv

\* Every other handler casts and counts no vote.
LEMMA ReceiveNoNewVote ==
    ASSUME Typed, DiskInSync, NEW m \in rpc, Receive(m),
           ~HandleRequestVote(m), ~HandleVoteReply(m)
    PROVE  NoNewVote /\ DiskInSync'
<1>1. CASE IgnoreVoteReply(m)
    BY <1>1, TakeNoNewVote DEF IgnoreVoteReply
<1>2. CASE VoteReplyStepDown(m)
    BY <1>2, StepDownNoNewVote DEF VoteReplyStepDown
<1>3. CASE AcceptEntries(m)          BY <1>3, AcceptEntriesNoNewVote
<1>4. CASE RefuseEntries(m)          BY <1>4, RefuseEntriesNoNewVote
<1>5. CASE HandleAppendSuccess(m)
    BY <1>5, TakeNoNewVote DEF HandleAppendSuccess
<1>6. CASE HandleAppendConflict(m)
    BY <1>6, TakeNoNewVote DEF HandleAppendConflict
<1>7. CASE IgnoreAppendReply(m)
    BY <1>7, TakeNoNewVote DEF IgnoreAppendReply
<1>8. CASE ReplyStepDown(m)
    BY <1>8, StepDownNoNewVote DEF ReplyStepDown
<1>9. CASE HandleInstallSnapshot(m)  BY <1>9, HandleInstallSnapshotNoNewVote
<1>10. CASE HandleSnapshotReply(m)
    BY <1>10, TakeNoNewVote DEF HandleSnapshotReply
<1>11. CASE IgnoreSnapshotReply(m)
    BY <1>11, TakeNoNewVote DEF IgnoreSnapshotReply
<1>12. CASE RefuseStaleTerm(m)       BY <1>12, RefuseStaleTermNoNewVote
<1> QED
    BY <1>1, <1>2, <1>3, <1>4, <1>5, <1>6, <1>7, <1>8, <1>9, <1>10, <1>11,
       <1>12 DEF Receive

LEMMA ReceiveVote ==
    ASSUME Typed, Typed', DiskInSync, VoteInv, NEW m \in rpc, Receive(m)
    PROVE  VoteInv' /\ DiskInSync'
<1>1. CASE HandleRequestVote(m)      BY <1>1, HandleRequestVoteVote
<1>2. CASE HandleVoteReply(m)        BY <1>2, HandleVoteReplyVote
<1>3. CASE ~HandleRequestVote(m) /\ ~HandleVoteReply(m)
    BY <1>3, ReceiveNoNewVote, NoNewVoteKeepsVoteInv
<1> QED
    BY <1>1, <1>2, <1>3

\* ElectionInv is inductive: no step, a crash at any point included, casts a
\* second vote of a peer in a term or counts one that was not cast.
THEOREM VotesBinding == Spec => []ElectionInv
<1>1. Init => ElectionInv
    BY DEF Init, ElectionInv, DiskInSync, VotesBind, VotesUnique, LeadersElected, Supporters
<1>2. TypeOK /\ TypeOK' /\ ElectionInv /\ [Next]_vars => ElectionInv'
  <2> SUFFICES ASSUME Typed, Typed', DiskInSync, VoteInv, [Next]_vars
               PROVE  VoteInv' /\ DiskInSync'
      BY TypedIsTypeOK DEF ElectionInv, VoteInv, Typed, TypeOK, SnapshotWithinLog,
         PeersTyped, LogsTyped, DisksTyped, DiskType, WellFormed
  <2>1. ASSUME NEW i \in Server, StartElection(i) PROVE VoteInv' /\ DiskInSync'
      BY <2>1, StartElectionVote
  <2>2. ASSUME NEW i \in Server, Start(i) PROVE VoteInv' /\ DiskInSync'
      BY <2>2, StartNoNewVote, NoNewVoteKeepsVoteInv
  <2>3. ASSUME NEW i \in Server, Restart(i) PROVE VoteInv' /\ DiskInSync'
      BY <2>3, RestartNoNewVote, NoNewVoteKeepsVoteInv
  <2>4. ASSUME NEW i \in Server, NEW j \in Server,
               SendAppendEntries(i, j) \/ SnapshotNeeded(i, j) \/ SendInstallSnapshot(i, j)
        PROVE  VoteInv' /\ DiskInSync'
      BY <2>4, SendNoNewVote, NoNewVoteKeepsVoteInv
  <2>5. ASSUME NEW i \in Server, NEW index, Snapshot(i, index)
        PROVE  VoteInv' /\ DiskInSync'
      BY <2>5, SnapshotNoNewVote, NoNewVoteKeepsVoteInv
  <2>6. ASSUME NEW m \in rpc, Receive(m) PROVE VoteInv' /\ DiskInSync'
      BY <2>6, ReceiveVote
  <2>7. CASE UNCHANGED vars
    <3>1. NoNewVote
        BY <2>7, QuietNoNewVote DEF vars, termVars
    <3>2. DiskInSync'
        BY <2>7, SameInSync DEF vars, termVars, logVars
    <3> QED
        BY <3>1, <3>2, NoNewVoteKeepsVoteInv
  <2> QED
      BY <2>1, <2>2, <2>3, <2>4, <2>5, <2>6, <2>7 DEF Next
<1> QED
    BY <1>1, <1>2, TypeCorrect, PTL DEF Spec

\* No term has two leaders: each has counted a majority, the majorities meet,
\* and no peer votes twice.
THEOREM OneLeaderPerTerm == Spec => []ElectionSafety
<1>1. TypeOK /\ ElectionInv => ElectionSafety
  <2> SUFFICES ASSUME TypeOK, ElectionInv, NEW i \in Server, NEW j \in Server,
                      state[i] = "Leader", state[j] = "Leader",
                      currentTerm[i] = currentTerm[j]
               PROVE  i = j
      BY DEF ElectionSafety
  <2>1. votes[i] \in SUBSET Server /\ votes[j] \in SUBSET Server
      BY DEF TypeOK
  <2>2. Majority(votes[i]) /\ Majority(votes[j])
      BY DEF ElectionInv, LeadersElected
  <2>3. votes[i] \cap votes[j] # {}
      BY <2>1, <2>2, MajoritiesMeet
  <2>4. Supporters(i) = votes[i] /\ Supporters(j) = votes[j]
      BY DEF Supporters
  <2> QED
      BY <2>3, <2>4 DEF ElectionInv, VotesUnique
<1> QED
    BY <1>1, TypeCorrect, VotesBinding, PTL

\* No step takes a term back or changes a vote within a term.
LEMMA StepKeepsVotes ==
    ASSUME Typed, DiskInSync, [Next]_vars
    PROVE  \A i \in Server :
              /\ currentTerm'[i] >= currentTerm[i]
              /\ currentTerm'[i] = currentTerm[i] /\ votedFor[i] # Nil
                   => votedFor'[i] = votedFor[i]
<1> DEFINE Kept == \A i \in Server :
                      /\ currentTerm'[i] >= currentTerm[i]
                      /\ currentTerm'[i] = currentTerm[i] /\ votedFor[i] # Nil
                           => votedFor'[i] = votedFor[i]
<1>1. NoNewVote => Kept
    BY DEF NoNewVote
<1>2. ASSUME NEW i \in Server, StartElection(i) PROVE Kept
    BY <1>2 DEF StartElection, Typed, PeersTyped
<1>3. ASSUME NEW i \in Server, Start(i) PROVE Kept
    BY <1>1, <1>3, StartNoNewVote
<1>4. ASSUME NEW i \in Server, Restart(i) PROVE Kept
    BY <1>1, <1>4, RestartNoNewVote
<1>5. ASSUME NEW i \in Server, NEW j \in Server,
             SendAppendEntries(i, j) \/ SnapshotNeeded(i, j) \/ SendInstallSnapshot(i, j)
      PROVE  Kept
    BY <1>1, <1>5, SendNoNewVote
<1>6. ASSUME NEW i \in Server, NEW index, Snapshot(i, index) PROVE Kept
    BY <1>1, <1>6, SnapshotNoNewVote
<1>7. ASSUME NEW m \in rpc, HandleRequestVote(m) PROVE Kept
  <2>1. m.dst \in Server /\ m.term \in Nat
      BY MessageTypes DEF Typed
  <2> QED
      BY <2>1, <1>7 DEF HandleRequestVote, Grants, Typed, PeersTyped
<1>8. ASSUME NEW m \in rpc, HandleVoteReply(m) PROVE Kept
    BY <1>8 DEF HandleVoteReply, termVars, Typed, PeersTyped
<1>9. ASSUME NEW m \in rpc, Receive(m), ~HandleRequestVote(m), ~HandleVoteReply(m)
      PROVE  Kept
    BY <1>1, <1>9, ReceiveNoNewVote
<1>10. CASE UNCHANGED vars
    BY <1>10 DEF vars, Typed, PeersTyped
<1> QED
    BY <1>2, <1>3, <1>4, <1>5, <1>6, <1>7, <1>8, <1>9, <1>10 DEF Next

\* The same as an action property: not even a crash between a vote and its
\* reply takes it back.
THEOREM VotesKept == Spec => VoteKept
<1> DEFINE Kept == \A i \in Server :
                      /\ currentTerm'[i] >= currentTerm[i]
                      /\ currentTerm'[i] = currentTerm[i] /\ votedFor[i] # Nil
                           => votedFor'[i] = votedFor[i]
<1>1. TypeOK /\ ElectionInv /\ [Next]_vars => [Kept]_vars
    BY TypedIsTypeOK, StepKeepsVotes DEF ElectionInv
<1>2. VoteKept <=> [][Kept]_vars
    BY DEF VoteKept
<1> QED
    BY <1>1, <1>2, TypeCorrect, VotesBinding, PTL DEF Spec

=============================================================================
