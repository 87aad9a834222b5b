------------------------------- MODULE MCRaft -------------------------------
(* Three peers and what each run lets their environment do. *)
EXTENDS Raft, TLC

CONSTANTS s1, s2, s3

Rivals == Permutations({s1, s2})

\* The connections.  ThenThird: all of them in term 1, in term 2 only s3 hears
\* the rivals.  Partitioned: s1 leads term 1 with s2's vote alone, after which
\* s3 decides each term and the other rival hears nothing.  Reunited: s3 decides
\* from the start, until s2 in term 4 also reaches s1.
ThenThird   == ({s1, s2} \X {1} \X Server) \cup ({s1, s2} \X {2} \X {s3})
Partitioned == {<<s1, 1, s2>>, <<s2, 2, s3>>, <<s1, 3, s3>>, <<s2, 4, s3>>}
Reunited    == {<<s1, 1, s3>>, <<s2, 2, s3>>, <<s1, 3, s3>>,
                <<s2, 4, s3>>, <<s2, 4, s1>>, <<s1, 5, s3>>}

\* The elections: s1 and s2 against each other in two terms, or in turn.
TwoTerms  == {s1, s2} \X (1 .. 2)
FourTurns == {<<s1, 1>>, <<s2, 2>>, <<s1, 3>>, <<s2, 4>>}
FiveTurns == {<<s1, 1>>, <<s2, 1>>, <<s2, 2>>, <<s1, 3>>, <<s2, 4>>, <<s1, 5>>}

\* The commands: one to whoever leads; two to each of the first two leaders;
\* those that make three leaders disagree.
OneEach == Server \X (1 .. 2) \X {1}
FirstTwo == {<<s1, 1, 1>>, <<s1, 1, 2>>, <<s2, 2, 1>>, <<s2, 2, 2>>}
FirstSecondLast == {<<s1, 1, 1>>, <<s1, 1, 2>>, <<s2, 2, 1>>, <<s1, 5, 2>>}

\* The peers that take snapshots when only one does.
Only2 == {s2}

\* What tells two states apart: a peer that no longer leads keeps the indexes
\* and the votes of its last candidacy, and nothing reads them again before
\* BecomeLeader or StartElection sets them.
View ==
    <<currentTerm, votedFor, log, lii, disk, state, commitIndex, snapDue, rpc,
      [i \in Server |-> IF state[i] = "Follower" THEN {} ELSE votes[i]],
      [i \in Server |-> IF state[i] = "Leader" THEN <<nextIndex[i], matchIndex[i]>> ELSE <<>>]>>

=============================================================================
