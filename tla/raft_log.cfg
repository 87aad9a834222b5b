\* Two peers lead in turn over four terms, with two commands each; s2 takes snapshots.
SPECIFICATION Spec
CONSTANTS
    Server = {s1, s2, s3}
    s1 = s1  s2 = s2  s3 = s3
    Nil = Nil
    Standing <- FourTurns
    Submitting <- FirstTwo
    MaxInFlight = 2
    Links <- Partitioned
    Crashing = {}
    Compacting <- Only2
    LateReplies = {}
VIEW View
INVARIANTS LogMatching LeaderCompleteness CommitHasQuorum NextIndexInLog CompactedCommittedHeld
PROPERTIES CommitMonotonic
\* A run ends where every bound is used up.
CHECK_DEADLOCK FALSE
