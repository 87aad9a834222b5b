\* A success reply of an earlier term of the leader arrives in a later one.
SPECIFICATION Spec
CONSTANTS
    Server = {s1, s2, s3}
    s1 = s1  s2 = s2  s3 = s3
    Nil = Nil
    Standing <- FiveTurns
    Submitting <- FirstSecondLast
    MaxInFlight = 2
    Links <- Reunited
    Crashing = {}
    Compacting = {}
    LateReplies = {3}
VIEW View
INVARIANTS CommitHasQuorum
\* A run ends where every bound is used up.
CHECK_DEADLOCK FALSE
