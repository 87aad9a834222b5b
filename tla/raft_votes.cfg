\* Two peers against each other in two terms; all crash, compact and answer late.
SPECIFICATION Spec
CONSTANTS
    Server = {s1, s2, s3}
    s1 = s1  s2 = s2  s3 = s3
    Nil = Nil
    Standing <- TwoTerms
    Submitting <- OneEach
    MaxInFlight = 2
    Links <- ThenThird
    Crashing <- Server
    Compacting <- Server
    LateReplies = {1, 2}
SYMMETRY Rivals
VIEW View
INVARIANTS TypeOK ElectionSafety ElectionInv
PROPERTIES VoteKept CommittedKept
\* A run ends where every bound is used up.
CHECK_DEADLOCK FALSE
