SPECIFICATION Spec
CONSTANTS
    Nobody = Nobody
    Senders = {s1, s2, s3, s4, s5}
    Receivers = {r1, r2, r3}
    Priority = {s1, r1}
    Capacity = 3
    Together = TRUE
INVARIANTS HalfDuplex
CHECK_DEADLOCK FALSE
