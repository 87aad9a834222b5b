SPECIFICATION Spec
CONSTANTS
    None = None
    Workers = {w1, w2, w3}
    Maps = {m1, m2}
    Reduces = {r1, r2}
    Slow = {w1}
    Crashing = {}
INVARIANTS DoneIsFinished
CHECK_DEADLOCK FALSE
