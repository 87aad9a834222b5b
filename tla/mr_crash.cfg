SPECIFICATION Spec
CONSTANTS
    None = None
    Workers = {w1, w2, w3}
    Maps = {m1, m2}
    Reduces = {r1, r2}
    Slow = {}
    Crashing = {w1, w2}
INVARIANTS TypeOK MapOutputsHeld CountsAgree
PROPERTIES ImplementsJob JobEnds
CHECK_DEADLOCK FALSE
