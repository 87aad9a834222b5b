\* One of two workers may die; the other is quick and answers in time.
SPECIFICATION Spec
CONSTANTS
    None = None
    Workers = {w1, w2}
    Maps = {m1, m2}
    Reduces = {r1}
    Slow = {}
    Overloaded = {}
    Crashing = {w1}
PROPERTIES Rearranged
\* All ends with the coordinator.
CHECK_DEADLOCK FALSE
