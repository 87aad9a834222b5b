\* Four nodes, lists of two; nodes 1 to 3 may crash, and node 1 may answer a ping late.
SPECIFICATION Spec
CONSTANTS
    Nodes = {1, 2, 3, 4}
    First = 1
    NumberOfSuccessors = 2
    Nobody = Nobody
    Contacts <- Chain
    Mortal = {1, 2, 3}
    Slow = {1}
INVARIANTS TypeOK Connected
PROPERTIES SuccessorImproves RingConverges
\* Nothing is left to run when the last node has crashed.
CHECK_DEADLOCK FALSE
