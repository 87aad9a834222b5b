SPECIFICATION Spec
CONSTANTS
    Nobody = Nobody
    Senders = {s1, s2, s3, s4}
    Receivers = {}
    Priority = {}
    Capacity = 2
    Together = FALSE
PROPERTIES AllServed
CHECK_DEADLOCK FALSE
