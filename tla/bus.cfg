SPECIFICATION BusSpec
CONSTANTS
    Nobody = Nobody
    Senders = {s1, s2, s3, s4}
    Receivers = {r1, r2, r3}
    Priority = {s1, r1}
    Capacity = 2
    Together = TRUE
    Threads = {s1, s2, s3, s4, r1, r2, r3}
    Brief = {s4}
    Lateness = 1
    TransferDuration <- Durations
INVARIANTS TypeOK SlotsAccounted WaitersCounted WakeupsReserved NotOverbooked SleepersInOrder
PROPERTIES AllServed TransfersEnd WokenOnTime
CHECK_DEADLOCK FALSE
