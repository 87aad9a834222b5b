\* A log of four entries, one restart.
SPECIFICATION Spec
CONSTANTS
    MaxIndex = 4
    MaxCrashes = 1
INVARIANTS DeliveryInv
PROPERTIES InOrder CommittedIsDelivered
\* It ends where the log is full and delivered.
CHECK_DEADLOCK FALSE
