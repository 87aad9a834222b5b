-------------------------------- MODULE MCBus --------------------------------
EXTENDS BusTimer

CONSTANTS Brief         \* the tasks with nothing to transfer

Durations == [t \in Tasks |-> IF t \in Brief THEN 0 ELSE IF t \in Senders THEN 2 ELSE 1]

=============================================================================
