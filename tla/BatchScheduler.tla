--------------------------- MODULE BatchScheduler ---------------------------
(***************************************************************************)
(* The half-duplex bus of OS-lab3: threads that get one of its slots,       *)
(* transfer and release it, with semaphores for the mutex, the slots and    *)
(* the waiting tasks of each direction and priority.                        *)
(*                                                                          *)
(* The counters are touched with the mutex held, so a section up to the     *)
(* next sema_down that can block is one action.  A thread that a sema_up    *)
(* has woken competes with those that come later, as in Pintos.             *)
(***************************************************************************)
EXTENDS Integers, FiniteSets

CONSTANTS
    Senders, Receivers,     \* the tasks of each direction
    Priority,               \* the priority tasks among them
    Capacity,               \* BUS_CAPACITY
    Nobody,
    Together                \* bound: no task leaves before all have come

Tasks == Senders \cup Receivers

ASSUME TaskAssumption ==
    /\ IsFiniteSet(Senders) /\ IsFiniteSet(Receivers)
    /\ Senders \cap Receivers = {}
    /\ Nobody \notin Tasks
    /\ Capacity \in Nat \ {0}
    /\ Together \in BOOLEAN

Directions == {"send", "receive"}
Levels     == {"priority", "normal"}

Direction(t) == IF t \in Senders THEN "send" ELSE "receive"
Level(t)     == IF t \in Priority THEN "priority" ELSE "normal"

VARIABLES
    pc,
    mutex,          \* who holds the mutex
    busSlots,       \* the value of bus_slots
    wakeups,        \* the value of each semaphore tasks wait for
    taskOnBus, busDirection, waitingTask,
    waiting         \* send_priority_task, recv_priority_task, send_task, receiver_task

vars == <<pc, mutex, busSlots, wakeups, taskOnBus, busDirection, waitingTask, waiting>>

Init ==
    /\ pc = [t \in Tasks |-> "created"]
    /\ mutex = Nobody
    /\ busSlots = Capacity
    /\ wakeups = [d \in Directions |-> [l \in Levels |-> 0]]
    /\ taskOnBus = 0
    /\ busDirection = "none"
    /\ waitingTask = 0
    /\ waiting = [d \in Directions |-> [l \in Levels |-> 0]]

----------------------------------------------------------------------------
(* get_slot *)

\* The bus is full or the other direction's, or a priority task waits to use it in
\* this direction.
MustWait(t) ==
    \/ taskOnBus >= Capacity
    \/ busDirection \notin {"none", Direction(t)}
    \/ t \notin Priority /\ waiting[Direction(t)]["priority"] > 0

\* In with the mutex, or out to wait for a wake-up.
Arrive(t) ==
    /\ pc[t] = "created" /\ mutex = Nobody
    /\ IF MustWait(t)
       THEN /\ waiting' = [waiting EXCEPT ![Direction(t)][Level(t)] = @ + 1]
            /\ pc' = [pc EXCEPT ![t] = "waiting"]
            /\ UNCHANGED mutex
       ELSE /\ pc' = [pc EXCEPT ![t] = "boarding"]
            /\ mutex' = t
            /\ UNCHANGED waiting
    /\ UNCHANGED <<busSlots, wakeups, taskOnBus, busDirection, waitingTask>>

\* sema_down(sem) of wait_to_be_onboard returns.
WakeUp(t) ==
    /\ pc[t] = "waiting"
    /\ wakeups[Direction(t)][Level(t)] > 0
    /\ wakeups' = [wakeups EXCEPT ![Direction(t)][Level(t)] = @ - 1]
    /\ pc' = [pc EXCEPT ![t] = "woken"]
    /\ UNCHANGED <<mutex, busSlots, taskOnBus, busDirection, waitingTask, waiting>>

\* A mutation of the return: the wake-up stays reserved.
StopsWaitingOnly(t) ==
    /\ waiting' = [waiting EXCEPT ![Direction(t)][Level(t)] = @ - 1]
    /\ UNCHANGED waitingTask

\* Another: the task is still counted as waiting.
StaysCounted(t) == waitingTask' = waitingTask - 1 /\ UNCHANGED waiting

\* wait_to_be_onboard leaves the counters.
StopsWaiting(t) ==
    /\ waiting' = [waiting EXCEPT ![Direction(t)][Level(t)] = @ - 1]
    /\ waitingTask' = waitingTask - 1

\* It has the mutex again, and asks nothing of the bus.
Resume(t) ==
    /\ pc[t] = "woken" /\ mutex = Nobody
    /\ StopsWaiting(t)
    /\ mutex' = t
    /\ pc' = [pc EXCEPT ![t] = "boarding"]
    /\ UNCHANGED <<busSlots, wakeups, taskOnBus, busDirection>>

\* A mutation of the boarding: no slot is taken from the semaphore.
BoardFreely(t) ==
    /\ pc[t] = "boarding"
    /\ taskOnBus' = taskOnBus + 1
    /\ busDirection' = Direction(t)
    /\ mutex' = Nobody
    /\ pc' = [pc EXCEPT ![t] = "aboard"]
    /\ UNCHANGED <<busSlots, wakeups, waitingTask, waiting>>

\* Another: the mutex is not given back.
BoardInside(t) ==
    /\ pc[t] = "boarding" /\ busSlots > 0
    /\ busSlots' = busSlots - 1
    /\ taskOnBus' = taskOnBus + 1
    /\ busDirection' = Direction(t)
    /\ pc' = [pc EXCEPT ![t] = "aboard"]
    /\ UNCHANGED <<mutex, wakeups, waitingTask, waiting>>

\* sema_down(&bus_slots), with the mutex held.
Board(t) ==
    /\ pc[t] = "boarding" /\ busSlots > 0
    /\ busSlots' = busSlots - 1
    /\ taskOnBus' = taskOnBus + 1
    /\ busDirection' = Direction(t)
    /\ mutex' = Nobody
    /\ pc' = [pc EXCEPT ![t] = "aboard"]
    /\ UNCHANGED <<wakeups, waitingTask, waiting>>

----------------------------------------------------------------------------
(* release_slot *)

\* A mutation of the wake-up: the tasks woken and not yet on the bus count as
\* free slots.
ToWakeForgets(onBus, reserved, count) ==
    IF Capacity - onBus < count THEN Capacity - onBus ELSE count

\* wakeup_waiting_task: MIN compares an int with an unsigned, and a negative
\* number of empty slots is a large one.
ToWake(onBus, reserved, count) ==
    LET empty == Capacity - onBus - reserved
    IN  IF 0 <= empty /\ empty < count THEN empty ELSE count

Other(d) == IF d = "send" THEN "receive" ELSE "send"

\* One direction's turn in release_slot, from what the turn before left.
Turn(d, onBus, bus) ==
    LET first  == ToWake(onBus, bus.reserved, waiting[d]["priority"])
        second == IF waiting[Other(d)]["priority"] = 0
                  THEN ToWake(onBus, bus.reserved + first, waiting[d]["normal"])
                  ELSE 0
    IN  IF bus.direction = Other(d) THEN bus
        ELSE [direction |-> IF first + second > 0 THEN d ELSE bus.direction,
              reserved  |-> bus.reserved + first + second,
              wakeups   |-> [bus.wakeups EXCEPT ![d]["priority"] = @ + first,
                                                ![d]["normal"] = @ + second]]

\* A mutation of the release: an empty bus keeps its direction.
KeepsDirection(onBus) == busDirection

DirectionLeft(onBus) == IF onBus = 0 THEN "none" ELSE busDirection

\* Releases the slot, and gives both directions a turn, senders first.
Release(t) ==
    LET onBus == taskOnBus - 1
        idle  == [direction |-> DirectionLeft(onBus), reserved |-> waitingTask,
                  wakeups |-> wakeups]
        after == Turn("receive", onBus, Turn("send", onBus, idle))
    IN  /\ pc[t] = "aboard" /\ mutex = Nobody
        /\ Together => \A u \in Tasks : pc[u] # "created"
        /\ pc' = [pc EXCEPT ![t] = "done"]
        /\ taskOnBus' = onBus
        /\ busSlots' = busSlots + 1
        /\ busDirection' = after.direction
        /\ waitingTask' = after.reserved
        /\ wakeups' = after.wakeups
        /\ UNCHANGED <<mutex, waiting>>

----------------------------------------------------------------------------
run_task(t) == Arrive(t) \/ WakeUp(t) \/ Resume(t) \/ Board(t) \/ Release(t)

Next == \E t \in Tasks : run_task(t)

\* Every thread is scheduled, and a transfer ends.
Spec == Init /\ [][Next]_vars /\ \A t \in Tasks : WF_vars(run_task(t))

----------------------------------------------------------------------------
Being(places, d, l) ==
    {t \in Tasks : pc[t] \in places /\ Direction(t) = d /\ Level(t) = l}

OnBus == {t \in Tasks : pc[t] = "aboard"}

TypeOK ==
    /\ pc \in [Tasks -> {"created", "waiting", "woken", "boarding", "aboard", "done"}]
    /\ mutex \in Tasks \cup {Nobody}
    /\ busSlots \in Nat /\ taskOnBus \in Nat
    /\ waitingTask \in Nat
    /\ wakeups \in [Directions -> [Levels -> Nat]]
    /\ waiting \in [Directions -> [Levels -> Nat]]
    /\ busDirection \in Directions \cup {"none"}
    /\ \A t \in Tasks : pc[t] = "boarding" <=> mutex = t

\* "There can be only BUS_CAPACITY tasks using the bus": the counter and the
\* semaphore agree with the tasks that have a slot.
SlotsAccounted ==
    /\ taskOnBus = Cardinality(OnBus)
    /\ busSlots + taskOnBus = Capacity

\* The counts that decide who is woken are those of the tasks that wait.
WaitersCounted ==
    \A d \in Directions, l \in Levels : waiting[d][l] = Cardinality(Being({"waiting", "woken"}, d, l))

\* Each reserved slot is a wake-up sent and not taken, or a task on its way from
\* one to the bus.
WakeupsReserved ==
    waitingTask =   wakeups["send"]["priority"] + wakeups["send"]["normal"]
                  + wakeups["receive"]["priority"] + wakeups["receive"]["normal"]
                  + Cardinality({t \in Tasks : pc[t] = "woken"})

\* The tasks on the bus, the one about to board and the slots reserved for woken
\* ones fit the bus: nobody blocks on bus_slots with the mutex held, and the
\* empty slots are never a negative number.
NotOverbooked == taskOnBus + waitingTask + (IF mutex = Nobody THEN 0 ELSE 1) <= Capacity

\* "All tasks using the bus should be either sending or receiving"
\* (batch-scheduler.c:216-217).
HalfDuplex == OnBus \subseteq Senders \/ OnBus \subseteq Receivers

\* Every task is served ("Sleep until all tasks are complete",
\* batch-scheduler.c:192).
AllServed == <>(\A t \in Tasks : pc[t] = "done")

=============================================================================
