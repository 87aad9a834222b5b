------------------------------ MODULE BusTimer ------------------------------
(***************************************************************************)
(* The tasks of the batch scheduler transfer by sleeping: the bus over the  *)
(* timer of OS-lab2.                                                        *)
(***************************************************************************)
EXTENDS BatchScheduler, Timer

CONSTANT TransferDuration       \* transfer_duration of each task

ASSUME DurationAssumption == TransferDuration \in [Threads -> Nat] /\ Threads = Tasks

busVars == <<vars, timerVars>>

BusInit == Init /\ TimerInit

\* Of get_slot nothing depends on the time.
GetSlot(t) ==
    /\ Arrive(t) \/ WakeUp(t) \/ Resume(t) \/ Board(t)
    /\ UNCHANGED timerVars

\* transfer_data
TransferData(t) ==
    /\ \/ pc[t] = "aboard" /\ timer_sleep(t, TransferDuration[t])
       \/ Block(t)
    /\ UNCHANGED vars

\* A mutation of the end of a task: the slot is not released.
KeepSlot(t) == Return(t) /\ UNCHANGED vars

\* The sleep returns, and release_slot.
ReleaseSlot(t) == Return(t) /\ Release(t)

Tick == timer_interrupt /\ UNCHANGED vars

BusNext ==
    \/ \E t \in Tasks : GetSlot(t) \/ TransferData(t) \/ ReleaseSlot(t)
    \/ Tick

\* Threads that are not blocked are scheduled, and the timer goes on.
BusSpec ==
    /\ BusInit /\ [][BusNext]_busVars
    /\ \A t \in Tasks : WF_busVars(GetSlot(t)) /\ WF_busVars(TransferData(t))
                        /\ WF_busVars(ReleaseSlot(t))
    /\ WF_busVars(Tick)

\* The bus with its timer is the bus: what module BatchScheduler takes for granted,
\* that every transfer ends, the timer provides.
TransfersEnd == Spec

=============================================================================
