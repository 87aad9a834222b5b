-------------------------------- MODULE Timer --------------------------------
(***************************************************************************)
(* The sleeping threads of OS-lab2's timer.c: a list ordered by the time at *)
(* which each is to wake, looked at by every timer interrupt.               *)
(***************************************************************************)
EXTENDS Integers, Sequences

CONSTANTS
    Threads,
    Lateness        \* bound: the ticks past its time that a thread may take to block

\* Times are counted from the present tick: the code compares sleep_ticks with each
\* other and with ticks, never with a number.
VARIABLES
    threadList,     \* thread_list
    remaining,      \* sleep_ticks - ticks of each thread that sleeps
    phase           \* awake, setting (has computed it), asleep, woken

timerVars == <<threadList, remaining, phase>>

TimerInit ==
    /\ threadList = <<>>
    /\ remaining = [t \in Threads |-> 0]
    /\ phase = [t \in Threads |-> "awake"]

\* timer_sleep, while interrupts are on: the time to wake up at.
timer_sleep(t, n) ==
    /\ phase[t] = "awake"
    /\ remaining' = [remaining EXCEPT ![t] = n]
    /\ phase' = [phase EXCEPT ![t] = "setting"]
    /\ UNCHANGED threadList

\* A mutation of the comparison: the latest first.
LatestFirst(t, u) == remaining[t] > remaining[u]

thread_comparison(t, u) == remaining[t] < remaining[u]

\* list_insert_ordered: before the first one that is greater.
InsertAt(k, t) ==
    /\ \A j \in 1 .. Len(threadList) : j < k => ~ thread_comparison(t, threadList[j])
    /\ k <= Len(threadList) => thread_comparison(t, threadList[k])

\* Interrupts are off from the insertion to thread_block.
Block(t) ==
    /\ phase[t] = "setting"
    /\ \E k \in 1 .. Len(threadList) + 1 :
           /\ InsertAt(k, t)
           /\ threadList' = SubSeq(threadList, 1, k - 1) \o <<t>>
                                \o SubSeq(threadList, k, Len(threadList))
    /\ phase' = [phase EXCEPT ![t] = "asleep"]
    /\ UNCHANGED remaining

\* A mutation of the test: one that is due now waits for the next tick.
Overdue(t) == remaining[t] < 1

\* With the tick that comes, ticks < sleep_ticks is false.
Due(t) == remaining[t] <= 1

Sleeping(t) == phase[t] \in {"setting", "asleep"}

\* A tick is of interest while a thread sleeps or is about to.
Ticking ==
    /\ \E t \in Threads : Sleeping(t)
    /\ \A t \in Threads : phase[t] = "setting" => remaining[t] > - Lateness

\* timer_interrupt: the threads at the front of the list that are due are woken.
timer_interrupt ==
    /\ Ticking
    /\ remaining' = [t \in Threads |-> IF Sleeping(t) THEN remaining[t] - 1 ELSE remaining[t]]
    /\ \E k \in 0 .. Len(threadList) :
           /\ \A j \in 1 .. k : Due(threadList[j])
           /\ k < Len(threadList) => ~ Due(threadList[k + 1])
           /\ threadList' = SubSeq(threadList, k + 1, Len(threadList))
           /\ phase' = [t \in Threads |->
                  IF \E j \in 1 .. k : threadList[j] = t THEN "woken" ELSE phase[t]]

\* timer_sleep returns.
Return(t) ==
    /\ phase[t] = "woken"
    /\ phase' = [phase EXCEPT ![t] = "awake"]
    /\ remaining' = [remaining EXCEPT ![t] = 0]
    /\ UNCHANGED threadList

----------------------------------------------------------------------------
TimerTypeOK ==
    /\ threadList \in Seq(Threads)
    /\ remaining \in [Threads -> Int]
    /\ phase \in [Threads -> {"awake", "setting", "asleep", "woken"}]

\* The list holds the threads that are blocked for the timer, each once (its list
\* element is also that of the ready queue), the earliest first.
SleepersInOrder ==
    /\ \A j, k \in DOMAIN threadList :
           j < k => /\ threadList[j] # threadList[k]
                    /\ remaining[threadList[j]] <= remaining[threadList[k]]
    /\ \A t \in Threads :
           phase[t] = "asleep" <=> \E k \in DOMAIN threadList : threadList[k] = t

\* A tick wakes the threads that are due, even those that were past their time when
\* they blocked, and nothing wakes any other.
OnTime ==
    \A t \in Threads : phase[t] = "asleep" =>
        (phase'[t] # "asleep" <=> remaining'[t] < remaining[t] /\ remaining'[t] <= 0)

WokenOnTime == [][OnTime]_timerVars

=============================================================================
