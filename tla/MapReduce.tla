----------------------------- MODULE MapReduce -----------------------------
(***************************************************************************)
(* MapReduce with a shared directory: the coordinator's RPC handlers, its   *)
(* Rescheduler goroutine and main loop, and the workers' loops with the     *)
(* files they write.                                                        *)
(*                                                                          *)
(* A handler that waits on the condition variable outlives the worker that  *)
(* called it: a worker that dies while it asks for a task may be given one. *)
(***************************************************************************)
EXTENDS Integers, FiniteSets

CONSTANTS
    Workers, Maps, Reduces, None,
    Slow,           \* bound: workers that may take longer than the time limit
    Crashing        \* bound: workers that may die

ASSUME WorkerAssumption ==
    /\ IsFiniteSet(Maps) /\ IsFiniteSet(Reduces)
    /\ Maps \cap Reduces = {}
    /\ None \notin Maps \cup Reduces
    /\ Slow \subseteq Workers /\ Crashing \subseteq Workers

VARIABLES
    status,             \* the status of each task
    mapRemaining, reduceRemaining,
    up,                 \* whether the coordinator process runs
    rescheduling,       \* whether the Rescheduler goroutine runs
    alive,              \* whether each worker process runs
    stage,              \* where each worker's loop, or its GetTask handler, is
    task,               \* the task each worker has
    has,                \* the partitions renamed, or the map outputs read
    files,              \* the pairs <<m, r>> such that mr-m-r exists
    out                 \* mr-out-r: who created it last, and what is in it

coordVars == <<status, mapRemaining, reduceRemaining, rescheduling>>
diskVars == <<files, out>>
workerVars == <<stage, task, has>>
vars == <<coordVars, up, alive, workerVars, diskVars>>

Init ==
    /\ status = [t \in Maps \cup Reduces |-> "unstarted"]
    /\ mapRemaining = Cardinality(Maps)
    /\ reduceRemaining = Cardinality(Reduces)
    /\ up = TRUE /\ rescheduling = TRUE
    /\ alive = [w \in Workers |-> TRUE]
    /\ stage = [w \in Workers |-> "idle"]
    /\ task = [w \in Workers |-> None]
    /\ has = [w \in Workers |-> {}]
    /\ files = {}
    /\ out = [r \in Reduces |-> [by |-> None, maps |-> {}]]

Unstarted(tasks) == {t \in tasks : status[t] = "unstarted"}

\* cond.Broadcast(): every waiting handler tries again when it gets the lock.
Woken ==
    [w \in Workers |-> CASE stage[w] = "waitMap" -> "retryMap"
                         [] stage[w] = "waitReduce" -> "retryReduce"
                         [] OTHER -> stage[w]]

----------------------------------------------------------------------------
(* GetTask, from the call or from a wake-up *)

Calls(w) == stage[w] = "idle" /\ alive[w]

SeeksMap(w) ==
    up /\ (stage[w] = "retryMap" \/ (Calls(w) /\ mapRemaining # 0))

\* A mutation of the way out of the map phase: a handler that finds no map
\* task to give goes on.
PastMapsTooSoon(w) ==
    \/ Calls(w) /\ mapRemaining = 0
    \/ stage[w] = "retryMap" /\ Unstarted(Maps) = {}
    \/ Calls(w) /\ Unstarted(Maps) = {}

\* The handler gets to the reduce tasks.
PastMaps(w) ==
    \/ Calls(w) /\ mapRemaining = 0
    \/ stage[w] = "retryMap" /\ Unstarted(Maps) = {} /\ mapRemaining = 0

SeeksReduce(w) ==
    up /\ (stage[w] = "retryReduce" \/ (PastMaps(w) /\ reduceRemaining # 0))

\* The reply reaches a worker only if it still runs.
Gives(w, t, work) ==
    /\ status' = [status EXCEPT ![t] = "inprogress"]
    /\ stage' = [stage EXCEPT ![w] = IF alive[w] THEN work ELSE "gone"]
    /\ task' = [task EXCEPT ![w] = IF alive[w] THEN t ELSE None]
    /\ has' = [has EXCEPT ![w] = {}]
    /\ UNCHANGED <<mapRemaining, reduceRemaining, rescheduling, up, alive, diskVars>>

TakeMap(w) ==
    /\ SeeksMap(w)
    /\ \E t \in Unstarted(Maps) : Gives(w, t, "map")

\* A mutation of the reduce reply: it has the Type of the map branch.
TakeReduceAsMap(w) ==
    /\ SeeksReduce(w)
    /\ \E t \in Unstarted(Reduces) : Gives(w, t, "map")

TakeReduce(w) ==
    /\ SeeksReduce(w)
    /\ \E t \in Unstarted(Reduces) : Gives(w, t, "reduce")

Goes(w, where) ==
    /\ stage' = [stage EXCEPT ![w] = where]
    /\ UNCHANGED <<coordVars, up, alive, task, has, diskVars>>

\* cond.Wait() in either loop.
WaitForMap(w) ==
    SeeksMap(w) /\ Unstarted(Maps) = {} /\ mapRemaining # 0 /\ Goes(w, "waitMap")

WaitForReduce(w) ==
    /\ SeeksReduce(w) /\ Unstarted(Reduces) = {} /\ reduceRemaining # 0
    /\ Goes(w, "waitReduce")

\* "all tasks are completed, no more remaining": the worker exits.
NoMoreTasks(w) ==
    /\ up
    /\ \/ PastMaps(w) /\ reduceRemaining = 0
       \/ stage[w] = "retryReduce" /\ Unstarted(Reduces) = {} /\ reduceRemaining = 0
    /\ Goes(w, "gone")

GetTask(w) ==
    TakeMap(w) \/ TakeReduce(w) \/ WaitForMap(w) \/ WaitForReduce(w) \/ NoMoreTasks(w)

----------------------------------------------------------------------------
(* The worker's tasks *)

\* UpdateTaskStatus: whatever the task's status is, it is completed now.
UpdateTaskStatus(w) ==
    /\ status' = [status EXCEPT ![task[w]] = "completed"]
    /\ IF task[w] \in Maps
       THEN mapRemaining' = mapRemaining - 1 /\ UNCHANGED reduceRemaining
       ELSE reduceRemaining' = reduceRemaining - 1 /\ UNCHANGED mapRemaining

\* A mutation of the map task's end: it reports when any partition is there.
AnyPartition(w) == stage[w] = "map" /\ has[w] # {}

\* The task's work is done, to the last file.
Executed(w) ==
    \/ stage[w] = "map" /\ has[w] = Reduces
    \/ stage[w] = "written"

\* CallUpdateTaskStatus, then the loop starts over.
Report(w) ==
    /\ alive[w] /\ up /\ Executed(w)
    /\ UpdateTaskStatus(w)
    /\ stage' = [stage EXCEPT ![w] = "idle"]
    /\ task' = [task EXCEPT ![w] = None]
    /\ has' = [has EXCEPT ![w] = {}]
    /\ UNCHANGED <<up, rescheduling, alive, diskVars>>

\* The end of a map task renames its files one after the other.
RenameOutput(w, r) ==
    /\ alive[w] /\ stage[w] = "map" /\ r \notin has[w]
    /\ files' = files \cup {<<task[w], r>>}
    /\ has' = [has EXCEPT ![w] = @ \cup {r}]
    /\ UNCHANGED <<coordVars, up, alive, stage, task, out>>

\* WalkDir: a reduce task reads the map outputs it finds.
ReadInputs(w) ==
    /\ alive[w] /\ stage[w] = "reduce"
    /\ has' = [has EXCEPT ![w] = {m \in Maps : <<m, task[w]>> \in files}]
    /\ stage' = [stage EXCEPT ![w] = "read"]
    /\ UNCHANGED <<coordVars, up, alive, task, diskVars>>

\* os.Create: the result is written in place, over what another worker wrote.
CreateResult(w) ==
    /\ alive[w] /\ stage[w] = "read"
    /\ out' = [out EXCEPT ![task[w]] = [by |-> w, maps |-> {}]]
    /\ stage' = [stage EXCEPT ![w] = "writing"]
    /\ UNCHANGED <<coordVars, up, alive, task, has, files>>

\* Lines are written where the file had been when this worker created it: over
\* another worker's, only what both wrote is there.
WriteResult(w) ==
    /\ alive[w] /\ stage[w] = "writing"
    /\ out' = [out EXCEPT ![task[w]].maps =
                  IF out[task[w]].by = w THEN has[w] ELSE @ \cap has[w]]
    /\ stage' = [stage EXCEPT ![w] = "written"]
    /\ UNCHANGED <<coordVars, up, alive, task, has, files>>

\* The coordinator's socket is closed: a pending or a new call ends the worker.
CallFails(w) ==
    /\ ~up
    /\ \/ stage[w] \in {"waitMap", "waitReduce", "retryMap", "retryReduce"}
       \/ alive[w] /\ (stage[w] = "idle" \/ Executed(w))
    /\ stage' = [stage EXCEPT ![w] = "gone"]
    /\ task' = [task EXCEPT ![w] = None]
    /\ UNCHANGED <<coordVars, up, alive, has, diskVars>>

\* The process is killed, or the map or reduce function exits.
Crash(w) ==
    /\ w \in Crashing /\ alive[w] /\ stage[w] # "gone"
    /\ alive' = [alive EXCEPT ![w] = FALSE]
    /\ stage' = [stage EXCEPT ![w] =
                    IF @ \in {"waitMap", "waitReduce", "retryMap", "retryReduce"} THEN @ ELSE "gone"]
    /\ task' = [task EXCEPT ![w] = None]
    /\ has' = [has EXCEPT ![w] = {}]
    /\ UNCHANGED <<coordVars, up, diskVars>>

WorkerStep(w) ==
    \/ GetTask(w) \/ Report(w)
    \/ \E r \in Reduces : RenameOutput(w, r)
    \/ ReadInputs(w) \/ CreateResult(w) \/ WriteResult(w)
    \/ CallFails(w)

----------------------------------------------------------------------------
(* The coordinator's goroutines *)

\* A mutation of the time limit: it is not waited for.
OverdueAtOnce(t) == status[t] = "inprogress"

\* Ten seconds may have passed since the task was given out: only slow workers,
\* or none, are still at it.
Overdue(t) ==
    status[t] = "inprogress" /\ \A w \in Workers : task[w] = t => w \in Slow

\* Back to unstarted, the waiting handlers woken.
GivesBack(late) ==
    /\ status' = [t \in DOMAIN status |-> IF t \in late THEN "unstarted" ELSE status[t]]
    /\ UNCHANGED <<mapRemaining, reduceRemaining, up, alive, task, has, diskVars>>

RescheduleMaps(late) ==
    /\ mapRemaining # 0
    /\ late \in SUBSET {t \in Maps : Overdue(t)} \ {{}}
    /\ GivesBack(late)
    /\ stage' = Woken
    /\ UNCHANGED rescheduling

\* A mutation of the reduce phase: it wakes handlers only for a late task.
QuietWithoutLate(late) == IF late = {} THEN stage ELSE Woken

\* In the reduce phase every pass wakes the handlers.
WokenInReducePhase(late) == Woken

RescheduleReduces(late) ==
    /\ mapRemaining = 0 /\ reduceRemaining # 0
    /\ late \in SUBSET {t \in Reduces : Overdue(t)}
    /\ GivesBack(late)
    /\ stage' = WokenInReducePhase(late)
    /\ UNCHANGED rescheduling

\* Nothing remains: the last broadcast.
ReschedulerEnds ==
    /\ mapRemaining = 0 /\ reduceRemaining = 0
    /\ rescheduling' = FALSE
    /\ stage' = Woken
    /\ UNCHANGED <<status, mapRemaining, reduceRemaining, up, alive, task, has, diskVars>>

Rescheduler(late) ==
    /\ up /\ rescheduling
    /\ (RescheduleMaps(late) \/ RescheduleReduces(late) \/ ReschedulerEnds)

Done == reduceRemaining = 0

\* main polls Done and exits a second later.
CoordinatorExits ==
    /\ up /\ Done
    /\ up' = FALSE
    /\ UNCHANGED <<coordVars, alive, workerVars, diskVars>>

Next ==
    \/ \E w \in Workers : WorkerStep(w) \/ Crash(w)
    \/ \E late \in SUBSET (Maps \cup Reduces) : Rescheduler(late)
    \/ CoordinatorExits

\* The workers that do not die run; the Rescheduler makes its rounds and does
\* not overlook a task that is past its time; main polls.
Fairness ==
    /\ \A w \in Workers : WF_vars(WorkerStep(w))
    /\ WF_vars(\E late \in SUBSET (Maps \cup Reduces) : Rescheduler(late))
    /\ \A t \in Maps \cup Reduces :
          WF_vars(\E late \in SUBSET (Maps \cup Reduces) : t \in late /\ Rescheduler(late))
    /\ WF_vars(CoordinatorExits)

Spec == Init /\ [][Next]_vars /\ Fairness

----------------------------------------------------------------------------
Stages == {"idle", "map", "reduce", "read", "writing", "written",
           "waitMap", "waitReduce", "retryMap", "retryReduce", "gone"}

Reducing == {"reduce", "read", "writing", "written"}

\* Types, and that whoever works on a task runs and has one of that kind.
TypeOK ==
    /\ status \in [Maps \cup Reduces -> {"unstarted", "inprogress", "completed"}]
    /\ mapRemaining \in Int /\ reduceRemaining \in Int
    /\ up \in BOOLEAN /\ rescheduling \in BOOLEAN
    /\ alive \in [Workers -> BOOLEAN]
    /\ stage \in [Workers -> Stages]
    /\ task \in [Workers -> Maps \cup Reduces \cup {None}]
    /\ has \in [Workers -> SUBSET (Maps \cup Reduces)]
    /\ files \subseteq Maps \X Reduces
    /\ out \in [Reduces -> [by : Workers \cup {None}, maps : SUBSET Maps]]
    /\ \A w \in Workers :
          /\ stage[w] = "map" => alive[w] /\ task[w] \in Maps
          /\ stage[w] \in Reducing => alive[w] /\ task[w] \in Reduces /\ has[w] \subseteq Maps
          /\ stage[w] \notin {"map"} \cup Reducing => task[w] = None

Completed(tasks) == {t \in tasks : status[t] = "completed"}

\* A map task counted as completed has all its partitions in the directory,
\* though workers die between two renames and a task may be run again.
MapOutputsHeld ==
    \A m \in Completed(Maps) : \A r \in Reduces : <<m, r>> \in files

\* A task still to be done is counted: the counts never say that more is left
\* than is, which would keep main polling for ever.
NothingCountedLeft ==
    /\ mapRemaining <= Cardinality(Maps \ Completed(Maps))
    /\ reduceRemaining <= Cardinality(Reduces \ Completed(Reduces))

\* The two ways the coordinator counts, by status and by number, agree as long
\* as no task is given out again while its first worker may still report it.
CountsAgree ==
    /\ mapRemaining = Cardinality(Maps \ Completed(Maps))
    /\ reduceRemaining = Cardinality(Reduces \ Completed(Reduces))

Job == INSTANCE MapReduceJob WITH
          mapped <- Completed(Maps), reduced <- Completed(Reduces),
          result <- [r \in Reduces |-> out[r].maps], over <- ~up

\* Whoever dies, and wherever, the job does what it promises: each task counts
\* once, no reduce task runs short of a map output, a result that was reported
\* is not touched again, and main ends only after the last.
ImplementsJob == Job!JobSpec

\* "find out if the entire job has finished" (coordinator.go:181-182): when Done
\* says so every reduce task is completed.
DoneIsFinished == Done => \A r \in Reduces : status[r] = "completed"

\* The job ends, and with it every worker: no handler waits for ever.
JobEnds == <>(~up /\ \A w \in Workers : stage[w] = "gone")

=============================================================================
