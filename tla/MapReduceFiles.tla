--------------------------- MODULE MapReduceFiles ---------------------------
(***************************************************************************)
(* MapReduce without a shared directory (lab-2-adv): map outputs stay with  *)
(* the worker that made them and are fetched by its address, results are    *)
(* sent to the coordinator, and a worker not heard of has its tasks reset.  *)
(*                                                                          *)
(* The address of a worker is the worker, "" is None.                       *)
(***************************************************************************)
EXTENDS Integers, FiniteSets

CONSTANTS
    Workers, Maps, Reduces, None,
    Slow,           \* bound: workers that may take longer than the time limit
    Overloaded,     \* bound: workers that may answer or report too late, or fail to upload
    Crashing        \* bound: workers that may die

VARIABLES
    status,             \* the status of each task
    assignedWorker,     \* of each map task (that of a reduce task is always "")
    mapRemaining, reduceRemaining,
    workerMap,          \* the addresses the coordinator waits to hear from
    results,            \* mr-out-r at the coordinator: the map outputs it accounts for
    up,                 \* whether the coordinator process runs
    rescheduling,       \* whether the Rescheduler goroutine runs
    alive,              \* whether each worker process runs
    stage,              \* where each worker's loop, or its GetTask handler, is
    task,               \* the task each worker has (None: that of a "wait" reply)
    locations,          \* the address book of its GetTask handler, then of its reply
    has,                \* the map outputs a reduce task has fetched
    unread,             \* those it has not yet an answer for, and whether one failed
    failed,
    disk,               \* of each worker, the state of its files for each map task
    accusations         \* the ReportFailure calls on their way

tasks == Maps \cup Reduces
counts == <<mapRemaining, reduceRemaining>>
coordVars == <<status, assignedWorker, counts, workerMap, results, up, rescheduling>>
handVars == <<task, locations, has, unread, failed>>
vars == <<coordVars, alive, stage, handVars, disk, accusations>>

Init ==
    /\ status = [t \in tasks |-> "unstarted"]
    /\ assignedWorker = [m \in Maps |-> None]
    /\ mapRemaining = Cardinality(Maps) /\ reduceRemaining = Cardinality(Reduces)
    /\ workerMap = {}
    /\ results = [r \in Reduces |-> {}]
    /\ up = TRUE /\ rescheduling = TRUE
    /\ alive = [w \in Workers |-> TRUE]
    /\ stage = [w \in Workers |-> "idle"]
    /\ task = [w \in Workers |-> None]
    /\ locations = [w \in Workers |-> [m \in Maps |-> None]]
    /\ has = [w \in Workers |-> {}] /\ unread = [w \in Workers |-> {}]
    /\ failed = [w \in Workers |-> FALSE]
    /\ disk = [w \in Workers |-> [m \in Maps |-> "none"]]
    /\ accusations = {}

Waiting == {"waitMap", "waitReduce", "retryMap", "retryReduce"}

Unstarted(S) == {t \in S : status[t] = "unstarted"}

\* cond.Broadcast(): every waiting handler tries again when it gets the lock.
Woken ==
    [w \in Workers |-> CASE stage[w] = "waitMap" -> "retryMap"
                         [] stage[w] = "waitReduce" -> "retryReduce"
                         [] OTHER -> stage[w]]

----------------------------------------------------------------------------
(* GetTask, from the call or from a wake-up. The address book is copied at  *)
(* the call.                                                                *)

Calls(w) == stage[w] = "idle" /\ alive[w]

SeeksMap(w) == up /\ (stage[w] = "retryMap" \/ (Calls(w) /\ mapRemaining # 0))

PastMaps(w) ==
    \/ Calls(w) /\ mapRemaining = 0
    \/ stage[w] = "retryMap" /\ Unstarted(Maps) = {} /\ mapRemaining = 0

SeeksReduce(w) == up /\ (stage[w] = "retryReduce" \/ (PastMaps(w) /\ reduceRemaining # 0))

Book(w) == IF stage[w] = "idle" THEN assignedWorker ELSE locations[w]

Goes(w, where) ==
    /\ stage' = [stage EXCEPT ![w] = where]
    /\ locations' = [locations EXCEPT ![w] = Book(w)]

\* The reply reaches a worker only if it still runs.
Replies(w, t, work) ==
    /\ Goes(w, IF alive[w] THEN work ELSE "gone")
    /\ task' = [task EXCEPT ![w] = IF alive[w] THEN t ELSE None]
    /\ has' = [has EXCEPT ![w] = {}]
    /\ unread' = [unread EXCEPT ![w] =
                     IF work = "reduce" THEN {m \in Maps : Book(w)[m] # None} ELSE {}]
    /\ failed' = [failed EXCEPT ![w] = FALSE]

GivesMap(w) ==
    /\ SeeksMap(w)
    /\ \E m \in Unstarted(Maps) :
           /\ status' = [status EXCEPT ![m] = "inprogress"]
           /\ assignedWorker' = [assignedWorker EXCEPT ![m] = w]
           /\ Replies(w, m, "map")
    /\ UNCHANGED <<counts, workerMap, results, up, rescheduling>>

\* Who has a reduce task is not noted.
GivesReduce(w) ==
    /\ SeeksReduce(w)
    /\ \E r \in Unstarted(Reduces) :
           status' = [status EXCEPT ![r] = "inprogress"] /\ Replies(w, r, "reduce")
    /\ UNCHANGED <<assignedWorker, counts, workerMap, results, up, rescheduling>>

\* cond.Wait() in either loop.
Waits(w) ==
    /\ \/ SeeksMap(w) /\ Unstarted(Maps) = {} /\ mapRemaining # 0 /\ Goes(w, "waitMap")
       \/ SeeksReduce(w) /\ Unstarted(Reduces) = {} /\ reduceRemaining # 0
              /\ Goes(w, "waitReduce")
    /\ UNCHANGED <<coordVars, task, has, unread, failed>>

\* "wait", which the worker takes for reduce task -1.
SaysWait(w) ==
    /\ up
    /\ reduceRemaining = 0 /\ Unstarted(Reduces) = {} /\ stage[w] = "retryReduce"
    /\ Replies(w, None, "reduce")
    /\ UNCHANGED coordVars

\* "all tasks are completed, no more remaining": the worker asks again a second later.
NoMoreTasks(w) ==
    /\ up /\ PastMaps(w) /\ reduceRemaining = 0
    /\ Goes(w, IF alive[w] THEN "idle" ELSE "gone")
    /\ UNCHANGED <<coordVars, task, has, unread, failed>>

GetTask(w) ==
    /\ GivesMap(w) \/ GivesReduce(w) \/ Waits(w) \/ SaysWait(w) \/ NoMoreTasks(w)
    /\ UNCHANGED <<alive, disk, accusations>>

----------------------------------------------------------------------------
(* The worker's tasks *)

\* os.Create of all partitions: what a former run of the task left is gone.
CreateFiles(w) ==
    /\ alive[w] /\ stage[w] = "map"
    /\ disk' = [disk EXCEPT ![w][task[w]] = "partial"]
    /\ stage' = [stage EXCEPT ![w] = "writing"]
    /\ UNCHANGED <<coordVars, alive, handVars, accusations>>

WriteFiles(w) ==
    /\ alive[w] /\ stage[w] = "writing"
    /\ disk' = [disk EXCEPT ![w][task[w]] = "whole"]
    /\ stage' = [stage EXCEPT ![w] = "mapped"]
    /\ UNCHANGED <<coordVars, alive, handVars, accusations>>

\* One goroutine of FetchData: the output is there, whole or in part, or it reports the
\* worker that should have it.
Fetch(w, m) ==
    /\ alive[w] /\ stage[w] = "reduce" /\ m \in unread[w]
    /\ unread' = [unread EXCEPT ![w] = @ \ {m}]
    /\ LET a == locations[w][m]
           Served == alive[a] /\ task[w] # None /\ disk[a][m] # "none"
       IN  \/ /\ Served
              /\ has' = [has EXCEPT ![w] = IF disk[a][m] = "whole" THEN @ \cup {m} ELSE @]
              /\ UNCHANGED <<failed, accusations>>
           \/ /\ ~ Served \/ a \in Overloaded \/ disk[a][m] = "partial"
              /\ failed' = [failed EXCEPT ![w] = TRUE]
              /\ accusations' = accusations \cup {a}
              /\ UNCHANGED has
    /\ UNCHANGED <<coordVars, alive, stage, task, locations, disk>>

Fetched(w) == alive[w] /\ stage[w] = "reduce" /\ unread[w] = {}

\* ExecuteReduceTask returns an error: the task is not reported, and the worker sleeps
\* and asks for another.
LeavesTask(w) ==
    /\ stage' = [stage EXCEPT ![w] = "idle"]
    /\ task' = [task EXCEPT ![w] = None]
    /\ UNCHANGED <<status, assignedWorker, counts, workerMap, up, rescheduling,
                   alive, locations, has, unread, failed, disk>>

\* FetchData's errors, and the failure calls they make, are on their way by now.
GivesUp(w) == Fetched(w) /\ failed[w] /\ LeavesTask(w) /\ UNCHANGED <<results, accusations>>

\* UploadWork: the coordinator creates the file anew.
Uploads(w, maps) ==
    results' = IF task[w] = None THEN results ELSE [results EXCEPT ![task[w]] = maps]

PushWork(w) ==
    /\ up /\ Fetched(w) /\ ~ failed[w]
    /\ Uploads(w, has[w])
    /\ stage' = [stage EXCEPT ![w] = "reduced"]
    /\ UNCHANGED <<status, assignedWorker, counts, workerMap, up, rescheduling,
                   alive, handVars, disk, accusations>>

\* The upload fails before the coordinator creates the file, or after: then what is
\* there is cut short, or whole if only the answer is lost.
PushFails(w) ==
    /\ w \in Overloaded /\ Fetched(w) /\ ~ failed[w]
    /\ \/ UNCHANGED results
       \/ up /\ \E maps \in SUBSET has[w] : Uploads(w, maps)
    /\ LeavesTask(w)
    /\ UNCHANGED accusations

\* UpdateTaskStatus. The report of a reduce task comes from address "".
UpdateTaskStatus(w) ==
    /\ alive[w] /\ up /\ stage[w] \in {"mapped", "reduced"}
    /\ workerMap' = workerMap \cup {IF stage[w] = "mapped" THEN w ELSE None}
    /\ status' = IF task[w] \in tasks THEN [status EXCEPT ![task[w]] = "completed"] ELSE status
    /\ mapRemaining' = mapRemaining - (IF task[w] \in Maps THEN 1 ELSE 0)
    /\ reduceRemaining' = reduceRemaining - (IF task[w] \in Reduces THEN 1 ELSE 0)
    /\ stage' = [stage EXCEPT ![w] = "idle"]
    /\ task' = [task EXCEPT ![w] = None]
    /\ UNCHANGED <<assignedWorker, results, up, rescheduling,
                   alive, locations, has, unread, failed, disk, accusations>>

\* The coordinator has ended: any call ends the worker, its heartbeat at the latest.
CallFails(w) ==
    /\ ~ up /\ stage[w] # "gone"
    /\ alive' = [alive EXCEPT ![w] = FALSE]
    /\ stage' = [stage EXCEPT ![w] = "gone"]
    /\ task' = [task EXCEPT ![w] = None]
    /\ UNCHANGED <<coordVars, locations, has, unread, failed, disk, accusations>>

\* The handler of a worker that dies goes on waiting.
Crash(w) ==
    /\ w \in Crashing /\ alive[w]
    /\ alive' = [alive EXCEPT ![w] = FALSE]
    /\ stage' = [stage EXCEPT ![w] = IF @ \in Waiting THEN @ ELSE "gone"]
    /\ task' = [task EXCEPT ![w] = None]
    /\ UNCHANGED <<coordVars, locations, has, unread, failed, disk, accusations>>

WorkerStep(w) ==
    \/ GetTask(w) \/ CreateFiles(w) \/ WriteFiles(w)
    \/ \E m \in Maps : Fetch(w, m)
    \/ GivesUp(w) \/ PushWork(w) \/ PushFails(w) \/ UpdateTaskStatus(w) \/ CallFails(w)

----------------------------------------------------------------------------
(* The coordinator's other handlers and goroutines *)

\* HardReset and SoftReset: the tasks that are noted as the worker's. Of the reduce
\* tasks these are those in progress if the worker is "", and none otherwise.
Reset(a) ==
    LET maps == {m \in Maps : assignedWorker[m] = a}
        reduces == {r \in Reduces : a = None /\ status[r] = "inprogress"}
    IN  /\ status' = [t \in tasks |-> IF t \in maps \cup reduces THEN "unstarted" ELSE status[t]]
        /\ assignedWorker' = [m \in Maps |-> IF m \in maps THEN None ELSE assignedWorker[m]]
        /\ mapRemaining' = mapRemaining + Cardinality({m \in maps : status[m] = "completed"})
        /\ stage' = Woken
        /\ UNCHANGED <<reduceRemaining, results, up, rescheduling, alive, handVars, disk>>

\* A heartbeat of a worker the coordinator does not know, or no longer.
HealthCheck(w) ==
    /\ up /\ alive[w] /\ w \notin workerMap
    /\ workerMap' = workerMap \cup {w}
    /\ UNCHANGED <<status, assignedWorker, counts, results, up, rescheduling,
                   alive, stage, handVars, disk, accusations>>

\* Nothing has been heard from this address for four seconds: the worker is dead, or
\* late, or it is "" and no reduce task was reported.
HealthMonitor(a) ==
    /\ up /\ a \in workerMap
    /\ a # None => ~ alive[a] \/ a \in Overloaded
    /\ Reset(a)
    /\ workerMap' = workerMap \ {a}
    /\ UNCHANGED accusations

ReportFailure(a) ==
    /\ up /\ a \in accusations
    /\ Reset(a)
    /\ accusations' = accusations \ {a}
    /\ UNCHANGED workerMap

\* Ten seconds may have passed since the task was given out: only slow workers,
\* or none, are still at it.
Overdue(t) ==
    status[t] = "inprogress" /\ \A w \in Workers : task[w] = t => w \in Slow

GivesBack(late) ==
    /\ status' = [t \in tasks |-> IF t \in late THEN "unstarted" ELSE status[t]]
    /\ assignedWorker' = [m \in Maps |-> IF m \in late THEN None ELSE assignedWorker[m]]
    /\ stage' = Woken
    /\ UNCHANGED rescheduling

\* Reduce tasks are looked at only while no map task remains.
RescheduleMaps(late) ==
    mapRemaining # 0 /\ late # {} /\ late \subseteq Maps /\ GivesBack(late)

RescheduleReduces(late) ==
    mapRemaining = 0 /\ reduceRemaining # 0 /\ late \subseteq Reduces /\ GivesBack(late)

\* Nothing remains: the last broadcast, though a map task may be reset after it.
ReschedulerEnds ==
    /\ mapRemaining = 0 /\ reduceRemaining = 0
    /\ rescheduling' = FALSE
    /\ stage' = Woken
    /\ UNCHANGED <<status, assignedWorker>>

Rescheduler(late) ==
    /\ up /\ rescheduling
    /\ \A t \in late : Overdue(t)
    /\ RescheduleMaps(late) \/ RescheduleReduces(late) \/ (late = {} /\ ReschedulerEnds)
    /\ UNCHANGED <<counts, workerMap, results, up, alive, handVars, disk, accusations>>

\* main polls Done, which merges the results once; it exits a second later.
CoordinatorExits ==
    /\ up /\ reduceRemaining = 0
    /\ up' = FALSE
    /\ UNCHANGED <<status, assignedWorker, counts, workerMap, results, rescheduling,
                   alive, stage, handVars, disk, accusations>>

Next ==
    \/ \E w \in Workers : WorkerStep(w) \/ HealthCheck(w) \/ Crash(w)
    \/ \E a \in Workers \cup {None} : HealthMonitor(a) \/ ReportFailure(a)
    \/ \E late \in SUBSET tasks : Rescheduler(late)
    \/ CoordinatorExits

\* Workers run until they die, the goroutines make their rounds, the failure calls
\* arrive, and main polls.
Fairness ==
    /\ \A w \in Workers : WF_vars(WorkerStep(w)) /\ WF_vars(HealthCheck(w))
    /\ \A a \in Workers \cup {None} : WF_vars(HealthMonitor(a)) /\ WF_vars(ReportFailure(a))
    /\ WF_vars(\E late \in SUBSET tasks : Rescheduler(late))
    /\ \A t \in tasks : WF_vars(\E late \in SUBSET tasks : t \in late /\ Rescheduler(late))
    /\ WF_vars(CoordinatorExits)

Spec == Init /\ [][Next]_vars /\ Fairness

----------------------------------------------------------------------------
Stages == {"idle", "map", "writing", "mapped", "reduce", "reduced", "gone"} \cup Waiting

TypeOK ==
    /\ status \in [tasks -> {"unstarted", "inprogress", "completed"}]
    /\ assignedWorker \in [Maps -> Workers \cup {None}]
    /\ mapRemaining \in Int /\ reduceRemaining \in Int
    /\ workerMap \subseteq Workers \cup {None}
    /\ results \in [Reduces -> SUBSET Maps]
    /\ up \in BOOLEAN /\ rescheduling \in BOOLEAN
    /\ alive \in [Workers -> BOOLEAN]
    /\ stage \in [Workers -> Stages]
    /\ task \in [Workers -> tasks \cup {None}]
    /\ locations \in [Workers -> [Maps -> Workers \cup {None}]]
    /\ has \in [Workers -> SUBSET Maps] /\ unread \in [Workers -> SUBSET Maps]
    /\ failed \in [Workers -> BOOLEAN]
    /\ disk \in [Workers -> [Maps -> {"none", "partial", "whole"}]]
    /\ accusations \subseteq Workers

\* A task given out that nobody is at.
Abandoned(t) == up /\ status[t] = "inprogress" /\ \A w \in Workers : task[w] # t

\* "if a task is dead, a worker is down, something needs to be rearranged, we call this"
\* (coordinator.go:190): no task stays with a worker that has died or given it up.
Rearranged == \A t \in tasks : Abandoned(t) ~> ~ Abandoned(t)

\* What is counted is what is not completed.
MapsCounted == mapRemaining = Cardinality({m \in Maps : status[m] # "completed"})

\* A result that is reported accounts for every map task.
ResultsComplete == \A r \in Reduces : status[r] = "completed" => results[r] = Maps

=============================================================================
