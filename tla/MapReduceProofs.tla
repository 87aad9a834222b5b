-------------------------- MODULE MapReduceProofs --------------------------
(* The MapReduce coordinator's books, and that a job without slow workers    *)
(* is the job of MapReduceJob, for any number of workers and tasks.          *)
EXTENDS MapReduce, FiniteSetTheorems, TLAPS

----------------------------------------------------------------------------
(* Types *)

Tasks == Maps \cup Reduces

LEMMA GivesType ==
    ASSUME TypeOK, NEW w \in Workers, NEW t \in Tasks, NEW work,
           (work = "map" /\ t \in Maps) \/ (work = "reduce" /\ t \in Reduces),
           Gives(w, t, work)
    PROVE  TypeOK'
BY DEF TypeOK, Tasks, Gives, Stages, Reducing, coordVars, diskVars, workerVars

LEMMA GoesType ==
    ASSUME TypeOK, NEW w \in Workers, task[w] = None,
           NEW where \in {"gone", "waitMap", "waitReduce"}, Goes(w, where)
    PROVE  TypeOK'
BY DEF TypeOK, Goes, Stages, Reducing, coordVars, diskVars, workerVars

\* A handler of GetTask has no task yet.
LEMMA AskingHasNone ==
    ASSUME TypeOK, NEW w \in Workers,
           SeeksMap(w) \/ SeeksReduce(w) \/ PastMaps(w) \/ stage[w] = "retryReduce"
    PROVE  task[w] = None
BY DEF TypeOK, SeeksMap, SeeksReduce, PastMaps, Calls, Reducing

LEMMA WokenStages ==
    ASSUME TypeOK
    PROVE  /\ Woken \in [Workers -> Stages]
           /\ \A w \in Workers :
                 /\ Woken[w] = "map" <=> stage[w] = "map"
                 /\ Woken[w] \in Reducing <=> stage[w] \in Reducing
                 /\ \A s \in Reducing : Woken[w] = s <=> stage[w] = s
BY DEF Woken, TypeOK, Stages, Reducing

LEMMA TypeKept ==
    ASSUME TypeOK, [Next]_vars
    PROVE  TypeOK'
<1> USE WorkerAssumption
<1>1. ASSUME NEW w \in Workers, GetTask(w) PROVE TypeOK'
  <2>1. CASE TakeMap(w)
      BY <2>1, GivesType DEF TakeMap, Unstarted, Tasks
  <2>2. CASE TakeReduce(w)
      BY <2>2, GivesType DEF TakeReduce, Unstarted, Tasks
  <2>3. CASE WaitForMap(w)
      BY <2>3, GoesType, AskingHasNone DEF WaitForMap
  <2>4. CASE WaitForReduce(w)
      BY <2>4, GoesType, AskingHasNone DEF WaitForReduce
  <2>5. CASE NoMoreTasks(w)
      BY <2>5, GoesType, AskingHasNone DEF NoMoreTasks
  <2> QED BY <1>1, <2>1, <2>2, <2>3, <2>4, <2>5 DEF GetTask
<1>2. ASSUME NEW w \in Workers, Report(w) PROVE TypeOK'
  <2>1. task[w] \in Tasks
      BY <1>2 DEF Report, Executed, TypeOK, Tasks, Reducing
  <2> QED
      BY <1>2, <2>1 DEF Report, UpdateTaskStatus, TypeOK, Tasks, Stages, Reducing, diskVars
<1>3. ASSUME NEW w \in Workers, NEW r \in Reduces, RenameOutput(w, r) PROVE TypeOK'
    BY <1>3 DEF RenameOutput, TypeOK, Stages, Reducing, coordVars
<1>4. ASSUME NEW w \in Workers, ReadInputs(w) PROVE TypeOK'
    BY <1>4 DEF ReadInputs, TypeOK, Stages, Reducing, coordVars, diskVars
<1>5. ASSUME NEW w \in Workers, CreateResult(w) PROVE TypeOK'
    BY <1>5 DEF CreateResult, TypeOK, Stages, Reducing, coordVars
<1>6. ASSUME NEW w \in Workers, WriteResult(w) PROVE TypeOK'
  <2>1. task[w] \in Reduces
      BY <1>6 DEF WriteResult, TypeOK, Reducing
  <2>2. out' \in [Reduces -> [by : Workers \cup {None}, maps : SUBSET Maps]]
      BY <1>6, <2>1 DEF WriteResult, TypeOK
  <2> QED
      BY <1>6, <2>2 DEF WriteResult, TypeOK, Stages, Reducing, coordVars
<1>7. ASSUME NEW w \in Workers, CallFails(w) PROVE TypeOK'
    BY <1>7 DEF CallFails, TypeOK, Stages, Reducing, coordVars, diskVars
<1>8. ASSUME NEW w \in Workers, Crash(w) PROVE TypeOK'
    BY <1>8 DEF Crash, TypeOK, Stages, Reducing, coordVars, diskVars
<1>9. ASSUME NEW late, Rescheduler(late) PROVE TypeOK'
  <2>1. stage' = Woken /\ UNCHANGED <<up, alive, task, has, diskVars>>
      BY <1>9 DEF Rescheduler, RescheduleMaps, RescheduleReduces, ReschedulerEnds, GivesBack, WokenInReducePhase
  <2>2. /\ status' \in [Tasks -> {"unstarted", "inprogress", "completed"}]
        /\ UNCHANGED <<mapRemaining, reduceRemaining>> /\ rescheduling' \in BOOLEAN
      BY <1>9 DEF Rescheduler, RescheduleMaps, RescheduleReduces, ReschedulerEnds, GivesBack, TypeOK, Tasks
  <2> QED
      BY <2>1, <2>2, WokenStages DEF TypeOK, diskVars, Tasks
<1>10. CASE CoordinatorExits
    BY <1>10 DEF CoordinatorExits, TypeOK, coordVars, diskVars, workerVars
<1>11. CASE UNCHANGED vars
    BY <1>11 DEF vars, TypeOK, coordVars, diskVars, workerVars
<1> QED
    BY <1>1, <1>2, <1>3, <1>4, <1>5, <1>6, <1>7, <1>8, <1>9, <1>10, <1>11 DEF Next, WorkerStep

LEMMA TypeInit == Init => TypeOK
BY WorkerAssumption, FS_CardinalityType DEF Init, TypeOK, Stages, Reducing

\* Types, whatever workers do (UpdateTaskStatus and GetTask of coordinator.go).
THEOREM TypeCorrect == Spec => []TypeOK
BY TypeInit, TypeKept, PTL DEF Spec

----------------------------------------------------------------------------
(* The coordinator's books *)

\* What the coordinator counts.
Books == <<Completed(Maps), Completed(Reduces), mapRemaining, reduceRemaining>>

LEMMA SameCompleted ==
    ASSUME \A t \in Tasks : status'[t] = "completed" <=> status[t] = "completed"
    PROVE  Completed(Maps)' = Completed(Maps) /\ Completed(Reduces)' = Completed(Reduces)
BY DEF Completed, Tasks

\* Only a report completes a task or changes a count.
LEMMA OthersKeepBooks ==
    ASSUME TypeOK, [Next]_vars, ~ \E w \in Workers : Report(w)
    PROVE  UNCHANGED Books
<1> SUFFICES /\ UNCHANGED <<mapRemaining, reduceRemaining>>
             /\ \A t \in Tasks : status'[t] = "completed" <=> status[t] = "completed"
    BY SameCompleted DEF Books
<1>1. ASSUME NEW w \in Workers, NEW t \in Tasks, NEW work, Gives(w, t, work), status[t] = "unstarted"
      PROVE  /\ UNCHANGED <<mapRemaining, reduceRemaining>>
             /\ \A u \in Tasks : status'[u] = "completed" <=> status[u] = "completed"
    BY <1>1 DEF Gives, TypeOK, Tasks
<1>2. ASSUME NEW late, GivesBack(late), \A t \in late : status[t] = "inprogress"
      PROVE  /\ UNCHANGED <<mapRemaining, reduceRemaining>>
             /\ \A u \in Tasks : status'[u] = "completed" <=> status[u] = "completed"
    BY <1>2 DEF GivesBack, TypeOK, Tasks
<1>3. CASE \E w \in Workers : TakeMap(w) \/ TakeReduce(w)
    BY <1>1, <1>3 DEF TakeMap, TakeReduce, Unstarted, Tasks
<1>4. CASE \E late : Rescheduler(late)
    BY <1>2, <1>4 DEF Rescheduler, RescheduleMaps, RescheduleReduces, ReschedulerEnds, Overdue
<1>5. CASE UNCHANGED coordVars
    BY <1>5 DEF coordVars
<1>6. ASSUME NEW w \in Workers, WorkerStep(w), ~ (TakeMap(w) \/ TakeReduce(w)), ~ Report(w)
      PROVE  UNCHANGED coordVars
    BY <1>6 DEF WorkerStep, GetTask, WaitForMap, WaitForReduce, NoMoreTasks, Goes, RenameOutput,
                ReadInputs, CreateResult, WriteResult, CallFails
<1> QED
    BY <1>3, <1>4, <1>5, <1>6 DEF Next, Crash, CoordinatorExits, vars, coordVars

LEMMA ReportType ==
    ASSUME TypeOK, NEW w \in Workers, Report(w)
    PROVE  task[w] \in Tasks /\ (stage[w] = "map" => task[w] \in Maps)
                             /\ (stage[w] # "map" => task[w] \in Reduces /\ stage[w] = "written")
BY DEF TypeOK, Report, Executed, Reducing, Tasks

\* A report takes one task off what is left, if it was still left.
LEMMA ReportCompletes ==
    ASSUME TypeOK, NEW w \in Workers, Report(w)
    PROVE  /\ (Maps \ Completed(Maps))' = (Maps \ Completed(Maps)) \ {task[w]}
           /\ (Reduces \ Completed(Reduces))' = (Reduces \ Completed(Reduces)) \ {task[w]}
BY ReportType DEF Report, UpdateTaskStatus, Completed, TypeOK, Tasks

LEMMA LeftFinite ==
    ASSUME NEW S, IsFiniteSet(S), NEW t
    PROVE  /\ IsFiniteSet(S \ Completed(S))
           /\ Cardinality(S \ Completed(S)) \in Nat
           /\ t \in S \ Completed(S) =>
                 Cardinality((S \ Completed(S)) \ {t}) = Cardinality(S \ Completed(S)) - 1
           /\ t \notin S \ Completed(S) =>
                 (S \ Completed(S)) \ {t} = S \ Completed(S)
<1>1. IsFiniteSet(S \ Completed(S))
    BY FS_Subset DEF Completed
<1> DEFINE L == S \ Completed(S)
<1> HIDE DEF L
<1>2. IsFiniteSet(L) /\ Cardinality(L) \in Nat
    BY <1>1, FS_CardinalityType DEF L
<1>3. Cardinality(L \ {t}) = IF t \in L THEN Cardinality(L) - 1 ELSE Cardinality(L)
    BY <1>2, FS_RemoveElement
<1>4. t \in L => Cardinality(L \ {t}) = Cardinality(L) - 1
    BY <1>3
<1>5. t \notin L => L \ {t} = L
    OBVIOUS
<1> QED
    BY <1>2, <1>4, <1>5 DEF L

\* The counts never exceed what is left, even when a task is reported twice.
THEOREM CountedOnce == Spec => []NothingCountedLeft
<1>1. Init => NothingCountedLeft
  <2> SUFFICES ASSUME Init PROVE NothingCountedLeft
      OBVIOUS
  <2>1. Maps \ Completed(Maps) = Maps /\ Reduces \ Completed(Reduces) = Reduces
      BY DEF Init, Completed
  <2>2. Cardinality(Maps) \in Nat /\ Cardinality(Reduces) \in Nat
      BY FS_CardinalityType, WorkerAssumption
  <2>3. mapRemaining = Cardinality(Maps) /\ reduceRemaining = Cardinality(Reduces)
      BY DEF Init
  <2> QED
      BY <2>1, <2>2, <2>3 DEF NothingCountedLeft
<1>2. TypeOK /\ NothingCountedLeft /\ [Next]_vars => NothingCountedLeft'
  <2> SUFFICES ASSUME TypeOK, NothingCountedLeft, [Next]_vars PROVE NothingCountedLeft'
      OBVIOUS
  <2>1. CASE ~ \E w \in Workers : Report(w)
      BY <2>1, OthersKeepBooks DEF Books, NothingCountedLeft
  <2>2. ASSUME NEW w \in Workers, Report(w) PROVE NothingCountedLeft'
    <3> DEFINE ml == Maps \ Completed(Maps)
               rl == Reduces \ Completed(Reduces)
    <3>1. Cardinality(ml) \in Nat /\ Cardinality(rl) \in Nat
        BY LeftFinite, WorkerAssumption
    <3>2. /\ ml' = ml \ {task[w]} /\ rl' = rl \ {task[w]}
          /\ task[w] \in Maps \/ task[w] \in Reduces
        BY <2>2, ReportCompletes, ReportType
    <3>3. /\ task[w] \in Maps => mapRemaining' = mapRemaining - 1 /\ reduceRemaining' = reduceRemaining
          /\ task[w] \notin Maps => mapRemaining' = mapRemaining /\ reduceRemaining' = reduceRemaining - 1
        BY <2>2 DEF Report, UpdateTaskStatus
    <3>4. /\ Cardinality(ml') \in {Cardinality(ml), Cardinality(ml) - 1}
          /\ task[w] \notin Maps => Cardinality(ml') = Cardinality(ml)
        BY <3>2, LeftFinite, WorkerAssumption
    <3>5. /\ Cardinality(rl') \in {Cardinality(rl), Cardinality(rl) - 1}
          /\ task[w] \in Maps => Cardinality(rl') = Cardinality(rl)
        BY <3>2, LeftFinite, WorkerAssumption
    <3>6. mapRemaining \in Int /\ reduceRemaining \in Int
          /\ mapRemaining <= Cardinality(ml) /\ reduceRemaining <= Cardinality(rl)
        BY DEF NothingCountedLeft, TypeOK
    <3>7. mapRemaining' <= Cardinality(ml') /\ reduceRemaining' <= Cardinality(rl')
      <4> HIDE DEF ml, rl
      <4> QED BY <3>1, <3>3, <3>4, <3>5, <3>6
    <3> QED
        BY <3>7 DEF NothingCountedLeft
  <2> QED
      BY <2>1, <2>2
<1> QED
    BY <1>1, <1>2, TypeCorrect, PTL DEF Spec

----------------------------------------------------------------------------
(* The map outputs *)

\* What a worker has renamed is in the directory.
RenamedHeld == \A w \in Workers : stage[w] = "map" => \A r \in has[w] : <<task[w], r>> \in files

MapOutputInv == MapOutputsHeld /\ RenamedHeld

LEMMA FilesGrow ==
    ASSUME [Next]_vars
    PROVE  files \subseteq files'
<1>1. ASSUME NEW w \in Workers, WorkerStep(w) \/ Crash(w) PROVE files \subseteq files'
    BY <1>1 DEF WorkerStep, GetTask, TakeMap, TakeReduce, Gives, WaitForMap, WaitForReduce, NoMoreTasks,
                Goes, Report, RenameOutput, ReadInputs, CreateResult, WriteResult, CallFails, Crash, diskVars
<1>2. ASSUME NEW late, Rescheduler(late) PROVE files \subseteq files'
    BY <1>2 DEF Rescheduler, RescheduleMaps, RescheduleReduces, ReschedulerEnds, GivesBack, diskVars
<1> QED
    BY <1>1, <1>2 DEF Next, CoordinatorExits, vars, diskVars

\* A worker at a map task after a step was there before, or starts it.
LEMMA RenamedKept ==
    ASSUME TypeOK, RenamedHeld, [Next]_vars
    PROVE  RenamedHeld'
<1> SUFFICES ASSUME NEW v \in Workers, stage'[v] = "map", NEW r \in has'[v]
             PROVE  <<task'[v], r>> \in files'
    BY DEF RenamedHeld
<1>1. CASE stage[v] = "map" /\ task'[v] = task[v] /\ has'[v] = has[v]
    BY <1>1, FilesGrow DEF RenamedHeld
<1>2. ASSUME NEW w \in Workers, GetTask(w) PROVE <<task'[v], r>> \in files'
  <2>1. CASE v = w
      BY <1>2, <2>1 DEF GetTask, TakeMap, TakeReduce, Gives, WaitForMap, WaitForReduce, NoMoreTasks, Goes, TypeOK
  <2>2. CASE v # w
      BY <1>1, <1>2, <2>2 DEF GetTask, TakeMap, TakeReduce, Gives, WaitForMap, WaitForReduce, NoMoreTasks, Goes, TypeOK
  <2> QED BY <2>1, <2>2
<1>3. ASSUME NEW w \in Workers, NEW q \in Reduces, RenameOutput(w, q) PROVE <<task'[v], r>> \in files'
    BY <1>3 DEF RenameOutput, RenamedHeld, TypeOK
<1>4. ASSUME NEW w \in Workers,
             Report(w) \/ ReadInputs(w) \/ CreateResult(w) \/ WriteResult(w) \/ CallFails(w) \/ Crash(w)
      PROVE  <<task'[v], r>> \in files'
  <2>1. v # w
      BY <1>4 DEF Report, ReadInputs, CreateResult, WriteResult, CallFails, Crash, TypeOK
  <2> QED
      BY <1>1, <1>4, <2>1 DEF Report, ReadInputs, CreateResult, WriteResult, CallFails, Crash, TypeOK
<1>5. ASSUME NEW late, Rescheduler(late) PROVE <<task'[v], r>> \in files'
    BY <1>1, <1>5, WokenStages DEF Rescheduler, RescheduleMaps, RescheduleReduces, ReschedulerEnds,
                                   GivesBack, WokenInReducePhase
<1>6. CASE CoordinatorExits \/ UNCHANGED vars
    BY <1>1, <1>6 DEF CoordinatorExits, vars, workerVars
<1> QED
    BY <1>2, <1>3, <1>4, <1>5, <1>6 DEF Next, WorkerStep

LEMMA MapOutputsKept ==
    ASSUME TypeOK, MapOutputInv, [Next]_vars
    PROVE  MapOutputsHeld'
<1>1. CASE ~ \E w \in Workers : Report(w)
    BY <1>1, OthersKeepBooks, FilesGrow DEF Books, MapOutputInv, MapOutputsHeld
<1>2. ASSUME NEW w \in Workers, Report(w) PROVE MapOutputsHeld'
  <2>1. Completed(Maps)' \subseteq Completed(Maps) \cup (IF stage[w] = "map" THEN {task[w]} ELSE {})
      BY <1>2, ReportType, WorkerAssumption DEF Report, UpdateTaskStatus, Completed, TypeOK, Tasks
  <2>2. stage[w] = "map" => \A r \in Reduces : <<task[w], r>> \in files
      BY <1>2 DEF Report, Executed, MapOutputInv, RenamedHeld
  <2> QED
      BY <2>1, <2>2, FilesGrow DEF MapOutputInv, MapOutputsHeld
<1> QED
    BY <1>1, <1>2

\* A map task is completed only with its partitions in the directory, whoever
\* runs it, how often, and whoever dies at it.
THEOREM MapOutputsThere == Spec => []MapOutputsHeld
<1>1. Init => MapOutputInv
    BY DEF Init, MapOutputInv, MapOutputsHeld, RenamedHeld, Completed
<1>2. TypeOK /\ MapOutputInv /\ [Next]_vars => MapOutputInv'
    BY RenamedKept, MapOutputsKept DEF MapOutputInv
<1>3. MapOutputInv => MapOutputsHeld
    BY DEF MapOutputInv
<1> QED
    BY <1>1, <1>2, <1>3, TypeCorrect, PTL DEF Spec

----------------------------------------------------------------------------
(* A job without slow workers *)

\* A task in progress has one worker at most, and whoever works on one has it
\* in progress: the coordinator's entry is about that worker.
Owned ==
    /\ \A w \in Workers : task[w] # None => status[task[w]] = "inprogress"
    /\ \A v, w \in Workers : task[v] = task[w] /\ task[v] # None => v = w

InReduces == {"waitReduce", "retryReduce"} \cup Reducing

\* Nobody gets past the map phase before all its tasks are done.
ReducePhase == \A w \in Workers : stage[w] \in InReduces => Completed(Maps) = Maps

\* A reduce task reads all outputs, and is reported with all of them written.
Results ==
    \A w \in Workers :
       /\ stage[w] \in {"read", "writing"} => has[w] = Maps
       /\ stage[w] = "writing" => out[task[w]].by = w
       /\ stage[w] = "written" => out[task[w]].maps = Maps

TimelyInv == CountsAgree /\ Owned /\ ReducePhase /\ Results

\* A worker's step is no other worker's.
LEMMA OnlyOwn ==
    ASSUME TypeOK, NEW w \in Workers, NEW v \in Workers, v # w, WorkerStep(w) \/ Crash(w)
    PROVE  stage'[v] = stage[v] /\ task'[v] = task[v] /\ has'[v] = has[v]
<1>1. CASE GetTask(w)
    BY <1>1 DEF GetTask, TakeMap, TakeReduce, Gives, WaitForMap, WaitForReduce, NoMoreTasks, Goes, TypeOK
<1>2. CASE \E r \in Reduces : RenameOutput(w, r)
    BY <1>2 DEF RenameOutput, TypeOK
<1>3. CASE Report(w) \/ ReadInputs(w) \/ CreateResult(w) \/ WriteResult(w) \/ CallFails(w) \/ Crash(w)
    BY <1>3 DEF Report, ReadInputs, CreateResult, WriteResult, CallFails, Crash, TypeOK
<1> QED
    BY <1>1, <1>2, <1>3 DEF WorkerStep

Goroutine == (\E late : Rescheduler(late)) \/ CoordinatorExits \/ UNCHANGED vars

LEMMA StepOfOne ==
    ASSUME [Next]_vars
    PROVE  Goroutine \/ \E w \in Workers : WorkerStep(w) \/ Crash(w)
BY DEF Next, Goroutine

\* The coordinator's goroutines wake handlers and leave work alone.
LEMMA GoroutineLeaves ==
    ASSUME TypeOK, Goroutine
    PROVE  /\ UNCHANGED <<task, has, files, out>>
           /\ \A v \in Workers : (stage'[v] \in InReduces <=> stage[v] \in InReduces)
           /\ \A v \in Workers : \A s \in Reducing : (stage'[v] = s <=> stage[v] = s)
<1>1. ASSUME NEW late, Rescheduler(late)
      PROVE  UNCHANGED <<task, has, files, out>> /\ stage' = Woken
    BY <1>1 DEF Rescheduler, RescheduleMaps, RescheduleReduces, ReschedulerEnds, GivesBack,
                WokenInReducePhase, diskVars
<1>2. \A v \in Workers : Woken[v] \in InReduces <=> stage[v] \in InReduces
    BY DEF Woken, TypeOK, InReduces, Reducing
<1>3. CASE \E late : Rescheduler(late)
    BY <1>1, <1>2, <1>3, WokenStages
<1>4. CASE CoordinatorExits \/ UNCHANGED vars
    BY <1>4 DEF CoordinatorExits, vars, workerVars, diskVars
<1> QED
    BY <1>3, <1>4 DEF Goroutine

LEMMA OwnedKept ==
    ASSUME TypeOK, Slow = {}, Owned, [Next]_vars
    PROVE  Owned'
<1>1. ASSUME NEW w \in Workers, NEW t \in Tasks, NEW work, Gives(w, t, work), status[t] = "unstarted",
             task[w] = None
      PROVE  Owned'
    BY <1>1, WorkerAssumption DEF Gives, Owned, TypeOK, Tasks
<1>2. ASSUME NEW w \in Workers, Report(w) PROVE Owned'
    BY <1>2, ReportType, WorkerAssumption DEF Report, UpdateTaskStatus, Owned, TypeOK, Tasks
<1>3. ASSUME NEW late, Rescheduler(late) PROVE Owned'
  <2>1. CASE ReschedulerEnds
      BY <1>3, <2>1 DEF ReschedulerEnds, Owned
  <2>2. CASE GivesBack(late) /\ \A t \in late : Overdue(t)
    <3>1. \A w \in Workers : task[w] \notin late
        BY <2>2 DEF Overdue
    <3> QED
        BY <2>2, <3>1, WorkerAssumption DEF GivesBack, Owned, TypeOK, Tasks
  <2> QED
      BY <1>3, <2>1, <2>2 DEF Rescheduler, RescheduleMaps, RescheduleReduces
<1>4. ASSUME status' = status, \A v \in Workers : task'[v] \in {task[v], None} PROVE Owned'
    BY <1>4 DEF Owned
<1>5. ASSUME NEW w \in Workers, GetTask(w) PROVE Owned'
  <2>1. CASE TakeMap(w) \/ TakeReduce(w)
      BY <2>1, <1>1, AskingHasNone DEF TakeMap, TakeReduce, Unstarted, Tasks
  <2>2. CASE WaitForMap(w) \/ WaitForReduce(w) \/ NoMoreTasks(w)
      BY <2>2, <1>4 DEF WaitForMap, WaitForReduce, NoMoreTasks, Goes, coordVars
  <2> QED BY <1>5, <2>1, <2>2 DEF GetTask
<1>6. ASSUME NEW w \in Workers, CallFails(w) \/ Crash(w) PROVE Owned'
    BY <1>4, <1>6 DEF CallFails, Crash, TypeOK, coordVars
<1>7. ASSUME NEW w \in Workers,
             (\E r \in Reduces : RenameOutput(w, r)) \/ ReadInputs(w) \/ CreateResult(w) \/ WriteResult(w)
      PROVE  Owned'
    BY <1>4, <1>7 DEF RenameOutput, ReadInputs, CreateResult, WriteResult, coordVars
<1>8. CASE CoordinatorExits \/ UNCHANGED vars
    BY <1>4, <1>8 DEF CoordinatorExits, vars, coordVars, workerVars
<1> QED
    BY <1>2, <1>3, <1>5, <1>6, <1>7, <1>8 DEF Next, WorkerStep

LEMMA CountsKept ==
    ASSUME TypeOK, Owned, CountsAgree, [Next]_vars
    PROVE  CountsAgree'
<1>1. CASE ~ \E w \in Workers : Report(w)
    BY <1>1, OthersKeepBooks DEF Books, CountsAgree
<1>2. ASSUME NEW w \in Workers, Report(w) PROVE CountsAgree'
  <2> DEFINE ml == Maps \ Completed(Maps)
             rl == Reduces \ Completed(Reduces)
  <2>1. ml' = ml \ {task[w]} /\ rl' = rl \ {task[w]}
      BY <1>2, ReportCompletes
  <2>2. status[task[w]] = "inprogress" /\ (task[w] \in Maps \/ task[w] \in Reduces)
      BY <1>2, ReportType, WorkerAssumption DEF Owned, Tasks
  <2>3. CASE task[w] \in Maps
    <3>1. task[w] \in ml /\ task[w] \notin rl
        BY <2>2, <2>3, WorkerAssumption DEF Completed
    <3>2. Cardinality(ml') = Cardinality(ml) - 1 /\ rl' = rl
        BY <2>1, <3>1, LeftFinite, WorkerAssumption
    <3>3. mapRemaining' = mapRemaining - 1 /\ reduceRemaining' = reduceRemaining
        BY <1>2, <2>3 DEF Report, UpdateTaskStatus
    <3> QED
        BY <3>2, <3>3 DEF CountsAgree
  <2>4. CASE task[w] \notin Maps
    <3>1. task[w] \in rl /\ task[w] \notin ml
        BY <2>2, <2>4, WorkerAssumption DEF Completed
    <3>2. Cardinality(rl') = Cardinality(rl) - 1 /\ ml' = ml
        BY <2>1, <3>1, LeftFinite, WorkerAssumption
    <3>3. mapRemaining' = mapRemaining /\ reduceRemaining' = reduceRemaining - 1
        BY <1>2, <2>4 DEF Report, UpdateTaskStatus
    <3> QED
        BY <3>2, <3>3 DEF CountsAgree
  <2> QED BY <2>3, <2>4
<1> QED
    BY <1>1, <1>2

\* A count at zero: everything is done.
LEMMA ZeroMeansAll ==
    ASSUME CountsAgree
    PROVE  /\ mapRemaining = 0 => Completed(Maps) = Maps
           /\ reduceRemaining = 0 => Completed(Reduces) = Reduces
<1>1. /\ mapRemaining = 0 => Maps \ Completed(Maps) = {}
      /\ reduceRemaining = 0 => Reduces \ Completed(Reduces) = {}
    BY LeftFinite, FS_EmptySet, WorkerAssumption DEF CountsAgree
<1> QED
    BY <1>1 DEF Completed

LEMMA CompletedGrows ==
    ASSUME TypeOK, [Next]_vars
    PROVE  Completed(Maps) \subseteq Completed(Maps)' /\ Completed(Maps)' \subseteq Maps
<1>1. CASE ~ \E w \in Workers : Report(w)
    BY <1>1, OthersKeepBooks DEF Books, Completed
<1>2. ASSUME NEW w \in Workers, Report(w) PROVE Completed(Maps) \subseteq Completed(Maps)'
    BY <1>2, ReportCompletes DEF Completed
<1> QED
    BY <1>1, <1>2 DEF Completed

\* GetTask reaches the reduce tasks only through a map count of zero.
LEMMA ReducePhaseKept ==
    ASSUME TypeOK, CountsAgree, ReducePhase, [Next]_vars
    PROVE  ReducePhase'
<1> SUFFICES ASSUME NEW v \in Workers, stage'[v] \in InReduces PROVE Completed(Maps) = Maps
    BY CompletedGrows DEF ReducePhase
<1>1. CASE stage[v] \in InReduces
    BY <1>1 DEF ReducePhase
<1>2. CASE Goroutine
    BY <1>1, <1>2, GoroutineLeaves
<1>3. ASSUME NEW w \in Workers, WorkerStep(w) \/ Crash(w) PROVE Completed(Maps) = Maps
  <2>1. CASE v # w
      BY <1>1, <1>3, <2>1, OnlyOwn
  <2>2. CASE v = w /\ GetTask(w)
    <3>1. CASE SeeksReduce(w)
        BY <1>1, <3>1, <2>2, ZeroMeansAll DEF SeeksReduce, PastMaps, InReduces
    <3>2. CASE ~ SeeksReduce(w)
      <4>1. stage'[v] \in {"map", "gone", "waitMap"}
          BY <2>2, <3>2 DEF GetTask, TakeMap, TakeReduce, Gives, WaitForMap, WaitForReduce, NoMoreTasks, Goes, TypeOK
      <4> QED BY <4>1 DEF InReduces, Reducing
    <3> QED BY <3>1, <3>2
  <2>3. CASE v = w /\ (Report(w) \/ CallFails(w) \/ Crash(w))
      BY <1>1, <2>3 DEF Report, CallFails, Crash, TypeOK, InReduces, Reducing
  <2>4. CASE v = w /\ ((\E r \in Reduces : RenameOutput(w, r)) \/ ReadInputs(w) \/ CreateResult(w) \/ WriteResult(w))
      BY <1>1, <2>4 DEF RenameOutput, ReadInputs, CreateResult, WriteResult, InReduces, Reducing
  <2> QED
      BY <1>3, <2>1, <2>2, <2>3, <2>4 DEF WorkerStep
<1> QED
    BY <1>2, <1>3, StepOfOne

\* Who writes a result writes its own task's.
LEMMA OutOnlyOwn ==
    ASSUME TypeOK, NEW w \in Workers, WorkerStep(w) \/ Crash(w)
    PROVE  /\ out' = out \/ CreateResult(w) \/ WriteResult(w)
           /\ \A r \in Reduces : r # task[w] => out'[r] = out[r]
<1>1. CASE CreateResult(w) \/ WriteResult(w)
    BY <1>1 DEF CreateResult, WriteResult, TypeOK
<1>2. CASE ~ (CreateResult(w) \/ WriteResult(w))
    BY <1>2 DEF WorkerStep, GetTask, TakeMap, TakeReduce, Gives, WaitForMap, WaitForReduce, NoMoreTasks,
                Goes, Report, RenameOutput, ReadInputs, CallFails, Crash, diskVars
<1> QED BY <1>1, <1>2

LEMMA ResultsKept ==
    ASSUME TypeOK, MapOutputsHeld, Owned, ReducePhase, Results, [Next]_vars
    PROVE  Results'
<1> DEFINE Good(v) == /\ stage[v] \in {"read", "writing"} => has[v] = Maps
                      /\ stage[v] = "writing" => out[task[v]].by = v
                      /\ stage[v] = "written" => out[task[v]].maps = Maps
<1> SUFFICES ASSUME NEW v \in Workers PROVE Good(v)'
    BY DEF Results
<1>1. Good(v)
    BY DEF Results
<1>2. CASE Goroutine
    BY <1>1, <1>2, GoroutineLeaves DEF Reducing
<1>3. ASSUME NEW w \in Workers, WorkerStep(w) \/ Crash(w), v # w PROVE Good(v)'
  <2>1. stage'[v] = stage[v] /\ task'[v] = task[v] /\ has'[v] = has[v]
      BY <1>3, OnlyOwn
  <2>2. CASE stage[v] \in Reducing
    <3>1. task[v] \in Reduces /\ task[v] # task[w]
        BY <1>3, <2>2, WorkerAssumption DEF TypeOK, Owned
    <3> QED
        BY <1>1, <1>3, <2>1, <3>1, OutOnlyOwn
  <2> QED
      BY <2>1, <2>2 DEF Reducing
<1>4. CASE GetTask(v) \/ Report(v) \/ CallFails(v) \/ Crash(v)
  <2>1. stage'[v] \notin {"read", "writing", "written"}
      BY <1>4 DEF GetTask, TakeMap, TakeReduce, Gives, WaitForMap, WaitForReduce, NoMoreTasks, Goes,
                  SeeksMap, SeeksReduce, PastMaps, Calls, Report, CallFails, Crash, TypeOK
  <2> QED BY <2>1
<1>5. CASE \E r \in Reduces : RenameOutput(v, r)
    BY <1>5 DEF RenameOutput
<1>6. CASE ReadInputs(v)
  <2>1. task[v] \in Reduces /\ Completed(Maps) = Maps
      BY <1>6 DEF ReadInputs, TypeOK, ReducePhase, InReduces, Reducing
  <2>2. has'[v] = Maps /\ stage'[v] = "read"
      BY <1>6, <2>1 DEF ReadInputs, TypeOK, MapOutputsHeld
  <2> QED BY <2>2
<1>7. CASE CreateResult(v)
  <2>1. task[v] \in Reduces
      BY <1>7 DEF CreateResult, TypeOK, Reducing
  <2>2. out'[task[v]].by = v /\ stage'[v] = "writing" /\ has' = has /\ task' = task
      BY <1>7, <2>1 DEF CreateResult, TypeOK
  <2> QED BY <1>1, <1>7, <2>2 DEF CreateResult
<1>8. CASE WriteResult(v)
  <2>1. task[v] \in Reduces
      BY <1>8 DEF WriteResult, TypeOK, Reducing
  <2>2. out'[task[v]].maps = has[v] /\ stage'[v] = "written" /\ task' = task
      BY <1>1, <1>8, <2>1 DEF WriteResult, TypeOK
  <2> QED BY <1>1, <1>8, <2>2 DEF WriteResult
<1> QED
    BY <1>2, <1>3, <1>4, <1>5, <1>6, <1>7, <1>8, StepOfOne DEF WorkerStep

LEMMA TimelyKept ==
    ASSUME TypeOK, MapOutputsHeld, Slow = {}, TimelyInv, [Next]_vars
    PROVE  TimelyInv'
BY CountsKept, OwnedKept, ReducePhaseKept, ResultsKept DEF TimelyInv

LEMMA TimelyInit == Init => TimelyInv
<1> SUFFICES ASSUME Init PROVE TimelyInv
    OBVIOUS
<1>1. Maps \ Completed(Maps) = Maps /\ Reduces \ Completed(Reduces) = Reduces
    BY DEF Init, Completed
<1>2. CountsAgree
    BY <1>1 DEF Init, CountsAgree
<1>3. Owned /\ ReducePhase /\ Results
    BY DEF Init, Owned, ReducePhase, Results, InReduces, Reducing
<1> QED
    BY <1>2, <1>3 DEF TimelyInv

\* Without slow workers the coordinator's counts and statuses agree
\* (UpdateTaskStatus and Rescheduler of coordinator.go).
THEOREM TimelyCounts ==
    ASSUME Slow = {}
    PROVE  Spec => []CountsAgree
<1>1. TypeOK /\ MapOutputsHeld /\ TimelyInv /\ [Next]_vars => TimelyInv'
    BY TimelyKept
<1>2. TimelyInv => CountsAgree
    BY DEF TimelyInv
<1> QED
    BY <1>1, <1>2, TimelyInit, TypeCorrect, MapOutputsThere, PTL DEF Spec

\* Each step of a job without slow workers is a step of the abstract job, or none.
LEMMA TimelyStep ==
    ASSUME TypeOK, TimelyInv, [Next]_vars
    PROVE  [Job!JobNext]_(Job!jobVars)
<1> DEFINE results == [r \in Reduces |-> out[r].maps]
<1> USE DEF TimelyInv, Job!JobNext
<1>1. ASSUME UNCHANGED <<Completed(Maps), Completed(Reduces), out, up>>
      PROVE  UNCHANGED Job!jobVars
    BY <1>1 DEF Job!jobVars
<1>0. ASSUME NEW r \in Reduces, Job!ResultWritten(r) PROVE Job!JobNext
    BY <1>0 DEF Job!JobNext
<1>2. ASSUME NEW w \in Workers, Report(w) PROVE [Job!JobNext]_(Job!jobVars)
  <2>1. status[task[w]] = "inprogress" /\ UNCHANGED <<out, up>>
      BY <1>2, ReportType, WorkerAssumption DEF Owned, Tasks, Report, diskVars
  <2>2. CASE task[w] \in Maps
    <3>1. /\ task[w] \in Maps \ Completed(Maps) /\ Completed(Maps)' = Completed(Maps) \cup {task[w]}
          /\ Completed(Reduces)' = Completed(Reduces)
        BY <1>2, <2>1, <2>2, WorkerAssumption DEF Report, UpdateTaskStatus, Completed, TypeOK
    <3>2. Job!MapDone(task[w])
        BY <2>1, <3>1 DEF Job!MapDone
    <3> QED BY <2>2, <3>2
  <2>3. CASE task[w] \notin Maps
    <3>1. task[w] \in Reduces /\ out[task[w]].maps = Maps
        BY <1>2, <2>3, ReportType DEF Results
    <3>2. /\ task[w] \in Reduces \ Completed(Reduces) /\ Completed(Maps)' = Completed(Maps)
          /\ Completed(Reduces)' = Completed(Reduces) \cup {task[w]}
        BY <1>2, <2>1, <3>1, WorkerAssumption DEF Report, UpdateTaskStatus, Completed, TypeOK
    <3>3. Job!ReduceDone(task[w])
        BY <2>1, <3>1, <3>2 DEF Job!ReduceDone
    <3> QED BY <3>1, <3>3
  <2> QED BY <2>2, <2>3
<1>3. ASSUME NEW w \in Workers, CreateResult(w) \/ WriteResult(w), UNCHANGED Books
      PROVE  [Job!JobNext]_(Job!jobVars)
  <2>1. PICK q \in Reduces : q = task[w]
      BY <1>3 DEF CreateResult, WriteResult, TypeOK, Reducing
  <2>2. /\ status[q] = "inprogress" /\ Completed(Maps) = Maps
        /\ UNCHANGED <<up, Completed(Maps), Completed(Reduces)>>
      BY <1>3, <2>1, WorkerAssumption DEF CreateResult, WriteResult, Owned, ReducePhase, InReduces, Reducing, Books
  <2>3. q \in Reduces \ Completed(Reduces)
      BY <2>2 DEF Completed
  <2>4. CASE CreateResult(w)
    <3>1. results' = [results EXCEPT ![q] = {}]
        BY <2>1, <2>4 DEF CreateResult, TypeOK
    <3>2. Job!ResultWritten(q)
        BY <2>2, <2>3, <3>1 DEF Job!ResultWritten
    <3> QED BY <1>0, <3>2
  <2>5. CASE WriteResult(w)
    <3>1. out[q].by = w /\ has[w] = Maps
        BY <2>1, <2>5 DEF WriteResult, Results
    <3>2. \A r \in Reduces : out'[r].maps = IF r = q THEN Maps ELSE out[r].maps
        BY <2>1, <2>5, <3>1 DEF WriteResult, TypeOK
    <3>3. results' = [results EXCEPT ![q] = Maps]
        BY <3>2
    <3>4. Job!ResultWritten(q)
        BY <2>2, <2>3, <3>3 DEF Job!ResultWritten
    <3> QED BY <1>0, <3>4
  <2> QED BY <1>3, <2>4, <2>5
<1>4. ASSUME CoordinatorExits, UNCHANGED Books PROVE [Job!JobNext]_(Job!jobVars)
  <2>1. Completed(Reduces) = Reduces
      BY <1>4, ZeroMeansAll DEF CoordinatorExits, Done
  <2>2. Job!JobOver
      BY <1>4, <2>1 DEF CoordinatorExits, Job!JobOver, Books, diskVars
  <2> QED BY <2>2
<1>5. ASSUME NEW w \in Workers, WorkerStep(w) \/ Crash(w), UNCHANGED Books PROVE [Job!JobNext]_(Job!jobVars)
  <2>1. up' = up
      BY <1>5 DEF WorkerStep, GetTask, TakeMap, TakeReduce, Gives, WaitForMap, WaitForReduce, NoMoreTasks,
                  Goes, Report, RenameOutput, ReadInputs, CreateResult, WriteResult, CallFails, Crash
  <2> QED BY <1>1, <1>3, <1>5, <2>1, OutOnlyOwn DEF Books
<1>6. ASSUME NEW late, Rescheduler(late), UNCHANGED Books PROVE [Job!JobNext]_(Job!jobVars)
    BY <1>1, <1>6, GoroutineLeaves DEF Goroutine, Rescheduler, RescheduleMaps, RescheduleReduces, ReschedulerEnds,
                   GivesBack, Books
<1>7. CASE UNCHANGED Books
    BY <1>1, <1>4, <1>5, <1>6, <1>7 DEF Next, vars, Books, diskVars
<1> QED
    BY <1>2, <1>7, OthersKeepBooks

\* Whoever dies, a job whose live workers keep the time limit is done as
\* MapReduceJob says: every task counted once, every result whole and final.
THEOREM TimelyJob ==
    ASSUME Slow = {}
    PROVE  Spec => ImplementsJob
<1>1. Init => Job!JobInit
    BY DEF Init, Job!JobInit, Completed
<1>2. TypeOK /\ MapOutputsHeld /\ TimelyInv /\ [Next]_vars => TimelyInv'
    BY TimelyKept
<1>3. TypeOK /\ TimelyInv /\ [Next]_vars => [Job!JobNext]_(Job!jobVars)
    BY TimelyStep
<1> QED
    BY <1>1, <1>2, <1>3, TimelyInit, TypeCorrect, MapOutputsThere, PTL DEF Spec, ImplementsJob, Job!JobSpec

=============================================================================
