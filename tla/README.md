# Specifications of the course systems

This directory specifies and verifies the programs of the repository: the
systems built in the labs of a master's programme (distributed systems, operating
systems, networking, real time, privacy and security).  They are separate
programs; each gets modules of its own.  The TLA+ is translated from the code
under `src/`, and each definition's lines are listed in `PROJECT.json` (`map`).

## The systems

| System | State | Operations | What is hard in it |
|---|---|---|---|
| Raft peer, `distributed-system/lab-2/src/raft/raft.go` | term, vote, log, snapshot bounds (persistent), role, commit index, per-follower indexes | `startElection`, `RequestVote`, `AppendEntries`, `InstallSnapshot`, the reply goroutines of each, `Start`, `Snapshot`, `Make` after a crash | every RPC reply is handled in a goroutine that lost the lock meanwhile; messages are lost, delayed and reordered; peers crash |
| Raft applier, same file 960-1031 | `lastApplied` | deliver entries or a snapshot with the lock released | `InstallSnapshot` and `Snapshot` move the log while it delivers |
| MapReduce, `distributed-system/lab-2/src/mr` | task tables, remaining counts | `GetTask`, `UpdateTaskStatus`, `Rescheduler`, `Done`; the worker's loop | a task given out again after 10 s while the first worker still finishes it |
| MapReduce with remote files, `lab-2-adv/src/mr` | the above, where each map output is, whom the coordinator hears from, what a reduce task has fetched | the above, `FetchData`, `PushWork`, `HealthCheck`, `HealthMonitor`, `ReportFailure`, resets | a worker that dies after its map task completed takes its output with it, while others wait for something else |
| Chord ring, `distributed-system/lab-3/work` | successors, predecessor, fingers, bucket of each node | `Notify`, `stabilize`, `fixFingers`, `checkPredecessor`, `Put`/`Get`/`Delete`, replication | nodes join and fail while every node's view of the ring is out of date |
| HTTP servers, `distributed-system/lab-1/server` | connection channel, worker count | accept loop, ten workers, `Stop`, proxy | shutdown races with the accept loop |
| Shell, `operating-system/OS-lab1/code` | background job table, foreground pid | pipelines, `fg` handling, signal handlers | handlers run between any two statements of the main loop |
| Timer, `operating-system/OS-lab2/timer.c` | ticks, list of sleeping threads | `timer_sleep`, `timer_interrupt` | an interrupt between the computation of the time to wake and the insertion in the list |
| Bus scheduler, `operating-system/OS-lab3/batch-scheduler.c` | slots, direction, waiting counts per direction and priority | `get_slot`, `transfer_data`, `release_slot` | signalled threads overtaken before they run again; a semaphore waited for with the mutex held |
| TCP servers and clients, `computer-networking/lab-2`, `lab-3` | one `ConnectionData` per connection, the sets of `select()`; the same in the clients | accept, `process_client_recv`, `process_client_send`, close and erase, the loop of the emulated clients | partial reads and writes, sets older than what was done since, descriptors used again, a client that closes in either state |
| Privacy DSL, `data-privacy/lab2` | spent budget, stability of each dataset | transformations and noisy aggregations | stability composed over chains, budget spent before an error |
| Real-time apps, `realtime-system` | tempo, volume, deadlines | reactive methods over TinyTimber | third-party kernel below |

The remaining parts (course-provided skeletons, test harnesses, generated and
vendored code, plots) are listed as not modelled with the reason in
`PROJECT.json`.  `PROJECT.json` also lists the hazards, each at the line where it
bites and with the properties that would catch it.

## The modules

| Module | What it is | Uses | Checked by | Proofs |
|---|---|---|---|---|
| `Raft` | the peer: elections, replication, snapshots, restarts | | `MCRaft`: `raft_votes`, `raft_log`, `raft_late` | `RaftProofs`, `RaftLogProofs` |
| `RaftApplier` | delivery to the service, in order and without holes | | `applier` | `RaftApplierProofs` |
| `MapReduceJob` | what a job promises | | | |
| `MapReduce` | coordinator and workers on one directory | implements `MapReduceJob` | `mr_crash`, `mr_done` | `MapReduceProofs` |
| `MapReduceFiles` | the same with the files kept by the workers | | `mr_files` | |
| `BatchScheduler` | capacity, direction and priority of the bus | | `bus_duplex`, `bus_stuck` | `BusProofs` |
| `Timer` | the sleeping threads of `timer.c` | | with `BusTimer` | `BusProofs` |
| `BusTimer` | the bus whose transfers sleep | composes `BatchScheduler` and `Timer`, implements `BatchScheduler` | `MCBus`: `bus` | `BusProofs` |
| `Chord` | the ring under joins and failures | | `MCChord`: `chord` | `ChordProofs` |
| `EchoService` | what an echo server promises | | | |
| `Sockets` | connections as the programs see them (external) | | with `EchoServers` | |
| `EchoClients` | the emulated clients | extends `Sockets` | with `EchoServers` | |
| `EchoServers` | both servers with the clients | extends `EchoClients`, implements `EchoService` | `MCEcho`: `echo` | `EchoServersProofs`, `EchoProofs` |

An `MC` module gives constants the values that a `.cfg` cannot write.  Operators whose
comment begins "A mutation" or "Another" say how the definition beside them would
plausibly go wrong; no specification uses them.

## Raft

### The model

`Raft.tla` has one action per critical section of `rf.mu`.  A handler that
changes persistent state persists it in the same action, as the code does before
it releases the lock; `disk` is what the `Persister` holds.  Requests and replies
in flight are records in the set `rpc`.

| Code | Actions |
|---|---|
| `ticker`, `startElection` | `StartElection` |
| `RequestVote` | `HandleRequestVote`, `RefuseStaleTerm` |
| the vote goroutines | `HandleVoteReply`, `IgnoreVoteReply`, `VoteReplyStepDown` |
| `Start` | `Start` |
| `broadcastHeartBeat`, before the RPC | `SendAppendEntries`, `SnapshotNeeded` |
| `AppendEntries` | `AcceptEntries`, `RefuseEntries`, `RefuseStaleTerm` |
| `broadcastHeartBeat`, after the RPC, with `checkCommit` | `HandleAppendSuccess`, `HandleAppendConflict`, `IgnoreAppendReply`, `ReplyStepDown` |
| `Snapshot` | `Snapshot` |
| `sendInstallSnapshot` | `SendInstallSnapshot`; `HandleSnapshotReply`, `IgnoreSnapshotReply`, `ReplyStepDown` |
| `InstallSnapshot` | `HandleInstallSnapshot`, `RefuseStaleTerm` |
| a crash, and `Make` with `readPersist` | `Restart` |

Abstractions, and why they lose nothing the properties see:

- An entry is the term it was created in; its command is the one the leader of
  that term put at that index.  Two entries with the same index and term are the
  same command as long as no term has two leaders, which is itself checked and
  proved.
- `log[i]` is the whole log; `lii[i]` says how much of it the snapshot stands for.
  Handlers read nothing at or below `lii` except the term at `lii` (kept in
  `rf.log[0]`), exactly as the code's physical indexes allow; the case
  "`PrevLogIndex` behind our snapshot" is a guard like the others.
- Time is gone: an election timer that has expired is a choice.  `Standing` says
  into which terms each peer's timer may fire.
- The network loses a message when it is sent.  It delays and reorders without
  limit and does not duplicate, as `labrpc` does.  Two requests in flight with
  equal contents are one element of the set; their handlers have the same effect
  the second time, and the second reply is then a loss.
- `live` on a request tells whether its caller has not crashed since.  A crash
  removes the replies on their way to the crashed peer (`crash1` in `config.go`
  disconnects its end names).
- `InstallSnapshot` saves twice when the request carries a new term.  A crash
  between the two saves leaves (new term, no vote, old log), which is also what a
  peer holds that refused a vote in that term; the model has the single save.
- `getLogTerm` of an index past the log panics.  `SendAppendEntries` has no step
  there; `NextIndexInLog` says a leader is never there, as long as no reply outlives
  its term (see *Findings*).
- A cluster of one peer never elects itself (the majority is tested only when a
  reply arrives); the model says the same.

### Bounds

`Standing`, `Submitting`, `MaxInFlight`, `Links`, `Crashing` and `Compacting` say
what the environment of a run does: which timers fire, which entry clients submit
in which term, how many messages the network holds, who is connected in which
term, who crashes and who takes snapshots.  A run stops where they are
used up, so `CHECK_DEADLOCK` is off.  Three peers are enough for majorities that
meet in one peer; two messages in flight let any message be overtaken by any
other.  `LateReplies` holds the terms whose `AppendEntries` replies may arrive
after the term has ended.  They do only with the delays of `LongReordering`; with
it the code has the fault described under *Findings*, so the passing runs of
replication leave it out and say what holds without it.  The vote runs have it.

`View` (in `MCRaft`) drops variables nothing reads: the votes of a follower and
the follower indexes of a peer that does not lead.

### The runs

| Run | Question | Instance |
|---|---|---|
| `raft_votes` | Can a crash between a vote and its reply, or a reply from an earlier candidacy, elect two leaders, or a restart with a snapshot lose what was committed? `ElectionSafety`, `ElectionInv`, `VoteKept`, `TypeOK`, `CommittedKept` | two peers stand in terms 1 and 2 for the vote of a third, in term 2 only the third hears them; one command; all crash and compact |
| `raft_log` | Do lost, delayed and reordered `AppendEntries` and `InstallSnapshot` keep logs consistent, the leader's indexes inside its log and committed entries in place, in every later leader too, when entries of old terms are replicated late? `LogMatching`, `LeaderCompleteness`, `CommitHasQuorum`, `NextIndexInLog`, `CompactedCommittedHeld`, `CommitMonotonic` | two peers lead in turn over four terms, partitioned differently in each, with up to two commands each in terms 1 and 2; the second compacts |
| `raft_late` | Does `checkCommit` commit only what a majority has, if replies are delayed beyond a term? It does not: `CommitHasQuorum` is violated | five terms of two peers with a third that both reach; they reach each other in term 4 only |

### Findings

`raft_late` finds a leader with a committed entry no other peer has.  The reply
branch of `broadcastHeartBeat` (raft.go:254-281) checks that the peer leads, not
that it leads in `args.Term`.  `s1` leads term 3 and gets an old entry to `s3`,
whose success reply is delayed; `s2` leads term 4 and replaces the entry on `s3`;
`s1` leads again in term 5, appends a new entry at that place, and then counts
the old reply for it.  `sendInstallSnapshot` has the check (raft.go:765).

The same missing check lets the old reply set `nextIndex` past the end of a log that has
been cut in between (raft.go:277); the next `AppendEntries` then makes `getLogTerm` panic.
No run is kept for it, but `NextIndexInLog` fails on the instance of `raft_late` as well.

### Proofs

`RaftProofs` proves, for every finite set of peers and every choice of the bounds:

- `TypeCorrect`: `Spec => []TypeOK`.  The invariant is kept by each action
  separately; the parts are peers, logs, disks and messages (`Typed`).  The log
  lemmas (`OverlayType`, `OverlayLength`, `UnderSnapshotType`) give that a snapshot
  stays within the log.
- `VotesBinding`: `Spec => []ElectionInv`.  `ElectionSafety` is not inductive: a
  vote has to be followed from the voter's disk through the reply in flight to the
  candidate that counts it.  `VotesBind` says a vote binds its voter for the term,
  `VotesUnique` that no two votes of one peer in a term differ, `LeadersElected`
  that leaders counted a majority, `DiskInSync` that a restart forgets none of it.
  All actions but three are covered at once by `NoNewVote`: they cast and count
  nothing (`NoNewVoteKeepsVoteInv`).
- `OneLeaderPerTerm`: `Spec => []ElectionSafety`, from the above and
  `MajoritiesMeet`.
- `VotesKept`: the action property `VoteKept`.

They assume `ServerAssumption` (finitely many peers, none of them the null vote)
and nothing of the bounds.

`RaftLogProofs` proves the log properties that `raft_log` checks.  What makes the logs
right is about the past (who led in which term, with what log, and who held what), and
the peers keep no record of it.  `HistoryInv` says that there is a history that explains
the state; it has three parts, and `HistoryHolds` proves it inductive:

- `led[t]` is the peer elected in term t and `logOf[t]` its log, as it is or as it was
  when it stopped to lead.  `LogInv`: each entry of each log came, with all before it,
  from the leader of its term (`FromLeaders`); each request in flight is a piece of its
  leader's log; a majority backs each elected peer and nobody else in that term
  (`Elected`), so a term is won once (`WonTermIsNew`).  A step either leaves a peer's log
  alone or makes it adopt the log of the leader it follows (`Adopts`, from
  `OverlayAdopts` for `AppendEntries` and `UnderSnapshotAdopts` for `InstallSnapshot`).
- `held` is who held which entry in the term of its creation.  `HeldInv`: what was held
  is still there unless a later leader did not have it (`HeldKept`); a vote is sound, as
  the candidate has what the voter held or an earlier leader did not (`VotesSound`, from
  the log comparison of `RequestVote`: `GrantSound`, `UpToDateHolds`); so each leader has
  what earlier terms may still commit, and what it lacks a majority has left behind for
  good (`LeadersSafe`, `Blocked`).
- `CommitInv`: what a peer takes to be committed a majority held in one term (`Settled`,
  `Chosen`); what messages tell of commitment is so (`CommitKnown`); a leader's
  `nextIndex` is within its log and its `matchIndex` counts entries that were held
  (`LeadersMatch`).

The first two parts, and `LogsMatch` (`Spec => []LogMatching`) from them, hold with
replies as late as they may be.  The third needs `NoLateReplies`, the term check that
`broadcastHeartBeat` does not make and without which `raft_late` shows `CommitHasQuorum`
violated: it is needed in one place, `LeadersMatchGoOn`, where a leader believes a reply.
Under it are proved `LeadersComplete`, `CommitsHaveQuorum`, `NextIndexesInLog`,
`CompactsCommitted`, and the action properties `CommittedStays` and `CommitsRise`; it is
the assumption that `raft_log` makes too.  `raft_votes` checks `CommittedKept` with late
replies, of two terms: with more it is not a theorem, as `raft_late` shows.  The optimistic
`matchIndex` of a new leader (line 409) does no harm: it counts no entry of the new term
(`NewLeaderMatches`), and only those are counted.

Liveness is not stated: the code's progress rests on random timeouts.

## The applier of Raft

`RaftApplier.tla` models the goroutine `applier` (raft.go:957-1032) step by step:
it takes a snapshot or a run of entries under the lock (`TakeSnapshot`,
`TakeEntries`), sends them one at a time with the lock free (`DeliverSnapshot`,
`DeliverEntry`), takes the lock again and moves `lastApplied` (`Delivered`), and
waits when there is nothing (`Wait`).  Between any two of these the peer's
handlers run.  They are reduced to what they do to `commitIndex`,
`lastIncludedIndex`, the log's length and the persisted snapshot: `ChangeLog`,
`Commit`, `InstallSnapshot`, `Snapshot`, `Restart`.  What these may do is what
the runs of `Raft` check of the whole peer (`CommitMonotonic`,
`CompactedCommittedHeld`): entries are replaced only past `commitIndex`, and an
installed snapshot is of committed entries.

- `DeliveryInv`: what was sent, what is being sent and `lastApplied` are in line,
  and nothing uncommitted is sent.  It is inductive, and `DeliveryCorrect` proves
  it for every bound.
- `InOrder`: each message is the next entry or a snapshot past everything the
  service has, which is what `config.go` fails a test for.  `DeliveredInOrder`
  proves it from the invariant.
- `CommittedIsDelivered`: everything committed is applied, unless a restart sets
  the commit index back first.  The run `applier` checks it under weak fairness
  of the applier's own steps: the goroutine loops until the peer is killed, and
  the service reads `applyCh` in a loop of its own.

Bounds: a log of four entries and one restart, enough for a snapshot to overtake
a run of two entries while it is sent, and to be overtaken by a second snapshot.

## MapReduce

### The model

`MapReduce.tla` is the coordinator and the workers of `lab-2/src/mr` on one
directory.

| Code | Actions |
|---|---|
| `GetTask`, entered or woken | `TakeMap`, `TakeReduce`, `WaitForMap`, `WaitForReduce`, `NoMoreTasks` |
| `UpdateTaskStatus`, called at the end of a task | `Report` |
| `Rescheduler`, one round | `RescheduleMaps`, `RescheduleReduces`, `ReschedulerEnds` |
| `Done` and the loop of `main` | `CoordinatorExits` |
| `ExecuteMapTask` | `RenameOutput`, once per partition |
| `ExecuteReduceTask` | `ReadInputs`, `CreateResult`, `WriteResult` |
| a call to a coordinator that has exited | `CallFails` |
| a worker killed, or exiting in the application's function | `Crash` |

`stage[w]` is both where the worker's loop is and, while it asks for a task, where
its handler is in the coordinator; `alive[w]` tells whether there is still a
worker.  A handler that waits for a dead worker takes a task when it is woken, as
in the code, and nobody does it.  A crashed worker is not started again: a worker
that starts later is a worker that has not asked yet.

A file is the set of map tasks whose data it holds.  Every map task is taken to
emit something into every partition, so a missing `mr-m-r` is missing data.  A
result is created and written in place: `by` is who truncated it last, and a
writer that was overtaken adds nothing but what both wrote.

Time: `Overdue(t)` says the limit of ten seconds may have passed, which needs that
no live worker outside `Slow` is at it.  The Rescheduler picks any set of overdue
tasks each round.

### The runs

Three workers, two map and two reduce tasks.  Three are needed for a worker that
does a task again while a second holds the last task.  Besides these sizes only `Slow` and
`Crashing` bound a run: who may be late and who may die.

| Run | Question |
|---|---|
| `mr_crash` | Two workers die anywhere, no live one is slow.  Is every task counted once, every result whole and final when `main` exits (`ImplementsJob`), does the coordinator's count agree with its table (`CountsAgree`), is every completed map task's output there (`MapOutputsHeld`), and does everything end (`JobEnds`)? |
| `mr_done` | What becomes of a job with one slow worker?  It ends too soon. |

`JobEnds` assumes weak fairness of each worker's steps (a process that has not
died runs, and Go's mutex does not starve a handler), of the Rescheduler's rounds,
of its noticing each overdue task, and of `main`'s polling; all are loops on
timers in the code.  One worker never dies.

`MapReduceJob.tla` is what the job promises.  The refinement maps the tasks done to
those with status `completed`, the results to the contents of `mr-out-*` and the
end to the exit of `main`.  That a reported result is not touched again is part of
it, and is what the early exit test of `test-mr.sh` wants.

### Findings

`UpdateTaskStatus` decrements the remaining count for every report.  A task given
out again after the limit is reported twice when its first worker was slow and
not dead.  In the reduce phase `Done` is then true one task early (`mr_done`); in
the map phase the count may pass zero, and `GetTask` and `Rescheduler`, which test
for `!= 0`, would stay in the map phase for ever.

### Proofs

`MapReduceProofs` assumes finitely many tasks, map tasks distinct from reduce tasks
(`WorkerAssumption`); workers may be any number.

- `TypeCorrect`, `CountedOnce`, `MapOutputsThere` hold of every job.  `RenamedHeld`
  is the strengthening of the last: what a worker has renamed is there, so that
  it is when the worker reports.
- With `Slow = {}`: `TimelyCounts` and `TimelyJob`, the refinement.  The invariant
  `TimelyInv` adds to `CountsAgree` that a task in progress has at most one worker
  (`Owned`), that nobody is past the map phase before it is done (`ReducePhase`), and
  that a result being reported is whole (`Results`).  `Owned` is what a slow worker
  breaks, and why the finding needs one.

Termination is model-checked only.

## The bus scheduler

### The model

`BatchScheduler.tla` has one action per critical section of a task: `Arrive`
(`get_slot` to the decision to wait or not), `WakeUp` (the semaphore of the task's
direction and priority lets it through), `Resume` (`wait_to_be_onboard` has the mutex
back), `Board` (`sema_down(&bus_slots)` and the rest of `get_slot`) and `Release`
(`release_slot`, with both directions' turns to wake tasks).  `Arrive` and `Board`
are two actions because `sema_down(&bus_slots)` may block between them, with the
mutex held: then `mutex` names the task and nobody else can act on the bus.

A Pintos semaphore does not hand over to the thread it wakes: a thread that comes
later may decrement it first, and the woken one waits again.  So each semaphore is
its value, and any thread that waits for it may take it.

### Bounds and runs

What makes the bus hard is a full bus with tasks of both directions waiting, and
both priorities in each.  Seven tasks on two slots have that, and so have eight on the
code's capacity of three.  With `Together` no task leaves before all have come, as when
the transfers outlast the creation of the threads.

| Run | Question | Instance |
|---|---|---|
| `bus` | All come first and transfer by sleeping.  Is every task served (`AllServed`), does the bus never owe more slots than it has (`NotOverbooked`), do counters, semaphores and threads agree (`SlotsAccounted`, `WaitersCounted`, `WakeupsReserved`)?  Is the bus with its timer the bus (`TransfersEnd`), and does the timer keep its list in order and wake on time (`SleepersInOrder`, `WokenOnTime`)? | four senders, three receivers, priority in both directions, two slots; transfers of two ticks one way, one the other, and one of none; a thread blocks at most one tick late |
| `bus_duplex` | Is rule 2 of `get_slot` kept?  It is not, even if all come first. | five senders, three receivers, three slots |
| `bus_stuck` | Is every task served if one comes late?  It is not. | four senders, two slots, not `Together` |

`AllServed` assumes weak fairness of each task: the threads have equal priority and
Pintos schedules them in turn.  In `bus` it assumes nothing of the end of a transfer,
which follows from the ticks; in `bus_stuck`, which has no timer, `Release` is fair
because `transfer_data` is a bounded sleep.  A run stops when all tasks are done, so
`CHECK_DEADLOCK` is off.

### Findings

A woken task looks at nothing when it has the mutex again (`bus_duplex`), a task
that comes late may take its slot, and it then waits with the mutex held
(`bus_stuck`).  Priority is asked of one direction at arrival (lines 237-240) and of
both at release: a normal task may board while a priority task of the other
direction waits, which rule 3 of `get_slot` forbids.

### Proofs

`BusProofs` assumes finitely many tasks, each of one direction, and a
capacity of at least one.  `BusInv` is the three counting invariants with the type
invariant, and, with `Together`, `NotOverbooked`.  They are inductive only together:
how many slots `release_slot` reserves follows from the counts it reads
(`TurnType`, `ReleaseLeaves`), and that they are right from every task's place
(`Moves`, `OneMore`).  `NoneReserved` is the strengthening for `TogetherFits`: while
a task may still arrive nothing has been reserved.  Without `Together` that fails
and with it `NotOverbooked`, which is what `bus_stuck` shows.  That every task is
served is model-checked only.

## The timer, and the bus over it

`Timer.tla` is the sleep of OS-lab2, the one `transfer_data` calls.

| Code (`timer.c`) | Actions |
|---|---|
| `timer_sleep`, the computation of `sleep_ticks` | `timer_sleep` |
| `timer_sleep`, interrupts off, `list_insert_ordered`, `thread_block` | `Block`, with `thread_comparison` and `InsertAt` |
| `timer_interrupt` | `timer_interrupt` |
| `timer_sleep` returns | `Return` |

The sleep is two actions because interrupts are on until the list is touched: ticks may
come in between, and the thread may then block when its time has passed.  Times are
counted from the present tick, since the code only compares them; so there is no
counter to bound.  `Lateness` bounds how many ticks may come in between.  Threads with
equal times stay in the order of their insertion, as in the code.

`BusTimer.tla` composes it with the bus: a task that is aboard computes its time and
blocks (`TransferData`), and the step in which its sleep returns is `Release`
(`ReleaseSlot`).  `Tick` is the interrupt.  `TransfersEnd` says that this implements the
bus with everything it assumes, fairness included.

- `SleepersInOrder`: the list holds exactly the blocked threads, once each, the
  earliest first.
- `WokenOnTime`: a tick wakes exactly those that are due, and nothing else wakes any.

`BusProofs` proves both for any threads and any durations (`SleepersAreInOrder`,
`SleepersAreWokenOnTime`) from `TimerInv`, which is the order of the list with the types:
an insertion before the first greater element keeps the list sorted, and what a tick
leaves in a sorted list is not due.  `TimedBusIsTheBus` proves the safety part of
`TransfersEnd`: every step of the composition is a step of the bus or leaves the bus as it
is.  So what is proved of the bus holds over the timer: `TimedBooks` says it of its books,
whenever the tasks come, and `TimedBusFits` of `NotOverbooked`, which needs `Together` here
as it does there: without it `bus_stuck` shows it false.  The fairness in `TransfersEnd`, that
transfers do end, is model-checked only.

Not modelled: sleeps in milli-, micro- and nanoseconds below a tick, the busy waits and
their calibration.

## MapReduce with remote files

`MapReduceFiles.tla` is `lab-2-adv/src/mr`.  A map task's output stays with its worker, a
reduce task fetches it from the address in the coordinator's book and sends its result to
the coordinator.

| Code | Actions |
|---|---|
| `GetTask`, entered or woken | `GivesMap`, `GivesReduce`, `Waits`, `SaysWait`, `NoMoreTasks` |
| `ExecuteMapTask` | `CreateFiles`, `WriteFiles` |
| `FetchData`, one goroutine per address, and its errors | `Fetch`, `GivesUp` |
| the end of `ExecuteReduceTask`, and `UploadWork`, which stores the result, whole or cut short | `PushWork`, `PushFails` |
| `UpdateTaskStatus` | `UpdateTaskStatus` |
| `HealthCheck` | `HealthCheck` |
| `HealthMonitor`, and `ReportFailure`, with `HardReset` and `SoftReset` | `HealthMonitor`, `ReportFailure`, with `Reset` |
| `Rescheduler`, one round | `Rescheduler` |
| `Done` and the loop of `main` | `CoordinatorExits` |
| a call to a coordinator that has exited; a worker killed | `CallFails`, `Crash` |

A worker's address is the worker and `""` is `None`.  The address book is copied when
`GetTask` is entered (`locations`), as in the code, so a handler that has waited gives
out an old one.  The report of a reduce task carries no address, and `UpdateTaskStatus`
enters `""` among the workers the monitor waits for; the module does the same.

Fairness: the worker's loop and its heartbeat, the monitor, the failure reports, the
rescheduler with each overdue task, and the polling of `main`, all loops on timers.

`mr_files` has two workers, of which one may die, two map tasks and one reduce task: the
fewest with a handler that waits for a reduce task while a map task must be done again.
No worker is slow and none is late to answer; nor does an upload fail (`Overloaded` is
empty), so `PushFails` has no part in what the run finds.

### Findings

`mr_files` finds a job that stands still.  `w1` dies with the reduce task.  `HealthMonitor`
has its completed map tasks done again, so `mapRemaining` is not 0; the reduce task stays
in progress, since nobody noted who has it.  `w2` waits in the reduce loop of `GetTask`
(coordinator.go:112-123), which never goes back to the maps, and the `Rescheduler` looks at
reduce tasks only when no map task remains (coordinator.go:209).

Two more things show in the module.  They are not findings of their own, because the late
or double report behind them is the one of `mr_done`.  When the monitor gives up on
address `""` it has every reduce task in progress done a second time.  With a slow worker a
map task may be reported after the `Rescheduler` took its address away: `MapsCounted` and
`ResultsComplete`, which the module states and no run lists, are then false.

The module is model-checked only, by this one run; its properties that hold are those of
the common code, which `mr_crash` checks in `MapReduce`.

## Chord

### The model

`Chord.tla` is the ring of `lab-3/work`: `StartServer`, `stabilize`, `Notify` and
`checkPredecessor`.  A node runs its maintenance in one goroutine (`select` over
three tickers), so a node is in one place of one of them; but each call runs a
handler of another node, and everything may happen between two calls.

| Code | Actions |
|---|---|
| `StartServer` with an address to join | `StartServer` |
| `stabilize`, 275-315: the first of the list that answers | `FindAlive`, `NoneAlive` |
| 317-326: `GetPredecessor` of it | `AskPredecessor` |
| 328: `CallNotify`, with the handler `Notify` | `Notify` |
| 330-335: `GetSuccessorList` of it | `ReadList`, `ReadFails` |
| 336-338: the new list is stored | `WriteList` |
| `checkPredecessor` | `CheckPredecessor`, `PingTimesOut` |
| the process is killed | `Crash` |

A node is its identifier.  The code computes the identifier of every other node by
hashing its address and so does the model of its own; with the flag `-i` the code
would use another for itself than the others do, which is not modelled.  A node
that has crashed refuses calls at once and does not come back.  The loop over the
list is one action: a node found dead stays dead, and only the node's own goroutine
writes its list.  `between` compares as the code does, including a start that is the
end.  A joiner's contact runs when it joins.

### The run

`chord` has four nodes with lists of two, identifiers 1 to 4.  Node 3 joins through
1, node 2 through 3 (it belongs before 3, and 3 only knows 1), node 4 through 2.  Nodes
1 to 3 may crash, each at any step and in any order, and the answer of node 1 to a ping
may be late.

- `Connected`: while at most one node has crashed, those that run do not fall into groups
  that know nothing of each other.  With four nodes that holds after more crashes too, since
  `RingConverges` does; with six it does not (see below).
- `SuccessorImproves`: a first successor that runs gives way only to a node that lies
  before it.
- `RingConverges`: once joins and crashes are over and pings are answered in time, every
  list is the next two nodes, every predecessor the one before, and stays so.
- `TypeOK`: among the rest, a node that runs is never without a successor.

The bound `Backed` limits crashes: no node may lose its last other node, in its list or
in the list it has read and is about to store.  Successor lists promise no more than
that.  The second half matters: a node with a live neighbour in its list can read the
list of a neighbour that then crashes, store it, and know nobody (line 337).  Four nodes
are the fewest that can fall into two rings; three leave a node and a ring, which
`Notify` mends.

`Backed` does not keep a larger ring together when two nodes crash.  Six nodes g, e, z, k, c,
y, clockwise, with lists of two, where g makes the ring: y joins through g, e through y, and
g has `<<e, y>>` and makes no round from then on.  z joins through y and makes a round
before c joins through z and k through c.  k reads `<<c, z>>` and makes no further round; z,
with two more, goes by c to k and has `<<k, c>>`; c goes by z, e and g to y.  Every node has a node that runs in its list without
e and c.  When both crash, g and y are left with each other, z and k too, and nobody knows of the
other two.  No run has six nodes: the states are too many; a check of these steps alone
finds it, and it is why `Connected` speaks of one crash.  `Contacts` is a chain because with free contacts there are too many
states; a joiner may be joined through before it has settled.

Fairness: `WF` of a node's `stabilize`, whose calls return because every node answers
or refuses; `SF` of `CheckPredecessor`, which the goroutine can only do between two
rounds of `stabilize`, because `select` takes each ticker that is due again and again.
`PingsAnswered` is a premise of `RingConverges` and not a fairness assumption: a
predecessor that is slow for ever is forgotten for ever.  A run ends only where the last node
has crashed too, so `CHECK_DEADLOCK` is off.

### Proofs

`ChordProofs` proves its three theorems for any number of nodes and lists of any length,
from `NodeAssumption` alone; of the bounds only `Backed` is used, and only for the first
crash.

- `ChordTypeCorrect` and `SuccessorsImprove`.  The strengthening is `RoundInv`: what a round
  of `stabilize` holds on to (the candidate, then the head of the list it has read) is the
  first successor or lies before it, at each of its places.
- `NodesConnected`: `Spec => []Connected`.  A node *goes for* one node (`Aims`): the candidate
  of its round or else the first of its list that runs.  `Joined` says that this alone connects
  the nodes.  `AimInv` says that a node goes for whoever has it as predecessor.  So when n asks its
  successor s and turns to s's predecessor x, x goes for s, and n is joined to s as before;
  the other steps move nobody, but for a joiner and a node that is left to itself.  No
  step but a crash parts the nodes therefore, however many have crashed (`StepJoins`).

  A crash takes the node that others went for, and they go on to a later entry of their
  lists: that this belongs to the same ring needs to be known of the lists.  `ListsLead`
  says that of two entries in a row the first *leads to* the second: from node to the
  node it goes for, clockwise, without passing the second (`Leads`).  `Leads(a, b)` says this without
  paths, which would need induction: every set that has a and is closed under such steps
  has b.  When c crashes, c's way to the next entry z keeps c's neighbour on the side of those that
  went for c (`FirstCrashJoins`).  `ListsLead` itself is lost with that crash, as an entry may be a
  node that is down, and after a second one the nodes may be parted as shown above.

`RingConverges` is model-checked only.

## The echo servers and their clients

### The model

`EchoServers.tla` runs one of the two servers with the emulated clients of
`client-multi.cpp`; `program` says which.

| Code | Actions |
|---|---|
| `client-multi.cpp`, the loop that connects | `OpenConnection`, `AllOpened` |
| its `select()` | `ClientSelect` |
| one event: `client_process_send`, `client_process_recv` | `ClientSend`, `ClientReceive`, `ClientLost` |
| the program is killed | `Killed` |
| `server-iterative.cpp`: accept, then receive and send until one of them fails | `IterativeAccept`, `IterativeReceive`, `IterativeSend` |
| `server-io-multiplexing.cpp`: `select()` | `Select` |
| one accept per round | `SelectAccept` |
| the loop over the connections | `ServeReceive`, `ServeSend`, `ServeNothing`, `PassEnds` |
| `process_client_recv`, `process_client_send`, close and erase | `ReceiveSome`, `ReceiveFails`, `SendSome`, `SendInVain`, `SendFails`, `Close` |

`Sockets.tla` is what the kernel does between them: a queue of connections to be accepted,
bounded space in each direction, the ends that were closed.  A send or receive moves any
number of bytes that fits, so every partial transfer occurs.  A byte is its place in its
client's message, which tells any two bytes apart.  A descriptor is the lowest number that
is free, so the next connection gets that of the one just closed; the sets of `select()`
hold descriptors, as in the code, and are not filled again before the pass has ended.

Not modelled: the timeout structure of `select()` that is used again, `FD_SETSIZE`, and
`client-simple.cpp`, one client that sends what is typed.  A message is not empty and
there is at least one round: with an empty message a client waits for an answer that
cannot come, and a `numRepeats` of 0 wraps around.

### The run

`echo` has both programs and two clients with messages of four and two bytes, sent twice;
two bytes of space up, one down, a server buffer of two, a queue of one connection, two
descriptors.  The long message fits neither the buffer nor a direction, the short one fits
the buffer and not the space down, and the second client finds the queue full.

- `EchoedInOrder`: each client hears its own message, in order, whatever the pieces; what
  it has said and not heard is on its way.
- `ImplementsService`: the same as a refinement: an echo server is a pipe from each client
  to itself (`EchoService`), until the client leaves.
- `NobodyCutOff`: the server closes no connection of a client that is still there.  It
  takes "would block" for an error, so this rests on
- `ReadyWhenServed`: what the sets say of a connection still holds when its turn comes,
  although the others were served in between.
- `DescriptorsHeld`: the connections are those accepted and not closed, no two on one
  descriptor.
- `ClientsFinish`, `ConnectionsForgotten`: the clients end, and the server closes what they
  leave behind.
- `TypeOK`: among the rest, the buffers never take more than they hold and a client is
  never receiving with its message whole.

Fairness: weak, of the clients' thread, of the server's, and of a handshake for which the
queue has a place.  `SpaceForAMessage` is needed too: the two directions together have
space for a message.  The code always has it, since its messages are 255 bytes at most, less
than any socket buffer; so that a client which sends all before it reads and a blocking
server wait for each other is not among its hazards.
Everything ends, so `CHECK_DEADLOCK` is off.  The branch in which the process has no
descriptor left is in `SelectAccept`, but two descriptors for two clients do not reach it: the
multiplexing server would then go round the loop and serve nobody until a client of the
queue gives up, which its code does not prevent.

### Proofs

`EchoServersProofs` assumes the constants' types and nothing of their size
(`SpaceForAMessage` is not used).  The invariant `IInv` is the types with four kinds of facts:
where a client may be (`ClientSide`), who has no connection yet (`NothingLinked`), that
the events and the sets hold what is ready (`ClientsReady`, `ServerSide`), and that
descriptors and queue stand for different clients.  `NobodyCutOff` and `ReadyWhenServed`
need each other: a client that is served is there because its socket was ready, and the
socket of a connection still to be served stays ready because serving another touches
neither it nor its peer.

- `EchoTypeCorrect`, `DescriptorsAreHeld`, `ServedWhenReady`, `NobodyIsCutOff`.
- `EchoesAreInOrder`, in `EchoProofs`: `Spec => []EchoedInOrder`, for any clients, sizes
  and messages and for both servers.  The invariant is `Balanced`: what a live client has
  heard, what is on its way down, in the server and up, and what it has still to say, put
  one after the other, are its message.  Each step moves a piece from one of the five to
  its neighbour, or belongs to a client that has left.  `OpenWhileAlive` is what it needs
  of the ends of the connection.

- `ServersAreEchoService`: `Spec => ImplementsService`.  By `Balanced`, the pipe of a live
  client is its message without what was heard in front and what is still to say behind
  (`Ways`).  A step of a server or of the network changes neither, so it leaves the pipe as
  it is; a send adds a piece (`Says`), a receive takes the front off (`Hears`), and a client
  that ends leaves the service.

`ClientsFinish` and `ConnectionsForgotten` are model-checked only.

## Not modelled

- Shell `lsh`.  Its `SIGCHLD` handler waits for any child and edits the job table while
  the main loop may be editing it; the test at lsh.c:192 lets one entry past the end of the
  table be written; the foreground pid is not reset.  What follows depends on the layout
  of memory and on which signals the kernel merges: a model would be of the handler's
  possible corruptions and not of the program.  The hazard is in `PROJECT.json`.
- HTTP servers and proxy.  A request is handled by one worker and seen by no other; what
  is shared is a channel and a counter under a mutex.  The accept loop may hold a
  connection when `Stop` closes the channel it is about to send it on
  (http-main-core.go:77); `Stop` runs as the process ends.
- Chord's finger table, lookups and stored keys.  `fixFingers` writes the fingers and only
  lookups read them; the ring does not depend on either.  `replicateToSuccessors` is listed
  as a hazard.
- The bus: rule 3 of `get_slot`, which the code does not keep (see above), has no run.
- MapReduce: the result of `os.Rename` (worker.go:176) is dropped; the model's renames
  succeed.
- Privacy DSL.  Its state is one number, the budget used, and everything runs in one
  thread; what its measurements promise is about real-valued noise.  `partition` gives the
  budget back while each computation runs (dp_dsl.py:233-244): an exception there leaves
  the refund, and what a computation spends beyond it is forgotten.  This is listed as a
  hazard.  The reconstruction exercise has no state.
- Real-time applications: TinyTimber, which is third-party, serialises the methods of an
  object; what is left is arithmetic and register writes.
- Course-provided parts (test harnesses, `labrpc`, `labgob`, skeletons of the key/value
  and shard servers, the shell's parser), generated code, vendor libraries, plots.

Liveness stays with TLC everywhere: `CommittedIsDelivered`, `JobEnds`, `AllServed`,
`RingConverges`, `ClientsFinish`, `ConnectionsForgotten`, and the fairness in
`TransfersEnd`.
