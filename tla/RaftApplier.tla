---------------------------- MODULE RaftApplier ----------------------------
(***************************************************************************)
(* The applier goroutine of a Raft peer, which hands committed entries and  *)
(* snapshots to the service through applyCh with rf.mu released, against    *)
(* the handlers that commit, install snapshots and compact meanwhile.       *)
(*                                                                          *)
(* The handlers are reduced to what they do to the fields the applier       *)
(* reads; what they may do is what module Raft checks: commitIndex does not *)
(* go back, and the log holds what is committed.                            *)
(***************************************************************************)
EXTENDS Integers

CONSTANTS
    MaxIndex,       \* bound: the log grows to this index
    MaxCrashes      \* bound: the peer crashes this often

ASSUME BoundAssumption == MaxIndex \in Nat /\ MaxCrashes \in Nat

VARIABLES
    commitIndex, lii,   \* rf.commitIndex, rf.lastIncludedIndex
    lastLog,            \* getLastLogIndex()
    snapshot,           \* the index of the snapshot the Persister holds
    lastApplied,        \* rf.lastApplied
    thread,             \* whether the applier is in applyCond.Wait
    doing,              \* what the applier took under the lock and is sending
    applied,            \* the last index the service has
    crashes

raftVars == <<commitIndex, lii, lastLog, snapshot>>
vars == <<raftVars, lastApplied, thread, doing, applied, crashes>>

Nothing == [kind |-> "nothing", next |-> 0, last |-> 0, data |-> 0]

Greater(a, b) == IF a >= b THEN a ELSE b
Lesser(a, b)  == IF a <= b THEN a ELSE b

Init ==
    /\ commitIndex = 0 /\ lii = 0 /\ lastLog = 0 /\ snapshot = 0
    /\ lastApplied = 0 /\ applied = 0
    /\ thread = "running"
    /\ doing = Nothing
    /\ crashes = 0

----------------------------------------------------------------------------
(* The applier *)

Caught == lastApplied >= commitIndex /\ lastApplied >= lii

\* Nothing to deliver: wait on applyCond.
Wait ==
    /\ doing = Nothing /\ thread = "running"
    /\ Caught
    /\ thread' = "waiting"
    /\ UNCHANGED <<raftVars, lastApplied, doing, applied, crashes>>

\* A mutation of the next test: the snapshot is never handed over.
NeverBehind == FALSE

\* The entries after lastApplied are compacted.
BehindSnapshot == lastApplied < lii

\* The service needs the snapshot: take it under the lock.
TakeSnapshot ==
    /\ doing = Nothing /\ thread = "running"
    /\ BehindSnapshot
    /\ doing' = [kind |-> "snapshot", next |-> lii, last |-> lii, data |-> snapshot]
    /\ UNCHANGED <<raftVars, lastApplied, thread, applied, crashes>>

\* A mutation of the batch: it starts at the entry applied last.
FirstIndexAgain == Greater(lastApplied, 1)

\* The first entry to deliver, past what is compacted.
FirstIndex == Greater(lastApplied + 1, lii + 1)

\* rf.log[start:end] of the entries to deliver; none if it is not all there.
TakeEntries ==
    /\ doing = Nothing /\ thread = "running"
    /\ ~Caught /\ ~BehindSnapshot
    /\ LET some == FirstIndex <= lastLog /\ commitIndex <= lastLog
       IN  doing' = [kind |-> "entries", last |-> commitIndex, data |-> 0,
                     next |-> IF some THEN FirstIndex ELSE commitIndex + 1]
    /\ UNCHANGED <<raftVars, lastApplied, thread, applied, crashes>>

\* applyCh <- msg, received by the service, the lock being free.
DeliverEntry ==
    /\ doing.kind = "entries"
    /\ doing.next <= doing.last
    /\ applied' = doing.next
    /\ doing' = [doing EXCEPT !.next = @ + 1]
    /\ UNCHANGED <<raftVars, lastApplied, thread, crashes>>

DeliverSnapshot ==
    /\ doing.kind = "snapshot"
    /\ doing.next = doing.last
    /\ applied' = doing.data
    /\ doing' = [doing EXCEPT !.next = @ + 1]
    /\ UNCHANGED <<raftVars, lastApplied, thread, crashes>>

\* The lock is taken again and lastApplied moves to what was taken.
Delivered ==
    /\ doing.kind # "nothing"
    /\ doing.next > doing.last
    /\ lastApplied' = Greater(lastApplied, doing.last)
    /\ doing' = Nothing
    /\ UNCHANGED <<raftVars, thread, applied, crashes>>

Applier ==
    \/ Wait \/ TakeSnapshot \/ TakeEntries
    \/ DeliverEntry \/ DeliverSnapshot \/ Delivered

----------------------------------------------------------------------------
(* The rest of the peer *)

\* A mutation of the wake-up: it is not sent.
NoBroadcast == UNCHANGED thread

\* rf.applyCond.Broadcast().
Broadcast == thread' = "running"

\* Start, or AppendEntries: entries are appended, or replaced from past the
\* committed ones on.
ChangeLog(k) ==
    /\ k \in commitIndex .. MaxIndex
    /\ k # lastLog
    /\ lastLog' = k
    /\ UNCHANGED <<commitIndex, lii, snapshot, lastApplied, thread, doing, applied, crashes>>

\* checkCommit, or the end of AppendEntries.
Commit(k) ==
    /\ k \in commitIndex + 1 .. lastLog
    /\ commitIndex' = k
    /\ Broadcast
    /\ UNCHANGED <<lii, lastLog, snapshot, lastApplied, doing, applied, crashes>>

\* InstallSnapshot of index k; an uncommitted log may have another entry there.
InstallSnapshot(k) ==
    /\ k \in lii + 1 .. MaxIndex
    /\ lii' = k
    /\ snapshot' = k
    /\ commitIndex' = Greater(commitIndex, k)
    /\ \/ k <= lastLog /\ UNCHANGED lastLog
       \/ k > commitIndex /\ lastLog' = k
    /\ Broadcast
    /\ UNCHANGED <<lastApplied, doing, applied, crashes>>

\* The service calls Snapshot with the index it applied last; InstallSnapshot
\* may have overtaken it.
Snapshot ==
    /\ applied > lii
    /\ lii' = Lesser(applied, lastLog)
    /\ snapshot' = applied
    /\ UNCHANGED <<commitIndex, lastLog, lastApplied, thread, doing, applied, crashes>>

\* A crash, then Make over the same Persister; the service starts from the
\* persisted snapshot, and the persisted log is all there.
Restart ==
    /\ crashes < MaxCrashes
    /\ crashes' = crashes + 1
    /\ lastApplied' = lii
    /\ commitIndex' = lii
    /\ applied' = snapshot
    /\ thread' = "running"
    /\ doing' = Nothing
    /\ UNCHANGED <<lii, lastLog, snapshot>>

Peer ==
    \/ \E k \in 0 .. MaxIndex : ChangeLog(k) \/ Commit(k) \/ InstallSnapshot(k)
    \/ Snapshot
    \/ Restart

Next == Applier \/ Peer

\* The applier goroutine runs, and the service keeps reading applyCh.
Spec == Init /\ [][Next]_vars /\ WF_vars(Applier)

----------------------------------------------------------------------------
TypeOK ==
    /\ commitIndex \in Nat /\ lii \in Nat /\ lastLog \in Nat /\ snapshot \in Nat
    /\ lastApplied \in Nat /\ applied \in Nat
    /\ thread \in {"running", "waiting"}
    /\ doing \in [kind : {"nothing", "snapshot", "entries"}, next : Nat, last : Nat, data : Nat]
    /\ crashes \in Nat

\* The service is never ahead of what is committed, and the fields the handlers
\* move stay in order: the snapshot within the committed, that within the log.
AppliedIsCommitted ==
    /\ applied <= commitIndex
    /\ lii <= commitIndex /\ commitIndex <= lastLog

\* The snapshot handed over is the one its SnapshotIndex names ("snapshot
\* doesn't match m.SnapshotIndex", config.go).
SnapshotMatchesIndex ==
    /\ snapshot = lii
    /\ doing.kind = "snapshot" => doing.data = doing.last

\* What lastApplied counts as delivered the service has: nothing is skipped, and
\* what is being sent continues where the service is.
NothingSkipped ==
    /\ doing = Nothing => lastApplied = applied
    /\ doing.kind = "entries" =>
          /\ lastApplied <= applied /\ applied <= doing.last
          /\ doing.next = applied + 1
    /\ doing.kind = "snapshot" =>
          /\ lastApplied < doing.last
          /\ IF doing.next > doing.last THEN applied = doing.last ELSE applied < doing.last

\* The inductive invariant of the delivery.
DeliveryInv ==
    TypeOK /\ AppliedIsCommitted /\ SnapshotMatchesIndex /\ NothingSkipped
    /\ doing.last <= commitIndex /\ lii <= MaxIndex /\ lastLog <= MaxIndex

\* The service gets entry after entry with no hole and none twice, or a
\* snapshot past all of them ("apply out of order, expected index", config.go),
\* whatever is committed, installed or compacted while it is sent.
InOrder ==
    [][\/ applied' = applied
       \/ DeliverEntry /\ applied' = applied + 1
       \/ DeliverSnapshot /\ applied' > applied
       \/ Restart]_vars

\* Whatever is committed reaches the service, unless the peer restarts before:
\* no wake-up is lost while the applier sends with the lock released.
CommittedIsDelivered ==
    \A k \in 1 .. MaxIndex : commitIndex >= k ~> (applied >= k \/ commitIndex < k)

=============================================================================
