------------------------- MODULE RaftApplierProofs -------------------------
(* The applier delivers in order, for a log of any length. *)
EXTENDS RaftApplier, TLAPS

\* What the applier holds, with the fields written out.
DoingType == [kind : {"nothing", "snapshot", "entries"}, next : Nat, last : Nat, data : Nat]

LEMMA DoingFields ==
    /\ Nothing \in DoingType /\ Nothing.kind = "nothing" /\ Nothing.last = 0
    /\ \A d \in DoingType :
          /\ d.next \in Nat /\ d.last \in Nat /\ d.data \in Nat
BY DEF Nothing, DoingType

\* DeliveryInv is inductive: each step of the applier keeps lastApplied, what is
\* being sent and what the service has in line, and no handler disturbs them.
LEMMA DeliveryStep ==
    ASSUME DeliveryInv, [Next]_vars
    PROVE  DeliveryInv'
<1> USE BoundAssumption, DoingFields DEF raftVars
<1>1. CASE Wait
    BY <1>1 DEF Wait, DeliveryInv, TypeOK, AppliedIsCommitted, SnapshotMatchesIndex, NothingSkipped
<1>2. CASE TakeSnapshot
    BY <1>2 DEF TakeSnapshot, BehindSnapshot, DoingType, DeliveryInv, TypeOK,
                AppliedIsCommitted, SnapshotMatchesIndex, NothingSkipped
<1>3. CASE TakeEntries
  <2>1. lastApplied = applied /\ FirstIndex = lastApplied + 1
      BY <1>3 DEF TakeEntries, BehindSnapshot, FirstIndex, Greater, DeliveryInv, TypeOK, NothingSkipped
  <2>2. lastApplied < commitIndex
      BY <1>3 DEF TakeEntries, BehindSnapshot, Caught, DeliveryInv, TypeOK
  <2> QED
      BY <1>3, <2>1, <2>2 DEF TakeEntries, DoingType, DeliveryInv, TypeOK,
         AppliedIsCommitted, SnapshotMatchesIndex, NothingSkipped
<1>4. CASE DeliverEntry
  <2> USE <1>4 DEF DeliverEntry
  <2>1. TypeOK'
      BY DEF DeliveryInv, TypeOK, DoingType
  <2>2. AppliedIsCommitted' /\ (doing.last <= commitIndex /\ lii <= MaxIndex /\ lastLog <= MaxIndex)'
      BY DEF DeliveryInv, TypeOK, AppliedIsCommitted, NothingSkipped, SnapshotMatchesIndex, DoingType
  <2>3. SnapshotMatchesIndex' /\ NothingSkipped'
      BY DEF DeliveryInv, TypeOK, AppliedIsCommitted, NothingSkipped, SnapshotMatchesIndex, DoingType
  <2> QED
      BY <2>1, <2>2, <2>3 DEF DeliveryInv
<1>5. CASE DeliverSnapshot
  <2> USE <1>5 DEF DeliverSnapshot
  <2>1. TypeOK'
      BY DEF DeliveryInv, TypeOK, DoingType
  <2>2. AppliedIsCommitted' /\ (doing.last <= commitIndex /\ lii <= MaxIndex /\ lastLog <= MaxIndex)'
      BY DEF DeliveryInv, TypeOK, AppliedIsCommitted, NothingSkipped, SnapshotMatchesIndex, DoingType
  <2>3. SnapshotMatchesIndex' /\ NothingSkipped'
      BY DEF DeliveryInv, TypeOK, AppliedIsCommitted, NothingSkipped, SnapshotMatchesIndex, DoingType
  <2> QED
      BY <2>1, <2>2, <2>3 DEF DeliveryInv
<1>6. CASE Delivered
  <2>1. applied = doing.last /\ lastApplied' = doing.last /\ doing' = Nothing
      BY <1>6 DEF Delivered, Greater, DeliveryInv, TypeOK, NothingSkipped, DoingType
  <2> QED
      BY <1>6, <2>1 DEF Delivered, DeliveryInv, TypeOK, AppliedIsCommitted,
         SnapshotMatchesIndex, NothingSkipped, DoingType
<1>7. ASSUME NEW k \in 0 .. MaxIndex, ChangeLog(k) PROVE DeliveryInv'
  <2> USE <1>7 DEF ChangeLog
  <2>1. TypeOK'
      BY DEF DeliveryInv, TypeOK, DoingType
  <2>2. AppliedIsCommitted' /\ (doing.last <= commitIndex /\ lii <= MaxIndex /\ lastLog <= MaxIndex)'
      BY DEF DeliveryInv, TypeOK, AppliedIsCommitted, NothingSkipped, SnapshotMatchesIndex, DoingType
  <2>3. SnapshotMatchesIndex' /\ NothingSkipped'
      BY DEF DeliveryInv, TypeOK, AppliedIsCommitted, NothingSkipped, SnapshotMatchesIndex, DoingType
  <2> QED
      BY <2>1, <2>2, <2>3 DEF DeliveryInv
<1>8. ASSUME NEW k \in 0 .. MaxIndex, Commit(k) PROVE DeliveryInv'
  <2> USE <1>8 DEF Commit, Broadcast
  <2>1. TypeOK'
      BY DEF DeliveryInv, TypeOK, DoingType
  <2>2. AppliedIsCommitted' /\ (doing.last <= commitIndex /\ lii <= MaxIndex /\ lastLog <= MaxIndex)'
      BY DEF DeliveryInv, TypeOK, AppliedIsCommitted, NothingSkipped, SnapshotMatchesIndex, DoingType
  <2>3. SnapshotMatchesIndex' /\ NothingSkipped'
      BY DEF DeliveryInv, TypeOK, AppliedIsCommitted, NothingSkipped, SnapshotMatchesIndex, DoingType
  <2> QED
      BY <2>1, <2>2, <2>3 DEF DeliveryInv
<1>9. ASSUME NEW k \in 0 .. MaxIndex, InstallSnapshot(k) PROVE DeliveryInv'
  <2> USE <1>9 DEF InstallSnapshot, Broadcast, Greater
  <2>1. TypeOK'
      BY DEF DeliveryInv, TypeOK, DoingType
  <2>2. AppliedIsCommitted' /\ (doing.last <= commitIndex /\ lii <= MaxIndex /\ lastLog <= MaxIndex)'
      BY DEF DeliveryInv, TypeOK, AppliedIsCommitted, NothingSkipped, SnapshotMatchesIndex, DoingType
  <2>3. SnapshotMatchesIndex' /\ NothingSkipped'
      BY DEF DeliveryInv, TypeOK, AppliedIsCommitted, NothingSkipped, SnapshotMatchesIndex, DoingType
  <2> QED
      BY <2>1, <2>2, <2>3 DEF DeliveryInv
<1>10. CASE Snapshot
  <2> USE <1>10 DEF Snapshot, Lesser
  <2>1. TypeOK'
      BY DEF DeliveryInv, TypeOK, DoingType
  <2>2. AppliedIsCommitted' /\ (doing.last <= commitIndex /\ lii <= MaxIndex /\ lastLog <= MaxIndex)'
      BY DEF DeliveryInv, TypeOK, AppliedIsCommitted, NothingSkipped, SnapshotMatchesIndex, DoingType
  <2>3. SnapshotMatchesIndex' /\ NothingSkipped'
      BY DEF DeliveryInv, TypeOK, AppliedIsCommitted, NothingSkipped, SnapshotMatchesIndex, DoingType
  <2> QED
      BY <2>1, <2>2, <2>3 DEF DeliveryInv
<1>11. CASE Restart
  <2> USE <1>11 DEF Restart
  <2>1. TypeOK'
      BY DEF DeliveryInv, TypeOK, DoingType
  <2>2. AppliedIsCommitted' /\ (doing.last <= commitIndex /\ lii <= MaxIndex /\ lastLog <= MaxIndex)'
      BY DEF DeliveryInv, TypeOK, AppliedIsCommitted, NothingSkipped, SnapshotMatchesIndex, DoingType
  <2>3. SnapshotMatchesIndex' /\ NothingSkipped'
      BY DEF DeliveryInv, TypeOK, AppliedIsCommitted, NothingSkipped, SnapshotMatchesIndex, DoingType
  <2> QED
      BY <2>1, <2>2, <2>3 DEF DeliveryInv
<1>12. CASE UNCHANGED vars
    BY <1>12 DEF vars, DeliveryInv, TypeOK, AppliedIsCommitted, SnapshotMatchesIndex, NothingSkipped
<1> QED
    BY <1>1, <1>2, <1>3, <1>4, <1>5, <1>6, <1>7, <1>8, <1>9, <1>10, <1>11, <1>12
    DEF Next, Applier, Peer

\* The service, lastApplied and what is being sent stay in line, and nothing is
\* applied that is not committed.
THEOREM DeliveryCorrect == Spec => []DeliveryInv
<1>1. Init => DeliveryInv
  <2> SUFFICES ASSUME Init PROVE DeliveryInv
      OBVIOUS
  <2>1. TypeOK BY DoingFields DEF Init, TypeOK, DoingType
  <2>2. AppliedIsCommitted BY DEF Init, AppliedIsCommitted
  <2>3. SnapshotMatchesIndex BY DoingFields DEF Init, SnapshotMatchesIndex
  <2>4. NothingSkipped BY DoingFields DEF Init, NothingSkipped
  <2>5. doing.last <= commitIndex /\ lii <= MaxIndex /\ lastLog <= MaxIndex
    BY BoundAssumption, DoingFields DEF Init
  <2> QED BY <2>1, <2>2, <2>3, <2>4, <2>5 DEF DeliveryInv
<1> QED
    BY <1>1, DeliveryStep, PTL DEF Spec

\* The service gets entry after entry, or a snapshot past all it has.
THEOREM DeliveredInOrder == Spec => InOrder
<1> DEFINE Ordered == \/ applied' = applied
                      \/ DeliverEntry /\ applied' = applied + 1
                      \/ DeliverSnapshot /\ applied' > applied
                      \/ Restart
<1>1. DeliveryInv /\ [Next]_vars => [Ordered]_vars
  <2> SUFFICES ASSUME DeliveryInv, [Next]_vars PROVE Ordered \/ UNCHANGED vars
      OBVIOUS
  <2>1. CASE DeliverEntry
      BY <2>1 DEF DeliverEntry, DeliveryInv, NothingSkipped
  <2>2. CASE DeliverSnapshot
      BY <2>2 DEF DeliverSnapshot, DeliveryInv, TypeOK, NothingSkipped, SnapshotMatchesIndex
  <2>3. CASE Wait \/ TakeSnapshot \/ TakeEntries \/ Delivered
      BY <2>3 DEF Wait, TakeSnapshot, TakeEntries, Delivered
  <2>4. CASE Peer
      BY <2>4 DEF Peer, ChangeLog, Commit, InstallSnapshot, Snapshot
  <2>5. CASE UNCHANGED vars
      BY <2>5
  <2> QED
      BY <2>1, <2>2, <2>3, <2>4, <2>5 DEF Next, Applier
<1>2. InOrder <=> [][Ordered]_vars
    BY DEF InOrder
<1> QED
    BY <1>1, <1>2, DeliveryCorrect, PTL DEF Spec

=============================================================================
