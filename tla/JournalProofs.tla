---------------------------- MODULE JournalProofs ----------------------------
(***************************************************************************)
(* Theorems about Journal and about the checkpoint sink that appends to    *)
(* it, for every number of epochs, events, segment sizes, processes,       *)
(* reports and I/O faults.                                                 *)
(*                                                                         *)
(* JournalInv is the inductive invariant.  Its five parts are shown to be  *)
(* preserved in the order they rely on each other: types, what the writer  *)
(* has in hand, the frontier of the current epoch, the debts, and at last  *)
(* that every critical event is durable or owed.  SegmentsInv builds on it *)
(* what readers of the segments rely on, and Exclusive what a reducer that *)
(* asks after the writer's epoch (EpochProbe) relies on.                   *)
(*                                                                         *)
(* CheckpointInv is that of the checkpoint sink (Checkpoint).              *)
(***************************************************************************)
EXTENDS EpochProbe, Checkpoint, FiniteSetTheorems, SequenceTheorems, TLAPS

-----------------------------------------------------------------------------
(* Types *)

\* Zero is within every bound.
LEMMA ZeroInBounds == 0 \in Epoch /\ 0 \in SeqNo /\ 0 \in 0 .. MaxFaults
  BY BoundsAssumption DEF BoundsAssumption, Epoch, SeqNo

\* Injecting a fault keeps their number within MaxFaults.
LEMMA FaultBounded ==
    ASSUME faults \in 0 .. MaxFaults, Fault
    PROVE  faults' \in 0 .. MaxFaults
  BY BoundsAssumption DEF BoundsAssumption, Fault

\* Opening a segment keeps the file system well typed.
LEMMA OpenTypes ==
    ASSUME TypeOK, OpenSegment
    PROVE  /\ seg' = <<epoch, nextSeq>> /\ seg' \in Segment
           /\ snap' = NoSegment
           /\ currentCritical' = FALSE /\ rotationPending' = FALSE
           /\ DiskTypeOK'
  <1> DEFINE s == <<epoch, nextSeq>>
  <1>1. s \in Segment
    BY DEF TypeOK, WriterTypeOK, Segment
  <1>2. /\ where' = [where EXCEPT ![s] = "active"]
        /\ maybe' = [maybe EXCEPT ![s] = @ \union {"active"}]
        /\ lines' = [lines EXCEPT ![s] = 0]
        /\ torn' = [torn EXCEPT ![s] = FALSE]
        /\ synced' = [synced EXCEPT ![s] = 0]
        /\ seg' = s /\ snap' = NoSegment
        /\ currentCritical' = FALSE /\ rotationPending' = FALSE
    BY DEF OpenSegment
  <1> HIDE DEF s
  <1>3. DiskTypeOK'
    <2>1. "active" \in Place
      BY DEF Place
    <2>2. where' \in [Segment -> Place]
      BY <1>1, <1>2, <2>1 DEF TypeOK, DiskTypeOK
    <2>3. maybe' \in [Segment -> SUBSET Place]
      BY <1>1, <1>2, <2>1 DEF TypeOK, DiskTypeOK
    <2>4. lines' \in [Segment -> SeqNo] /\ synced' \in [Segment -> SeqNo]
      BY <1>1, <1>2, ZeroInBounds DEF TypeOK, DiskTypeOK
    <2>5. torn' \in [Segment -> BOOLEAN]
      BY <1>1, <1>2 DEF TypeOK, DiskTypeOK
    <2> QED  BY <2>2, <2>3, <2>4, <2>5 DEF DiskTypeOK
  <1> QED  BY <1>1, <1>2, <1>3 DEF s

\* seg is a segment or NoSegment.
LEMMA SegIsSegment ==
    ASSUME TypeOK, InHand, seg # NoSegment
    PROVE  seg \in Segment
  BY DEF TypeOK, WriterTypeOK

\* A recorded debt is on a segment: currentCritical is never set without one.
LEMMA DebtTypes ==
    ASSUME TypeOK, InHand, NEW renamed \in BOOLEAN, RecordDebt(renamed)
    PROVE  /\ debts' \subseteq Debt
           /\ currentCritical' \in BOOLEAN /\ criticalPending' \in BOOLEAN
  <1>1. currentCritical => seg \in Segment
    BY DEF InHand
  <1>2. currentCritical => [segment |-> seg, renamed |-> renamed] \in Debt
    BY <1>1 DEF Debt
  <1>3. debts' \subseteq Debt
    BY <1>2 DEF RecordDebt, TypeOK, UrgencyTypeOK
  <1> QED  BY <1>3 DEF RecordDebt

\* The directory fsyncs map places to places.
LEMMA DirectoriesTypes ==
    ASSUME NEW m \in [Segment -> SUBSET Place], NEW w \in [Segment -> Place]
    PROVE  /\ ActiveDirSynced(m, w) \in [Segment -> SUBSET Place]
           /\ ClosedDirSynced(m, w) \in [Segment -> SUBSET Place]
  BY DEF ActiveDirSynced, ClosedDirSynced, Place

\* An action that leaves a group of variables alone keeps its types.
LEMMA UnchangedTypes ==
    /\ ControlTypeOK /\ UNCHANGED control => ControlTypeOK'
    /\ WriterTypeOK /\ UNCHANGED writer => WriterTypeOK'
    /\ UrgencyTypeOK /\ UNCHANGED urgency => UrgencyTypeOK'
    /\ SupervisionTypeOK /\ UNCHANGED supervision => SupervisionTypeOK'
    /\ DiskTypeOK /\ UNCHANGED disk => DiskTypeOK'
    /\ ObservedTypeOK /\ UNCHANGED <<observed, faults>> => ObservedTypeOK'
  <1>1. ControlTypeOK /\ UNCHANGED control => ControlTypeOK'
    BY DEF ControlTypeOK, control
  <1>2. WriterTypeOK /\ UNCHANGED writer => WriterTypeOK'
    BY DEF WriterTypeOK, writer
  <1>3. UrgencyTypeOK /\ UNCHANGED urgency => UrgencyTypeOK'
    BY DEF UrgencyTypeOK, urgency
  <1>4. SupervisionTypeOK /\ UNCHANGED supervision => SupervisionTypeOK'
    BY DEF SupervisionTypeOK, supervision
  <1>5. DiskTypeOK /\ UNCHANGED disk => DiskTypeOK'
    BY DEF DiskTypeOK, disk
  <1>6. ObservedTypeOK /\ UNCHANGED <<observed, faults>> => ObservedTypeOK'
    BY DEF ObservedTypeOK, observed
  <1> QED  BY <1>1, <1>2, <1>3, <1>4, <1>5, <1>6

\* The epoch that follows one below MaxEpoch is an epoch.
LEMMA NextEpoch == ASSUME epoch \in Epoch, epoch < MaxEpoch PROVE epoch + 1 \in Epoch
  BY BoundsAssumption DEF BoundsAssumption, Epoch

\* AppendTooLarge preserves the types.
LEMMA AppendTooLargeTypes == ASSUME TypeOK, InHand, AppendTooLarge PROVE TypeOK'
  <1>1. WriterTypeOK' /\ UrgencyTypeOK' /\ SupervisionTypeOK' /\ DiskTypeOK' /\ ObservedTypeOK'
    BY UnchangedTypes
    DEF TypeOK, AppendTooLarge, writer, urgency, supervision, disk, observed
  <1>2. ControlTypeOK'
    BY DEF TypeOK, ControlTypeOK, AppendTooLarge, control
  <1> QED  BY <1>1, <1>2 DEF TypeOK

\* AppendShort preserves the types.
LEMMA AppendShortTypes == ASSUME TypeOK, InHand, AppendShort PROVE TypeOK'
  <1>1. SupervisionTypeOK'
    BY UnchangedTypes DEF TypeOK, AppendShort, supervision
  <1>2. ControlTypeOK'
    BY DEF TypeOK, ControlTypeOK, AppendShort, control
  <1>3. WriterTypeOK'
    BY ZeroInBounds, NextEpoch
    DEF TypeOK, WriterTypeOK, AppendShort, writer, AbandonSegment, DropHandles,
       NextProducer
  <1>4. UrgencyTypeOK'
    BY DebtTypes
    DEF TypeOK, UrgencyTypeOK, AppendShort, urgency, AbandonSegment, DropHandles
  <1>5. DiskTypeOK'
    BY DEF TypeOK, DiskTypeOK, AppendShort, disk
  <1>6. ObservedTypeOK'
    BY FaultBounded DEF TypeOK, ObservedTypeOK, AppendShort, observed
  <1> QED  BY <1>1, <1>2, <1>3, <1>4, <1>5, <1>6 DEF TypeOK

\* FlusherLoop preserves the types.
LEMMA FlusherLoopTypes == ASSUME TypeOK, InHand, FlusherLoop PROVE TypeOK'
  <1>1. ControlTypeOK' /\ WriterTypeOK' /\ UrgencyTypeOK' /\ DiskTypeOK' /\ ObservedTypeOK'
    BY UnchangedTypes
    DEF TypeOK, FlusherLoop, control, writer, urgency, disk, observed
  <1>2. SupervisionTypeOK'
    BY DEF TypeOK, SupervisionTypeOK, FlusherLoop, supervision
  <1> QED  BY <1>1, <1>2 DEF TypeOK

\* FlusherWake preserves the types.
LEMMA FlusherWakeTypes == ASSUME TypeOK, InHand, FlusherWake PROVE TypeOK'
  <1>1. ControlTypeOK' /\ WriterTypeOK' /\ DiskTypeOK' /\ ObservedTypeOK'
    BY UnchangedTypes DEF TypeOK, FlusherWake, control, writer, disk, observed
  <1>2. UrgencyTypeOK'
    BY DEF TypeOK, UrgencyTypeOK, FlusherWake, urgency
  <1>3. SupervisionTypeOK'
    BY DEF TypeOK, SupervisionTypeOK, FlusherWake, supervision
  <1> QED  BY <1>1, <1>2, <1>3 DEF TypeOK

\* Stop preserves the types.
LEMMA StopTypes == ASSUME TypeOK, InHand, Stop PROVE TypeOK'
  <1>1. WriterTypeOK' /\ DiskTypeOK' /\ ObservedTypeOK'
    BY UnchangedTypes DEF TypeOK, Stop, writer, disk, observed
  <1>2. ControlTypeOK'
    BY DEF TypeOK, ControlTypeOK, Stop, control
  <1>3. UrgencyTypeOK'
    BY DEF TypeOK, UrgencyTypeOK, Stop, urgency
  <1>4. SupervisionTypeOK'
    BY DEF TypeOK, SupervisionTypeOK, Stop, supervision
  <1> QED  BY <1>1, <1>2, <1>3, <1>4 DEF TypeOK

\* CloseBegin preserves the types.
LEMMA CloseBeginTypes == ASSUME TypeOK, InHand, CloseBegin PROVE TypeOK'
  <1>1. WriterTypeOK' /\ UrgencyTypeOK' /\ SupervisionTypeOK' /\ DiskTypeOK' /\ ObservedTypeOK'
    BY UnchangedTypes
    DEF TypeOK, CloseBegin, writer, urgency, supervision, disk, observed
  <1>2. ControlTypeOK'
    BY DEF TypeOK, ControlTypeOK, CloseBegin, control
  <1> QED  BY <1>1, <1>2 DEF TypeOK

\* SyncSegment preserves the types.
LEMMA SyncSegmentTypes == ASSUME TypeOK, InHand, SyncSegment PROVE TypeOK'
  <1>1. SupervisionTypeOK' /\ ObservedTypeOK'
    BY UnchangedTypes DEF TypeOK, SyncSegment, supervision, observed
  <1>2. ControlTypeOK'
    BY DEF TypeOK, ControlTypeOK, SyncSegment, control
  <1>3. WriterTypeOK'
    BY SegIsSegment DEF TypeOK, WriterTypeOK, SyncSegment, writer, DiskTypeOK, InHand
  <1>4. UrgencyTypeOK'
    BY DEF TypeOK, UrgencyTypeOK, SyncSegment, urgency
  <1>5. DiskTypeOK'
    BY DirectoriesTypes DEF TypeOK, DiskTypeOK, SyncSegment, disk
  <1> QED  BY <1>1, <1>2, <1>3, <1>4, <1>5 DEF TypeOK

\* SyncFails preserves the types.
LEMMA SyncFailsTypes == ASSUME TypeOK, InHand, SyncFails PROVE TypeOK'
  <1>1. SupervisionTypeOK'
    BY UnchangedTypes DEF TypeOK, SyncFails, supervision
  <1>2. ControlTypeOK'
    BY DEF TypeOK, ControlTypeOK, SyncFails, control
  <1>3. WriterTypeOK'
    BY DEF TypeOK, WriterTypeOK, SyncFails, writer, DropHandles
  <1>4. UrgencyTypeOK'
    BY DebtTypes DEF TypeOK, UrgencyTypeOK, SyncFails, urgency, DropHandles
  <1>5. DiskTypeOK'
    BY DEF TypeOK, DiskTypeOK, SyncFails, disk
  <1>6. ObservedTypeOK'
    BY FaultBounded DEF TypeOK, ObservedTypeOK, SyncFails, observed
  <1> QED  BY <1>1, <1>2, <1>3, <1>4, <1>5, <1>6 DEF TypeOK

\* RenameSegment preserves the types.
LEMMA RenameSegmentTypes == ASSUME TypeOK, InHand, RenameSegment PROVE TypeOK'
  <1>1. WriterTypeOK' /\ UrgencyTypeOK' /\ SupervisionTypeOK' /\ ObservedTypeOK'
    BY UnchangedTypes
    DEF TypeOK, RenameSegment, writer, urgency, supervision, observed
  <1>2. ControlTypeOK'
    BY DEF TypeOK, ControlTypeOK, RenameSegment, control
  <1>3. DiskTypeOK'
    BY DEF TypeOK, DiskTypeOK, RenameSegment, disk, CloseTarget, Place
  <1> QED  BY <1>1, <1>2, <1>3 DEF TypeOK

\* RenameFails preserves the types.
LEMMA RenameFailsTypes == ASSUME TypeOK, InHand, RenameFails PROVE TypeOK'
  <1>1. SupervisionTypeOK' /\ DiskTypeOK'
    BY UnchangedTypes DEF TypeOK, RenameFails, supervision, disk
  <1>2. ControlTypeOK'
    BY DEF TypeOK, ControlTypeOK, RenameFails, control, AfterClose
  <1>3. WriterTypeOK'
    BY DEF TypeOK, WriterTypeOK, RenameFails, writer, DropHandles
  <1>4. UrgencyTypeOK'
    BY DebtTypes DEF TypeOK, UrgencyTypeOK, RenameFails, urgency, DropHandles
  <1>5. ObservedTypeOK'
    BY FaultBounded DEF TypeOK, ObservedTypeOK, RenameFails, observed
  <1> QED  BY <1>1, <1>2, <1>3, <1>4, <1>5 DEF TypeOK

\* SyncDirectories preserves the types.
LEMMA SyncDirectoriesTypes == ASSUME TypeOK, InHand, SyncDirectories PROVE TypeOK'
  <1>1. SupervisionTypeOK' /\ ObservedTypeOK'
    BY UnchangedTypes DEF TypeOK, SyncDirectories, supervision, observed
  <1>2. ControlTypeOK'
    BY DEF TypeOK, ControlTypeOK, SyncDirectories, control, AfterClose
  <1>3. WriterTypeOK'
    BY DEF TypeOK, WriterTypeOK, SyncDirectories, writer, DropHandles
  <1>4. UrgencyTypeOK'
    BY DEF TypeOK, UrgencyTypeOK, SyncDirectories, urgency, DropHandles
  <1>5. DiskTypeOK'
    BY DirectoriesTypes DEF TypeOK, DiskTypeOK, SyncDirectories, disk
  <1> QED  BY <1>1, <1>2, <1>3, <1>4, <1>5 DEF TypeOK

\* SyncDirectoriesFails preserves the types.
LEMMA SyncDirectoriesFailsTypes == ASSUME TypeOK, InHand, SyncDirectoriesFails PROVE TypeOK'
  <1>1. SupervisionTypeOK'
    BY UnchangedTypes DEF TypeOK, SyncDirectoriesFails, supervision
  <1>2. ControlTypeOK'
    BY DEF TypeOK, ControlTypeOK, SyncDirectoriesFails, control, AfterClose
  <1>3. WriterTypeOK'
    BY DEF TypeOK, WriterTypeOK, SyncDirectoriesFails, writer, DropHandles
  <1>4. UrgencyTypeOK'
    BY DebtTypes DEF TypeOK, UrgencyTypeOK, SyncDirectoriesFails, urgency, DropHandles
  <1>5. DiskTypeOK'
    BY DirectoriesTypes DEF TypeOK, DiskTypeOK, SyncDirectoriesFails, disk
  <1>6. ObservedTypeOK'
    BY FaultBounded DEF TypeOK, ObservedTypeOK, SyncDirectoriesFails, observed
  <1> QED  BY <1>1, <1>2, <1>3, <1>4, <1>5, <1>6 DEF TypeOK

\* ReopenFails preserves the types.
LEMMA ReopenFailsTypes == ASSUME TypeOK, InHand, ReopenFails PROVE TypeOK'
  <1>1. WriterTypeOK' /\ UrgencyTypeOK' /\ DiskTypeOK'
    BY UnchangedTypes DEF TypeOK, ReopenFails, writer, urgency, disk
  <1>2. ControlTypeOK'
    BY DEF TypeOK, ControlTypeOK, ReopenFails, control, FlushReturns
  <1>3. SupervisionTypeOK'
    BY DEF TypeOK, SupervisionTypeOK, ReopenFails, supervision, FlushReturns
  <1>4. ObservedTypeOK'
    BY FaultBounded DEF TypeOK, ObservedTypeOK, ReopenFails, observed
  <1> QED  BY <1>1, <1>2, <1>3, <1>4 DEF TypeOK

\* Unlock preserves the types.
LEMMA UnlockTypes == ASSUME TypeOK, InHand, Unlock PROVE TypeOK'
  <1>1. UrgencyTypeOK' /\ DiskTypeOK' /\ ObservedTypeOK'
    BY UnchangedTypes DEF TypeOK, Unlock, urgency, disk, observed
  <1>2. ControlTypeOK'
    BY DEF TypeOK, ControlTypeOK, Unlock, control
  <1>3. WriterTypeOK'
    BY DEF TypeOK, WriterTypeOK, Unlock, writer
  <1>4. SupervisionTypeOK'
    BY DEF TypeOK, SupervisionTypeOK, Unlock, supervision
  <1> QED  BY <1>1, <1>2, <1>3, <1>4 DEF TypeOK

\* Crash preserves the types.
LEMMA CrashTypes == ASSUME TypeOK, InHand, Crash PROVE TypeOK'
  <1>1. DiskTypeOK'
    BY UnchangedTypes DEF TypeOK, Crash, disk
  <1>2. ControlTypeOK'
    BY DEF TypeOK, ControlTypeOK, Crash, control, ProcessGone
  <1>3. WriterTypeOK'
    BY ZeroInBounds DEF TypeOK, WriterTypeOK, Crash, writer, ProcessGone
  <1>4. UrgencyTypeOK'
    BY DEF TypeOK, UrgencyTypeOK, Crash, urgency, ProcessGone
  <1>5. SupervisionTypeOK'
    BY DEF TypeOK, SupervisionTypeOK, Crash, supervision, ProcessGone
  <1>6. ObservedTypeOK'
    BY DEF TypeOK, ObservedTypeOK, Crash, observed, ProcessGone
  <1> QED  BY <1>1, <1>2, <1>3, <1>4, <1>5, <1>6 DEF TypeOK

\* Start preserves the types.
LEMMA StartTypes == ASSUME TypeOK, InHand, Start PROVE TypeOK'
  <1>1. ControlTypeOK' /\ SupervisionTypeOK' /\ ObservedTypeOK'
    BY FaultBounded
    DEF TypeOK, ControlTypeOK, SupervisionTypeOK, ObservedTypeOK, Start,
       observed
  <1>2. CASE OpenSegment /\ AcquireEpochLock
    <2>1. WriterTypeOK'
      BY <1>2, OpenTypes DEF TypeOK, WriterTypeOK, Start, AcquireEpochLock
    <2>2. UrgencyTypeOK'
      BY <1>2, OpenTypes DEF TypeOK, UrgencyTypeOK, Start
    <2> QED  BY <1>1, <1>2, <2>1, <2>2, OpenTypes DEF TypeOK
  <1>3. CASE /\ lockHeld' \in BOOLEAN
             /\ UNCHANGED <<seg, disk, snap, currentCritical, rotationPending>>
    <2>1. WriterTypeOK'
      BY <1>3 DEF TypeOK, WriterTypeOK, Start
    <2>2. UrgencyTypeOK'
      BY <1>3 DEF TypeOK, UrgencyTypeOK, Start
    <2> QED  BY <1>1, <1>3, <2>1, <2>2, UnchangedTypes DEF TypeOK
  <1> QED  BY <1>2, <1>3 DEF Start

\* AppendReopen preserves the types.
LEMMA AppendReopenTypes == ASSUME TypeOK, InHand, AppendReopen PROVE TypeOK'
  <1>1. ControlTypeOK' /\ SupervisionTypeOK' /\ ObservedTypeOK'
    BY FaultBounded DEF TypeOK, ControlTypeOK, SupervisionTypeOK, ObservedTypeOK,
       AppendReopen, observed, supervision
  <1>2. CASE OpenSegment
    <2>1. WriterTypeOK'
      BY <1>2, OpenTypes DEF TypeOK, WriterTypeOK, AppendReopen, AcquireEpochLock
    <2>2. UrgencyTypeOK'
      BY <1>2, OpenTypes DEF TypeOK, UrgencyTypeOK, AppendReopen
    <2> QED  BY <1>1, <1>2, <2>1, <2>2, OpenTypes DEF TypeOK
  <1>3. CASE UNCHANGED <<pc, seg, disk, snap, currentCritical, rotationPending>>
    <2>1. WriterTypeOK'
      BY <1>3 DEF TypeOK, WriterTypeOK, AppendReopen, AcquireEpochLock
    <2>2. UrgencyTypeOK'
      BY <1>3 DEF TypeOK, UrgencyTypeOK, AppendReopen
    <2> QED  BY <1>1, <1>3, <2>1, <2>2, UnchangedTypes DEF TypeOK
  <1> QED  BY <1>2, <1>3 DEF AppendReopen

\* Reopen preserves the types.
LEMMA ReopenTypes == ASSUME TypeOK, InHand, Reopen PROVE TypeOK'
  <1>1. SupervisionTypeOK' /\ ObservedTypeOK'
    BY UnchangedTypes DEF TypeOK, Reopen, supervision, observed
  <1>2. OpenSegment
    BY DEF Reopen
  <1>3. ControlTypeOK'
    BY DEF TypeOK, ControlTypeOK, Reopen
  <1>4. WriterTypeOK'
    BY <1>2, OpenTypes DEF TypeOK, WriterTypeOK, Reopen
  <1>5. UrgencyTypeOK'
    BY <1>2, OpenTypes DEF TypeOK, UrgencyTypeOK, Reopen
  <1> QED  BY <1>1, <1>2, <1>3, <1>4, <1>5, OpenTypes DEF TypeOK

\* Sequence numbers stay within MaxSeq because the open segment ends at nextSeq.
LEMMA AppendWholeTypes ==
    ASSUME TypeOK, InHand, NEW isCritical \in BOOLEAN, AppendWhole(isCritical)
    PROVE  TypeOK'
  <1>1. SupervisionTypeOK' /\ ControlTypeOK'
    BY DEF TypeOK, SupervisionTypeOK, ControlTypeOK, AppendWhole, supervision
  <1>2. seg \in Segment /\ nextSeq = seg[2] + lines[seg]
    BY SegIsSegment DEF AppendWhole, InHand
  <1>3. nextSeq \in SeqNo /\ lines[seg] \in SeqNo /\ seg[2] \in SeqNo /\ nextSeq < MaxSeq
    BY <1>2 DEF TypeOK, WriterTypeOK, DiskTypeOK, Segment, AppendWhole
  <1>4. nextSeq + 1 \in SeqNo /\ lines[seg] + 1 \in SeqNo
    BY <1>2, <1>3, BoundsAssumption DEF BoundsAssumption, SeqNo
  <1>5. WriterTypeOK'
    BY <1>4 DEF TypeOK, WriterTypeOK, AppendWhole
  <1>6. UrgencyTypeOK'
    BY Zenon DEF TypeOK, UrgencyTypeOK, AppendWhole, WakesFlusher
  <1>7. DiskTypeOK'
    BY <1>2, <1>4 DEF TypeOK, DiskTypeOK, AppendWhole
  <1>8. <<epoch, nextSeq>> \in Event
    BY DEF TypeOK, WriterTypeOK, Event
  <1>9. ObservedTypeOK'
    BY <1>8 DEF TypeOK, ObservedTypeOK, AppendWhole
  <1> QED  BY <1>1, <1>5, <1>6, <1>7, <1>9 DEF TypeOK

\* FlushBegin preserves the types.
LEMMA FlushBeginTypes ==
    ASSUME TypeOK, InHand, NEW by \in {"tick", "final"}, FlushBegin(by)
    PROVE  TypeOK'
  <1>1. WriterTypeOK' /\ SupervisionTypeOK' /\ DiskTypeOK' /\ ObservedTypeOK'
    BY UnchangedTypes DEF TypeOK, FlushBegin, writer, supervision, disk, observed
  <1>2. ControlTypeOK'
    BY DEF TypeOK, ControlTypeOK, FlushBegin
  <1>3. UrgencyTypeOK'
    BY DEF TypeOK, UrgencyTypeOK, FlushBegin
  <1> QED  BY <1>1, <1>2, <1>3 DEF TypeOK

\* RetryDebts preserves the types.
LEMMA RetryDebtsTypes == ASSUME TypeOK, InHand, RetryDebts PROVE TypeOK'
  <1>1. WriterTypeOK' /\ SupervisionTypeOK' /\ ControlTypeOK'
    BY DEF TypeOK, WriterTypeOK, SupervisionTypeOK, ControlTypeOK, RetryDebts, writer,
       FlushReturns
  <1>2. PICK paid \in SUBSET Payable :
           /\ (paid = Payable /\ UNCHANGED faults) \/ Fault
           /\ debts' = debts \ paid
           /\ synced' = [f \in Segment |-> IF f \in {d.segment : d \in paid}
                                           THEN lines[f] ELSE synced[f]]
           /\ \/ maybe' = maybe
              \/ maybe' = ActiveDirSynced(ClosedDirSynced(maybe, where), where)
              \/ maybe' = ActiveDirSynced(maybe, where)
    BY DEF RetryDebts
  <1>3. UrgencyTypeOK'
    <2>1. debts' \subseteq Debt /\ debtSnapshot' \subseteq Debt
      BY <1>2 DEF TypeOK, UrgencyTypeOK, RetryDebts
    <2>2. criticalPending' \in BOOLEAN /\ flushSignal' \in BOOLEAN
      BY Zenon DEF TypeOK, UrgencyTypeOK, RetryDebts
    <2> QED  BY <2>1, <2>2 DEF TypeOK, UrgencyTypeOK, RetryDebts
  <1>4. DiskTypeOK'
    <2>1. maybe' \in [Segment -> SUBSET Place]
      <3>1. /\ maybe \in [Segment -> SUBSET Place] /\ where \in [Segment -> Place]
            /\ ClosedDirSynced(maybe, where) \in [Segment -> SUBSET Place]
        BY DirectoriesTypes DEF TypeOK, DiskTypeOK
      <3> QED  BY <1>2, <3>1, DirectoriesTypes
    <2>2. synced' \in [Segment -> SeqNo]
      BY <1>2 DEF TypeOK, DiskTypeOK
    <2> QED  BY <2>1, <2>2 DEF TypeOK, DiskTypeOK, RetryDebts
  <1>5. ObservedTypeOK'
    BY <1>2, FaultBounded DEF TypeOK, ObservedTypeOK, RetryDebts
  <1> QED  BY <1>1, <1>3, <1>4, <1>5 DEF TypeOK

\* PowerLoss preserves the types.
LEMMA PowerLossTypes == ASSUME TypeOK, InHand, PowerLoss PROVE TypeOK'
  <1>1. ControlTypeOK' /\ SupervisionTypeOK'
    BY DEF ControlTypeOK, SupervisionTypeOK, PowerLoss, ProcessGone
  <1>2. WriterTypeOK'
    BY ZeroInBounds DEF TypeOK, WriterTypeOK, PowerLoss, ProcessGone
  <1>3. UrgencyTypeOK'
    BY DEF UrgencyTypeOK, PowerLoss, ProcessGone
  <1>4. DiskTypeOK'
    <2>1. PICK lost \in SUBSET Unsynced, w \in [Uncertain -> Place] :
             /\ where' = [f \in Segment |-> IF f \in Uncertain THEN w[f] ELSE where[f]]
             /\ lines' = [f \in Segment |-> IF f \in lost THEN synced[f] ELSE lines[f]]
             /\ \E fragments \in {{}, lost} :
                   torn' = [f \in Segment |-> IF f \in lost THEN f \in fragments
                                              ELSE torn[f]]
      BY DEF PowerLoss
    <2>2. where' \in [Segment -> Place]
      BY <2>1 DEF TypeOK, DiskTypeOK
    <2>3. maybe' \in [Segment -> SUBSET Place]
      BY <2>2 DEF PowerLoss
    <2>4. lines' \in [Segment -> SeqNo]
      BY <2>1 DEF TypeOK, DiskTypeOK
    <2>5. synced' \in [Segment -> SeqNo]
      BY <2>4 DEF PowerLoss
    <2>6. torn' \in [Segment -> BOOLEAN]
      <3>1. PICK fragments \in {{}, lost} :
               torn' = [f \in Segment |-> IF f \in lost THEN f \in fragments ELSE torn[f]]
        BY <2>1
      <3>2. \A f \in Segment : torn[f] \in BOOLEAN
        BY DEF TypeOK, DiskTypeOK
      <3>3. \A f \in Segment : (IF f \in lost THEN f \in fragments ELSE torn[f]) \in BOOLEAN
        <4> TAKE f \in Segment
        <4>1. CASE f \in lost
          <5>1. (f \in fragments) \in BOOLEAN
            OBVIOUS
          <5> QED  BY <4>1, <5>1
        <4>2. CASE f \notin lost
          BY <3>2, <4>2
        <4> QED  BY <4>1, <4>2
      <3> DEFINE t(f) == IF f \in lost THEN f \in fragments ELSE torn[f]
      <3>4. torn' = [f \in Segment |-> t(f)] /\ \A f \in Segment : t(f) \in BOOLEAN
        BY <3>1, <3>3
      <3> HIDE DEF t
      <3> QED  BY <3>4
    <2> QED  BY <2>2, <2>3, <2>4, <2>5, <2>6 DEF DiskTypeOK
  <1>5. ObservedTypeOK'
    BY DEF TypeOK, ObservedTypeOK, PowerLoss, ProcessGone
  <1> QED  BY <1>1, <1>2, <1>3, <1>4, <1>5 DEF TypeOK

\* TypeOK relies on InHand: what an operation writes to is a segment.
LEMMA TypeStep == ASSUME TypeOK, InHand, [Next]_vars PROVE TypeOK'
  <1>1. CASE UNCHANGED vars
    BY <1>1, UnchangedTypes DEF TypeOK, vars
  <1>2. CASE \E isCritical \in BOOLEAN : AppendWhole(isCritical)
    BY <1>2, AppendWholeTypes
  <1>3. CASE \E by \in {"tick", "final"} : FlushBegin(by)
    BY <1>3, FlushBeginTypes
  <1> QED
    BY <1>1, <1>2, <1>3, StartTypes, AppendReopenTypes, AppendTooLargeTypes,
       AppendShortTypes, FlusherLoopTypes, FlusherWakeTypes, StopTypes,
       CloseBeginTypes,
       SyncSegmentTypes, SyncFailsTypes, RenameSegmentTypes, RenameFailsTypes,
       SyncDirectoriesTypes, SyncDirectoriesFailsTypes, ReopenTypes, ReopenFailsTypes,
       RetryDebtsTypes, UnlockTypes, CrashTypes, PowerLossTypes
    DEF Next, Step, AppendStep, FlushStep, FaultStep

-----------------------------------------------------------------------------
(* What the writer has in hand *)

\* A segment just opened is the empty active one of the current epoch.
LEMMA OpenedInHand ==
    ASSUME TypeOK, OpenSegment
    PROVE  /\ seg' \in Segment /\ seg'[1] = epoch /\ seg'[2] = nextSeq
           /\ lines'[seg'] = 0 /\ where'[seg'] = "active"
           /\ nextSeq = seg'[2] + lines'[seg']
  <1> DEFINE s == <<epoch, nextSeq>>
  <1>1. s \in Segment /\ nextSeq \in Nat
    BY BoundsAssumption DEF BoundsAssumption, TypeOK, WriterTypeOK, Segment, SeqNo
  <1>2. seg' = s /\ lines'[s] = 0 /\ where'[s] = "active"
    BY <1>1 DEF OpenSegment, TypeOK, DiskTypeOK
  <1> QED  BY <1>1, <1>2

\* Every step preserves InHand.
LEMMA InHandStep == ASSUME TypeOK, InHand, [Next]_vars PROVE InHand'
  <1>1. CASE UNCHANGED vars
    BY <1>1 DEF InHand, CloseTarget, vars, control, writer, urgency, supervision, disk
  <1>2. CASE Start
    <2>1. CASE OpenSegment
      BY <1>2, <2>1, OpenedInHand, OpenTypes DEF InHand, Start
    <2>2. CASE UNCHANGED <<seg, disk, snap, currentCritical, rotationPending>>
      BY <1>2, <2>2, NoSegmentAssumption DEF InHand, Start, disk
    <2> QED  BY <1>2, <2>1, <2>2 DEF Start
  <1>3. CASE AppendReopen
    <2>1. CASE OpenSegment
      BY <1>3, <2>1, OpenedInHand, OpenTypes
    DEF InHand, AppendReopen, MayAppend, supervision
    <2>2. CASE UNCHANGED <<pc, seg, disk, snap, currentCritical, rotationPending>>
      BY <1>3, <2>2, NoSegmentAssumption DEF InHand, AppendReopen, supervision, disk
    <2> QED  BY <1>3, <2>1, <2>2 DEF AppendReopen
  <1>4. CASE Reopen
    BY <1>4, OpenedInHand, OpenTypes DEF InHand, Reopen, supervision
  <1>5. CASE AppendTooLarge
    BY <1>5, NoSegmentAssumption
    DEF TypeOK, WriterTypeOK, DiskTypeOK, InHand, CloseTarget, AppendTooLarge,
       writer, urgency, disk, supervision, MayAppend
  <1>6. CASE AppendShort
    BY <1>6, NoSegmentAssumption
    DEF TypeOK, WriterTypeOK, DiskTypeOK, InHand, CloseTarget, AppendShort,
       supervision, RecordDebt, AbandonSegment, DropHandles, MayAppend
  <1>7. CASE FlusherLoop
    BY <1>7, NoSegmentAssumption
    DEF TypeOK, WriterTypeOK, DiskTypeOK, InHand, CloseTarget, FlusherLoop, control,
       writer, urgency, disk
  <1>8. CASE FlusherWake
    BY <1>8, NoSegmentAssumption
    DEF TypeOK, WriterTypeOK, DiskTypeOK, InHand, CloseTarget, FlusherWake, control,
       writer, disk
  <1>9. CASE Stop
    BY <1>9, NoSegmentAssumption
    DEF TypeOK, WriterTypeOK, DiskTypeOK, InHand, CloseTarget, Stop, writer, disk
  <1>10. CASE CloseBegin
    BY <1>10, NoSegmentAssumption
    DEF TypeOK, WriterTypeOK, DiskTypeOK, InHand, CloseTarget, CloseBegin, writer,
       urgency, disk, supervision
  <1>11. CASE SyncSegment
    BY <1>11, NoSegmentAssumption
    DEF TypeOK, WriterTypeOK, DiskTypeOK, InHand, CloseTarget, SyncSegment,
       supervision, ActiveDirSynced
  <1>12. CASE SyncFails
    BY <1>12, NoSegmentAssumption
    DEF TypeOK, WriterTypeOK, DiskTypeOK, InHand, CloseTarget, SyncFails,
       supervision, RecordDebt, DropHandles
  <1>13. CASE RenameSegment
    BY <1>13, NoSegmentAssumption
    DEF TypeOK, WriterTypeOK, DiskTypeOK, InHand, CloseTarget, RenameSegment, writer,
       urgency, supervision
  <1>14. CASE RenameFails
    BY <1>14, NoSegmentAssumption
    DEF TypeOK, WriterTypeOK, DiskTypeOK, InHand, CloseTarget, RenameFails, disk,
       supervision, RecordDebt, DropHandles, AfterClose
  <1>15. CASE SyncDirectories
    BY <1>15, NoSegmentAssumption
    DEF TypeOK, WriterTypeOK, DiskTypeOK, InHand, CloseTarget, SyncDirectories,
       supervision, DropHandles, AfterClose
  <1>16. CASE SyncDirectoriesFails
    BY <1>16, NoSegmentAssumption
    DEF TypeOK, WriterTypeOK, DiskTypeOK, InHand, CloseTarget, SyncDirectoriesFails,
       supervision, RecordDebt, DropHandles, AfterClose
  <1>17. CASE ReopenFails
    BY <1>17, NoSegmentAssumption
    DEF TypeOK, WriterTypeOK, DiskTypeOK, InHand, CloseTarget, ReopenFails, writer,
       urgency, disk, FlushReturns
  <1>18. CASE RetryDebts
    BY <1>18, NoSegmentAssumption
    DEF TypeOK, WriterTypeOK, DiskTypeOK, InHand, CloseTarget, RetryDebts, writer,
       FlushReturns
  <1>19. CASE Unlock
    BY <1>19, NoSegmentAssumption
    DEF TypeOK, WriterTypeOK, DiskTypeOK, InHand, CloseTarget, Unlock, urgency, disk
  <1>20. CASE Crash
    BY <1>20, NoSegmentAssumption
    DEF TypeOK, WriterTypeOK, DiskTypeOK, InHand, CloseTarget, Crash, disk,
       ProcessGone
  <1>21. CASE PowerLoss
    BY <1>21, NoSegmentAssumption
    DEF TypeOK, WriterTypeOK, DiskTypeOK, InHand, CloseTarget, PowerLoss, ProcessGone
  <1>22. CASE \E isCritical \in BOOLEAN : AppendWhole(isCritical)
    <2>1. PICK isCritical \in BOOLEAN : AppendWhole(isCritical)
      BY <1>22
    <2>2. seg \in Segment /\ seg' = seg
      BY <2>1, SegIsSegment DEF AppendWhole
    <2>3. nextSeq \in Nat /\ lines[seg] \in Nat /\ seg[2] \in Nat
      BY <2>2, BoundsAssumption
      DEF BoundsAssumption, TypeOK, WriterTypeOK, DiskTypeOK, Segment, SeqNo
    <2>4. lines'[seg] = lines[seg] + 1 /\ nextSeq' = nextSeq + 1 /\ lines'[seg] > 0
      BY <2>1, <2>2, <2>3 DEF AppendWhole, TypeOK, DiskTypeOK
    <2>5. nextSeq' = seg[2] + lines'[seg]
      BY <2>1, <2>2, <2>3, <2>4 DEF InHand
    <2> QED  BY <2>1, <2>2, <2>4, <2>5 DEF InHand, AppendWhole, MayAppend, supervision
  <1>23. CASE \E by \in {"tick", "final"} : FlushBegin(by)
    BY <1>23, SegIsSegment
    DEF InHand, CloseTarget, FlushBegin, writer, supervision, disk
  <1> QED
    BY <1>1, <1>2, <1>3, <1>4, <1>5, <1>6, <1>7, <1>8, <1>9, <1>10, <1>11, <1>12,
       <1>13, <1>14, <1>15, <1>16, <1>17, <1>18, <1>19, <1>20, <1>21, <1>22, <1>23
    DEF Next, Step, AppendStep, FlushStep, FaultStep

-----------------------------------------------------------------------------
(* The frontier of the current epoch *)

\* Components and counters are natural numbers.
LEMMA NaturalValues ==
    ASSUME TypeOK
    PROVE  /\ epoch \in Nat /\ nextSeq \in Nat
           /\ \A f \in Segment : /\ f[1] \in Nat /\ f[2] \in Nat
                                 /\ lines[f] \in Nat /\ synced[f] \in Nat
           /\ \A e \in Event : e[1] \in Nat /\ e[2] \in Nat
  BY BoundsAssumption
  DEF BoundsAssumption, TypeOK, WriterTypeOK, DiskTypeOK, Segment, Event, Epoch, SeqNo

\* What Frontier speaks of.
frontier == <<alive, epoch, nextSeq, where, lines, synced, accepted, critical>>

\* Every step preserves Frontier.
LEMMA FrontierStep == ASSUME TypeOK, InHand, Frontier, [Next]_vars PROVE Frontier'
  <1>1. CASE UNCHANGED frontier
    BY <1>1 DEF Frontier, frontier
  <1>2. CASE OpenSegment /\ UNCHANGED <<alive, epoch, nextSeq, accepted, critical>>
    <2> DEFINE s == <<epoch, nextSeq>>
    <2>1. s \in Segment
      BY DEF TypeOK, WriterTypeOK, Segment
    <2>2. /\ \A f \in Segment \ {s} : /\ where'[f] = where[f] /\ lines'[f] = lines[f]
                                      /\ synced'[f] = synced[f]
          /\ lines'[s] = 0 /\ synced'[s] = 0
      BY <1>2, <2>1 DEF OpenSegment, TypeOK, DiskTypeOK
    <2> HIDE DEF s
    <2> QED  BY <1>2, <2>1, <2>2 DEF Frontier
  <1>3. CASE AppendShort
    <2>1. UNCHANGED <<alive, where, lines, synced, accepted, critical>> /\ epoch' = epoch + 1
      BY <1>3 DEF AppendShort, AbandonSegment, NextProducer, observed
    <2>2. \A e \in accepted : e \in Event
      BY DEF TypeOK, ObservedTypeOK
    <2> QED  BY <2>1, <2>2, NaturalValues DEF Frontier
  <1>4. CASE \E isCritical \in BOOLEAN : AppendWhole(isCritical)
    <2>1. PICK isCritical \in BOOLEAN : AppendWhole(isCritical)
      BY <1>4
    <2>2. seg \in Segment /\ alive /\ seg[1] = epoch /\ nextSeq = seg[2] + lines[seg]
      BY <2>1, SegIsSegment DEF AppendWhole, MayAppend, InHand
    <2>3. /\ UNCHANGED <<alive, epoch, where, synced>> /\ nextSeq' = nextSeq + 1
          /\ \A f \in Segment \ {seg} : lines'[f] = lines[f]
          /\ lines'[seg] = lines[seg] + 1
      BY <2>1, <2>2 DEF AppendWhole, TypeOK, DiskTypeOK
    <2>4. where[seg] # "none"
      BY <2>1, <2>2 DEF InHand, AppendWhole, MayAppend
    <2>5. \A f \in Segment : synced'[f] <= lines'[f]
      BY <2>2, <2>3, NaturalValues DEF Frontier
    <2>6. \A f \in Segment : lines'[f] > 0 =>
             /\ where'[f] # "none"
             /\ f[1] <= epoch'
             /\ f[1] = epoch' => f[2] + lines'[f] <= nextSeq'
      BY <2>2, <2>3, <2>4, NaturalValues DEF Frontier
    <2>7. /\ accepted' = accepted \union {<<epoch, nextSeq>>}
          /\ critical' \subseteq critical \union {<<epoch, nextSeq>>}
      BY <2>1 DEF AppendWhole
    <2>8. \A e \in accepted' : e[1] < epoch' \/ (e[1] = epoch' /\ e[2] < nextSeq')
      <3>1. \A e \in accepted : e \in Event
        BY DEF TypeOK, ObservedTypeOK
      <3> QED  BY <2>2, <2>3, <2>7, <3>1, NaturalValues DEF Frontier
    <2>9. critical' \subseteq accepted'
      BY <2>2, <2>7, <2>1 DEF Frontier, AppendWhole
    <2> QED  BY <2>5, <2>6, <2>8, <2>9 DEF Frontier
  <1>5. CASE SyncSegment \/ SyncFails
    <2>1. seg \in Segment /\ UNCHANGED <<alive, epoch, nextSeq, where, lines, accepted, critical>>
      BY <1>5 DEF SyncSegment, SyncFails, InHand, observed
    <2>2. \A f \in Segment : synced'[f] = synced[f] \/ synced'[f] = lines[f]
      BY <1>5, <2>1 DEF SyncSegment, SyncFails, TypeOK, DiskTypeOK
    <2> QED  BY <2>1, <2>2, NaturalValues DEF Frontier
  <1>6. CASE RenameSegment
    <2>1. seg \in Segment /\ UNCHANGED <<alive, epoch, nextSeq, lines, synced, accepted, critical>>
      BY <1>6 DEF RenameSegment, InHand, observed, writer
    <2>2. \A f \in Segment : where'[f] = where[f] \/ (f = seg /\ where'[f] = CloseTarget(seg))
      BY <1>6, <2>1 DEF RenameSegment, TypeOK, DiskTypeOK
    <2>3. lines[seg] > 0 => CloseTarget(seg) # "none"
      BY <2>1, NaturalValues DEF CloseTarget
    <2> QED  BY <2>1, <2>2, <2>3, NaturalValues DEF Frontier
  <1>7. CASE RetryDebts
    <2>1. UNCHANGED <<alive, epoch, nextSeq, where, lines, accepted, critical>>
      BY <1>7 DEF RetryDebts, writer
    <2>2. \A f \in Segment : synced'[f] = synced[f] \/ synced'[f] = lines[f]
      BY <1>7 DEF RetryDebts
    <2> QED  BY <2>1, <2>2, NaturalValues DEF Frontier
  <1>8. CASE Crash
    BY <1>8 DEF Crash, ProcessGone, Frontier, disk
  <1>9. CASE PowerLoss
    <2>1. TypeOK'
      BY <1>9, PowerLossTypes
    <2>2. alive' = FALSE /\ \A f \in Segment : synced'[f] = lines'[f] /\ lines'[f] \in Nat
      BY <1>9, <2>1, BoundsAssumption
      DEF PowerLoss, ProcessGone, TypeOK, DiskTypeOK, SeqNo, BoundsAssumption
    <2> QED  BY <2>2 DEF Frontier
  <1>10. Start \/ AppendReopen \/ Reopen =>
            \/ UNCHANGED frontier
            \/ OpenSegment /\ UNCHANGED <<alive, epoch, nextSeq, accepted, critical>>
    BY DEF Start, AppendReopen, Reopen, frontier, disk, observed
  <1>11. \/ UNCHANGED vars \/ AppendTooLarge \/ FlusherLoop \/ FlusherWake \/ Stop
         \/ (\E by \in {"tick", "final"} : FlushBegin(by)) \/ CloseBegin
         \/ RenameFails \/ SyncDirectories \/ SyncDirectoriesFails \/ ReopenFails \/ Unlock
         => UNCHANGED frontier
    BY
    DEF vars, AppendTooLarge, FlusherLoop, FlusherWake, Stop, FlushBegin, CloseBegin,
       RenameFails, SyncDirectories, SyncDirectoriesFails, ReopenFails, Unlock,
       frontier,
       control, writer, disk, observed
  <1> QED
    BY <1>1, <1>2, <1>3, <1>4, <1>5, <1>6, <1>7, <1>8, <1>9, <1>10, <1>11
    DEF Next, Step, AppendStep, FlushStep, FaultStep

-----------------------------------------------------------------------------
(* Debts *)

\* A debt's segment is older than the name the writer would open next.
LEMMA DebtIsOld ==
    ASSUME TypeOK, Frontier, DebtsSettled, alive, NEW d \in debts
    PROVE  /\ d.segment \in Segment
           /\ d.segment # <<epoch, nextSeq>>
           /\ where[d.segment] # "none"
  <1>1. d.segment \in Segment
    BY DEF TypeOK, UrgencyTypeOK, Debt
  <1>2. lines[d.segment] > 0
    BY DEF DebtsSettled
  <1> QED  BY <1>1, <1>2, NaturalValues DEF Frontier

\* What RecordDebt may add is a debt on the open segment.
LEMMA NewDebt ==
    ASSUME TypeOK, InHand, Frontier, DebtsSettled, NEW renamed \in BOOLEAN,
           RecordDebt(renamed), DropHandles, UNCHANGED <<where, lines>>,
           renamed \/ (seg \in Segment => where[seg] = "active")
    PROVE  DebtsSettled'
  <1>1. \A d \in debts : d.segment \in Segment
    BY DEF TypeOK, UrgencyTypeOK, Debt
  <1>2. currentCritical => seg \in Segment /\ lines[seg] > 0
    BY DEF InHand
  <1>3. seg' = NoSegment
    BY DEF DropHandles
  <1> QED  BY <1>1, <1>2, <1>3, NoSegmentAssumption DEF RecordDebt, DebtsSettled

\* Every step preserves DebtsSettled.
LEMMA DebtsStep ==
    ASSUME TypeOK, InHand, Frontier, DebtsSettled, [Next]_vars
    PROVE  DebtsSettled'
  <1>1. CASE debts' \subseteq debts /\ UNCHANGED <<seg, where, lines>>
    BY <1>1 DEF DebtsSettled
  <1>2. CASE OpenSegment /\ alive /\ UNCHANGED debts
    <2> DEFINE s == <<epoch, nextSeq>>
    <2>1. s \in Segment
      BY DEF TypeOK, WriterTypeOK, Segment
    <2>2. /\ \A f \in Segment \ {s} : where'[f] = where[f] /\ lines'[f] = lines[f]
          /\ seg' = s
      BY <1>2, <2>1 DEF OpenSegment, TypeOK, DiskTypeOK
    <2> HIDE DEF s
    <2>3. \A d \in debts : d.segment \in Segment \ {s}
      BY <1>2, DebtIsOld DEF s
    <2> QED  BY <1>2, <2>2, <2>3 DEF DebtsSettled
  <1>3. CASE AppendShort
    <2>1. RecordDebt(FALSE) /\ DropHandles /\ UNCHANGED <<where, lines>>
      BY <1>3 DEF AppendShort, AbandonSegment
    <2>2. seg \in Segment => where[seg] = "active"
      BY <1>3 DEF AppendShort, MayAppend, InHand
    <2> QED  BY <2>1, <2>2, NewDebt
  <1>4. CASE \E isCritical \in BOOLEAN : AppendWhole(isCritical)
    <2>1. /\ UNCHANGED <<seg, where, debts>> /\ seg \in Segment
          /\ \A f \in Segment \ {seg} : lines'[f] = lines[f]
      BY <1>4, SegIsSegment DEF AppendWhole, TypeOK, DiskTypeOK
    <2>2. \A d \in debts : d.segment \in Segment \ {seg}
      BY DEF TypeOK, UrgencyTypeOK, Debt, DebtsSettled
    <2> QED  BY <2>1, <2>2 DEF DebtsSettled
  <1>5. CASE RenameSegment
    <2>1. /\ UNCHANGED <<seg, lines, debts>> /\ seg \in Segment
          /\ \A f \in Segment \ {seg} : where'[f] = where[f]
      BY <1>5 DEF RenameSegment, TypeOK, DiskTypeOK, InHand, writer, urgency
    <2>2. \A d \in debts : d.segment \in Segment \ {seg}
      BY DEF TypeOK, UrgencyTypeOK, Debt, DebtsSettled
    <2> QED  BY <2>1, <2>2 DEF DebtsSettled
  <1>6. CASE \/ RecordDebt(TRUE) /\ DropHandles /\ UNCHANGED <<where, lines>>
    BY <1>6, NewDebt
  <1>7. CASE SyncDirectories
    <2>1. seg' = NoSegment /\ UNCHANGED <<where, lines, debts>>
      BY <1>7 DEF SyncDirectories, DropHandles
    <2>2. \A d \in debts : d.segment \in Segment
      BY DEF TypeOK, UrgencyTypeOK, Debt
    <2> QED  BY <2>1, <2>2, NoSegmentAssumption DEF DebtsSettled
  <1>8. CASE Crash \/ PowerLoss
    BY <1>8 DEF Crash, PowerLoss, ProcessGone, DebtsSettled
  <1>9. Start \/ AppendReopen \/ Reopen =>
            \/ UNCHANGED <<debts, seg, where, lines>>
            \/ OpenSegment /\ alive /\ UNCHANGED debts
    BY DEF Start, AppendReopen, MayAppend, Reopen, disk
  <1>10. SyncFails \/ RenameFails \/ SyncDirectoriesFails =>
            \/ UNCHANGED <<debts, seg, where, lines>>
            \/ RecordDebt(TRUE) /\ DropHandles /\ UNCHANGED <<where, lines>>
    BY DEF SyncFails, RenameFails, SyncDirectoriesFails, disk
  <1>11. RetryDebts => debts' \subseteq debts /\ UNCHANGED <<seg, where, lines>>
    BY DEF RetryDebts, writer
  <1>12. \/ UNCHANGED vars \/ AppendTooLarge \/ FlusherLoop \/ FlusherWake \/ Stop
         \/ (\E by \in {"tick", "final"} : FlushBegin(by)) \/ CloseBegin
         \/ SyncSegment \/ ReopenFails \/ Unlock
         => UNCHANGED <<debts, seg, where, lines>>
    BY
    DEF vars, AppendTooLarge, FlusherLoop, FlusherWake, Stop, FlushBegin, CloseBegin,
       SyncSegment, ReopenFails, Unlock, writer, urgency, disk
  <1> QED
    BY <1>1, <1>2, <1>3, <1>4, <1>5, <1>6, <1>7, <1>8, <1>9, <1>10, <1>11, <1>12
    DEF Next, Step, AppendStep, FlushStep, FaultStep

-----------------------------------------------------------------------------
(* Durability *)

\* Whatever is durable in a segment stays so.
Kept == \A f \in Segment : synced[f] > 0 /\ "none" \notin maybe[f] =>
            synced[f] <= synced'[f] /\ "none" \notin maybe'[f]

\* A durable event stays durable when what is durable is kept.
LEMMA DurableStable ==
    ASSUME TypeOK, TypeOK', Kept, NEW e \in Event, Durable(e)
    PROVE  Durable(e)'
  <1>1. PICK f \in Segment : /\ f[1] = e[1] /\ "none" \notin maybe[f]
                             /\ f[2] <= e[2] /\ e[2] < f[2] + synced[f]
    BY DEF Durable
  <1>2. f[2] \in Nat /\ e[2] \in Nat /\ synced[f] \in Nat
    BY NaturalValues
  <1>3. synced'[f] \in Nat
    BY BoundsAssumption DEF BoundsAssumption, TypeOK, DiskTypeOK, SeqNo
  <1>4. synced[f] <= synced'[f] /\ "none" \notin maybe'[f]
    BY <1>1, <1>2 DEF Kept
  <1>5. e[2] < f[2] + synced'[f]
    BY <1>1, <1>2, <1>3, <1>4
  <1> QED  BY <1>1, <1>4, <1>5 DEF Durable

\* fsync of the directories drops only places where the file is not.
LEMMA SyncKeeps ==
    ASSUME TypeOK, NEW m, NEW f \in Segment, where[f] # "none",
           \/ m = ActiveDirSynced(maybe, where)
           \/ m = ClosedDirSynced(maybe, where)
           \/ m = ActiveDirSynced(ClosedDirSynced(maybe, where), where),
           "none" \notin maybe[f]
    PROVE  "none" \notin m[f]
  BY DEF ActiveDirSynced, ClosedDirSynced

\* No step makes a fsynced line, or a settled directory entry, uncertain again.
LEMMA KeptStep == ASSUME TypeOK, InHand, Frontier, [Next]_vars PROVE Kept
  <1>0. \A f \in Segment : /\ synced[f] \in Nat /\ lines[f] \in Nat
                           /\ synced[f] <= lines[f]
                           /\ synced[f] > 0 /\ alive => where[f] # "none"
    BY NaturalValues DEF Frontier
  <1>1. CASE UNCHANGED <<maybe, synced>>
    BY <1>0, <1>1 DEF Kept
  <1>2. CASE OpenSegment /\ alive
    <2> DEFINE s == <<epoch, nextSeq>>
    <2>1. s \in Segment
      BY DEF TypeOK, WriterTypeOK, Segment
    <2>2. \A f \in Segment \ {s} : maybe'[f] = maybe[f] /\ synced'[f] = synced[f]
      BY <1>2, <2>1 DEF OpenSegment, TypeOK, DiskTypeOK
    <2>3. ~ synced[s] > 0
      BY <1>0, <1>2, <2>1, NaturalValues DEF Frontier
    <2> HIDE DEF s
    <2> QED  BY <1>0, <2>2, <2>3 DEF Kept
  <1>3. CASE SyncSegment \/ SyncFails
    <2>1. seg \in Segment /\ alive
      BY <1>3 DEF SyncSegment, SyncFails, InHand
    <2>2. maybe' = maybe \/ maybe' = ActiveDirSynced(maybe, where)
      BY <1>3 DEF SyncSegment, SyncFails
    <2>3. \A f \in Segment : synced'[f] = synced[f] \/ synced'[f] = lines[f]
      BY <1>3, <2>1 DEF SyncSegment, SyncFails, TypeOK, DiskTypeOK
    <2> QED  BY <1>0, <2>1, <2>2, <2>3, SyncKeeps DEF Kept
  <1>4. CASE RenameSegment
    <2>1. seg \in Segment /\ alive /\ UNCHANGED synced
      BY <1>4 DEF RenameSegment, InHand
    <2>2. maybe' = [maybe EXCEPT ![seg] = @ \union {CloseTarget(seg)}]
      BY <1>4 DEF RenameSegment
    <2>3. synced[seg] > 0 => CloseTarget(seg) # "none"
      BY <1>0, <2>1 DEF CloseTarget
    <2> QED  BY <1>0, <2>1, <2>2, <2>3 DEF Kept, TypeOK, DiskTypeOK
  <1>5. CASE SyncDirectories \/ SyncDirectoriesFails
    <2>1. /\ alive /\ UNCHANGED synced
          /\ \/ maybe' = maybe \/ maybe' = ClosedDirSynced(maybe, where)
             \/ maybe' = ActiveDirSynced(ClosedDirSynced(maybe, where), where)
      BY <1>5 DEF SyncDirectories, SyncDirectoriesFails
    <2> QED  BY <1>0, <2>1, SyncKeeps DEF Kept
  <1>6. CASE RetryDebts
    <2>1. /\ alive
          /\ \A f \in Segment : synced'[f] = synced[f] \/ synced'[f] = lines[f]
          /\ \/ maybe' = maybe \/ maybe' = ActiveDirSynced(maybe, where)
             \/ maybe' = ActiveDirSynced(ClosedDirSynced(maybe, where), where)
      BY <1>6 DEF RetryDebts
    <2> QED  BY <1>0, <2>1, SyncKeeps DEF Kept
  <1>7. CASE PowerLoss
    <2>1. PICK lost \in SUBSET Unsynced, w \in [Uncertain -> Place] :
             /\ \A f \in Uncertain : w[f] \in maybe[f]
             /\ where' = [f \in Segment |-> IF f \in Uncertain THEN w[f] ELSE where[f]]
             /\ lines' = [f \in Segment |-> IF f \in lost THEN synced[f] ELSE lines[f]]
      BY <1>7 DEF PowerLoss
    <2>2. maybe' = [f \in Segment |-> {where'[f]}] /\ synced' = lines'
      BY <1>7 DEF PowerLoss
    <2>3. \A f \in Segment : where'[f] \in maybe[f]
      BY <2>1 DEF Uncertain
    <2> QED  BY <1>0, <2>1, <2>2, <2>3 DEF Kept
  <1>8. Start \/ AppendReopen \/ Reopen =>
            UNCHANGED <<maybe, synced>> \/ (OpenSegment /\ alive)
    BY DEF Start, AppendReopen, MayAppend, Reopen, disk
  <1>9. \/ UNCHANGED vars \/ AppendTooLarge \/ FlusherLoop \/ FlusherWake \/ Stop
         \/ (\E by \in {"tick", "final"} : FlushBegin(by)) \/ CloseBegin
         \/ (\E isCritical \in BOOLEAN : AppendWhole(isCritical)) \/ AppendShort
         \/ RenameFails \/ ReopenFails \/ Unlock \/ Crash
         => UNCHANGED <<maybe, synced>>
    BY
    DEF vars, AppendTooLarge, FlusherLoop, FlusherWake, Stop, FlushBegin, CloseBegin,
       AppendWhole, AppendShort, RenameFails, ReopenFails, Unlock, Crash, disk
  <1> QED
    BY <1>1, <1>2, <1>3, <1>4, <1>5, <1>6, <1>7, <1>8, <1>9
    DEF Next, Step, AppendStep, FlushStep, FaultStep

\* The pending flag and the debts of CriticalAccounted.
Pending == currentCritical \/ debts # {} => criticalPending

\* Every step preserves Pending.
LEMMA PendingStep ==
    ASSUME TypeOK, InHand, Pending, [Next]_vars
    PROVE  Pending'
  <1>1. CASE /\ debts' = debts /\ criticalPending' = criticalPending
             /\ currentCritical' => currentCritical
    BY <1>1 DEF Pending
  <1>2. CASE \E renamed \in BOOLEAN : RecordDebt(renamed)
    BY <1>2 DEF Pending, RecordDebt
  <1>3. CASE \E isCritical \in BOOLEAN : AppendWhole(isCritical)
    BY <1>3 DEF Pending, AppendWhole
  <1>4. CASE SyncDirectories
    BY <1>4 DEF Pending, SyncDirectories
  <1>5. CASE RetryDebts
    BY <1>5 DEF Pending, RetryDebts
  <1>6. CASE Crash \/ PowerLoss
    BY <1>6 DEF Pending, Crash, PowerLoss, ProcessGone
  <1>7. \/ UNCHANGED vars \/ AppendTooLarge \/ FlusherLoop \/ FlusherWake \/ Stop
        \/ (\E by \in {"tick", "final"} : FlushBegin(by)) \/ CloseBegin
        \/ SyncSegment \/ RenameSegment \/ ReopenFails \/ Unlock
        \/ Start \/ AppendReopen \/ Reopen
        => /\ debts' = debts /\ criticalPending' = criticalPending
           /\ currentCritical' => currentCritical
    BY
    DEF vars, AppendTooLarge, FlusherLoop, FlusherWake, Stop, FlushBegin, CloseBegin,
       SyncSegment, RenameSegment, ReopenFails, Unlock, Start, AppendReopen, Reopen,
       OpenSegment, urgency
  <1>8. SyncFails \/ RenameFails \/ SyncDirectoriesFails \/ AppendShort =>
           \/ \E renamed \in BOOLEAN : RecordDebt(renamed)
           \/ /\ debts' = debts /\ criticalPending' = criticalPending
              /\ currentCritical' => currentCritical
    BY DEF SyncFails, RenameFails, SyncDirectoriesFails, AppendShort
  <1> QED
    BY <1>1, <1>2, <1>3, <1>4, <1>5, <1>6, <1>7, <1>8
    DEF Next, Step, AppendStep, FlushStep, FaultStep

\* Every critical event is durable or owed.
Accounted == alive => \A e \in critical : Durable(e) \/ Owed(e)

\* A retried debt's segment is durable as a whole.
LEMMA PaidIsDurable ==
    ASSUME TypeOK, Frontier, DebtsSettled, RetryDebts,
           NEW d \in debts, d \notin debts', NEW e, InSegment(d.segment, e)
    PROVE  Durable(e)'
  <1> DEFINE f == d.segment
  <1>1. f \in Segment
    BY DEF TypeOK, UrgencyTypeOK, Debt
  <1>2. where[f] # "none" /\ (d.renamed \/ where[f] = "active")
    BY <1>1, NaturalValues DEF Frontier, DebtsSettled, RetryDebts
  <1>3. PICK paid \in SUBSET Payable :
           /\ debts' = debts \ paid
           /\ synced' = [g \in Segment |-> IF g \in {x.segment : x \in paid}
                                           THEN lines[g] ELSE synced[g]]
           /\ maybe' = IF paid = {} THEN maybe
                       ELSE ActiveDirSynced(IF \E x \in paid : x.renamed
                                            THEN ClosedDirSynced(maybe, where)
                                            ELSE maybe, where)
    BY DEF RetryDebts
  <1>4. d \in paid
    BY <1>3
  <1>5. synced'[f] = lines[f]
    BY <1>1, <1>3, <1>4
  <1>6. "none" \notin maybe'[f]
    <2>1. CASE where[f] = "closed"
      BY <1>1, <1>2, <1>3, <1>4, <2>1 DEF ActiveDirSynced, ClosedDirSynced
    <2>2. CASE where[f] # "closed"
      BY <1>1, <1>2, <1>3, <1>4, <2>2 DEF ActiveDirSynced
    <2> QED  BY <2>1, <2>2
  <1> QED  BY <1>1, <1>5, <1>6 DEF Durable, InSegment

\* The open segment is durable once it and active/ are fsynced.
LEMMA SyncIsDurable ==
    ASSUME TypeOK, InHand, SyncSegment, NEW e, InSegment(seg, e)
    PROVE  Durable(e)'
  <1>1. seg \in Segment /\ where[seg] = "active"
    BY DEF SyncSegment, InHand
  <1>2. synced'[seg] = lines[seg] /\ maybe'[seg] = {"active"}
    BY <1>1 DEF SyncSegment, ActiveDirSynced, TypeOK, DiskTypeOK
  <1> QED  BY <1>1, <1>2 DEF Durable, InSegment

\* Every step preserves Accounted.
LEMMA AccountedStep ==
    ASSUME TypeOK, TypeOK', InHand, Frontier, DebtsSettled, Accounted, Kept, [Next]_vars
    PROVE  Accounted'
  <1>0. SUFFICES ASSUME alive', NEW e \in critical' PROVE (Durable(e) \/ Owed(e))'
    BY DEF Accounted
  <1> e \in Event
    BY <1>0 DEF TypeOK, ObservedTypeOK
  <1>a. Durable(e) => Durable(e)'
    BY DurableStable
  <1>1. CASE UNCHANGED <<alive, critical, currentCritical, seg, debts, lines>>
    BY <1>0, <1>1, <1>a DEF Accounted, Owed, InSegment
  <1>2. CASE OpenSegment /\ ~currentCritical /\ UNCHANGED <<alive, critical, debts>>
    <2> DEFINE s == <<epoch, nextSeq>>
    <2>1. s \in Segment
      BY DEF TypeOK, WriterTypeOK, Segment
    <2>2. \A f \in Segment \ {s} : lines'[f] = lines[f]
      BY <1>2, <2>1 DEF OpenSegment, TypeOK, DiskTypeOK
    <2> HIDE DEF s
    <2>3. \A d \in debts : d.segment \in Segment \ {s}
      BY <1>0, <1>2, DebtIsOld DEF s
    <2> QED  BY <1>0, <1>2, <1>a, <2>2, <2>3 DEF Accounted, Owed, InSegment
  <1>3. CASE \E isCritical \in BOOLEAN : AppendWhole(isCritical)
    <2>1. PICK isCritical \in BOOLEAN : AppendWhole(isCritical)
      BY <1>3
    <2>2. /\ seg \in Segment /\ seg' = seg /\ seg[1] = epoch
          /\ nextSeq = seg[2] + lines[seg] /\ lines'[seg] = lines[seg] + 1
          /\ \A f \in Segment \ {seg} : lines'[f] = lines[f]
          /\ UNCHANGED <<alive, debts>>
      BY <2>1, SegIsSegment DEF AppendWhole, InHand, TypeOK, DiskTypeOK
    <2>3. \A d \in debts : d.segment \in Segment \ {seg}
      BY DEF TypeOK, UrgencyTypeOK, Debt, DebtsSettled
    <2>4. CASE isCritical /\ e = <<epoch, nextSeq>>
      <3>1. currentCritical'
        BY <2>1, <2>4 DEF AppendWhole
      <3>2. InSegment(seg, e)'
        BY <2>2, <2>4, NaturalValues DEF InSegment
      <3> QED  BY <3>1, <3>2 DEF Owed
    <2>5. CASE e \in critical
      <3>1. CASE Durable(e)
        BY <1>a, <3>1
      <3>2. CASE currentCritical /\ InSegment(seg, e)
        <4>1. currentCritical'
          BY <2>1, <3>2 DEF AppendWhole
        <4>2. InSegment(seg, e)'
          BY <2>2, <3>2, NaturalValues DEF InSegment
        <4> QED  BY <4>1, <4>2 DEF Owed
      <3>3. CASE \E d \in debts : InSegment(d.segment, e)
        BY <2>2, <2>3, <3>3 DEF Owed, InSegment
      <3> QED  BY <1>0, <2>2, <2>5, <3>1, <3>2, <3>3 DEF Accounted, Owed
    <2> QED  BY <1>0, <2>1, <2>4, <2>5 DEF AppendWhole
  <1>4. CASE /\ \E renamed \in BOOLEAN : RecordDebt(renamed)
             /\ UNCHANGED <<alive, critical, lines>>
    <2>1. PICK renamed \in BOOLEAN : RecordDebt(renamed)
      BY <1>4
    <2>2. debts \subseteq debts'
      BY <2>1 DEF RecordDebt
    <2>4. CASE currentCritical /\ InSegment(seg, e)
      <3>0. [segment |-> seg, renamed |-> renamed] \in debts'
        BY <2>1, <2>4 DEF RecordDebt
      <3>1. PICK d \in debts' : d.segment = seg
        <4>1. [segment |-> seg, renamed |-> renamed].segment = seg
          OBVIOUS
        <4> QED  BY <3>0, <4>1
      <3>2. InSegment(d.segment, e)'
        BY <1>4, <2>4, <3>1 DEF InSegment
      <3> QED  BY <3>1, <3>2 DEF Owed
    <2>5. CASE \E d \in debts : InSegment(d.segment, e)
      BY <1>4, <2>2, <2>5 DEF Owed, InSegment
    <2> QED  BY <1>0, <1>4, <1>a, <2>4, <2>5 DEF Accounted, Owed
  <1>5. CASE SyncSegment
    <2>1. UNCHANGED <<alive, critical, seg, debts, lines>>
      BY <1>5 DEF SyncSegment, observed
    <2>2. InSegment(seg, e) => Durable(e)'
      BY <1>5, SyncIsDurable
    <2> QED  BY <1>0, <1>a, <2>1, <2>2 DEF Accounted, Owed, InSegment
  <1>6. CASE SyncDirectories
    <2>1. UNCHANGED <<alive, critical, debts, lines>>
      BY <1>6 DEF SyncDirectories, observed
    <2>2. currentCritical /\ InSegment(seg, e) => Durable(e)
      BY <1>6 DEF SyncDirectories, InHand, InSegment, Durable
    <2> QED  BY <1>0, <1>a, <2>1, <2>2 DEF Accounted, Owed, InSegment
  <1>7. CASE RetryDebts
    <2>1. UNCHANGED <<alive, critical, currentCritical, seg, lines>>
      BY <1>7 DEF RetryDebts, writer
    <2>2. \A d \in debts \ debts' : InSegment(d.segment, e) => Durable(e)'
      BY <1>7, PaidIsDurable
    <2> QED  BY <1>0, <1>a, <2>1, <2>2 DEF Accounted, Owed, InSegment
  <1>8. Start \/ AppendReopen \/ Reopen =>
            \/ UNCHANGED <<alive, critical, currentCritical, seg, debts, lines>>
            \/ OpenSegment /\ ~currentCritical /\ UNCHANGED <<alive, critical, debts>>
    BY NoSegmentAssumption
    DEF Start, AppendReopen, Reopen, InHand, disk, observed
  <1>9. SyncFails \/ RenameFails \/ SyncDirectoriesFails \/ AppendShort =>
            \/ UNCHANGED <<alive, critical, currentCritical, seg, debts, lines>>
            \/ /\ \E renamed \in BOOLEAN : RecordDebt(renamed)
               /\ UNCHANGED <<alive, critical, lines>>
    BY DEF SyncFails, RenameFails, SyncDirectoriesFails, AppendShort, disk, observed
  <1>10. \/ UNCHANGED vars \/ AppendTooLarge \/ FlusherLoop \/ FlusherWake \/ Stop
         \/ (\E by \in {"tick", "final"} : FlushBegin(by)) \/ CloseBegin
         \/ RenameSegment \/ ReopenFails \/ Unlock
         => UNCHANGED <<alive, critical, currentCritical, seg, debts, lines>>
    BY
    DEF vars, AppendTooLarge, FlusherLoop, FlusherWake, Stop, FlushBegin, CloseBegin,
       RenameSegment, ReopenFails, Unlock, control, writer, urgency, disk, observed
  <1>11. ~Crash /\ ~PowerLoss
    BY <1>0 DEF Crash, PowerLoss, ProcessGone
  <1> QED
    BY <1>1, <1>2, <1>3, <1>4, <1>5, <1>6, <1>7, <1>8, <1>9, <1>10, <1>11
    DEF Next, Step, AppendStep, FlushStep, FaultStep

\* Every step keeps acknowledged events durable.
LEMMA AckedStep ==
    ASSUME TypeOK, TypeOK', CriticalAccounted, Accounted', Pending', Kept, [Next]_vars
    PROVE  acked' \subseteq critical' /\ \A e \in acked' : Durable(e)'
  <1>a. \A e \in acked : Durable(e)'
    <2> TAKE e \in acked
    <2>1. e \in Event /\ Durable(e)
      BY DEF TypeOK, ObservedTypeOK, CriticalAccounted
    <2> QED  BY <2>1, DurableStable
  <1>1. CASE acked' = acked /\ critical \subseteq critical'
    BY <1>1, <1>a DEF CriticalAccounted
  <1>2. CASE RetryDebts
    <2>1. CASE criticalPending'
      BY <1>1, <1>2, <2>1 DEF RetryDebts
    <2>2. CASE ~criticalPending'
      <3>1. acked' = critical /\ critical' = critical /\ alive'
        BY <1>2, <2>2 DEF RetryDebts
      <3>2. \A e : ~Owed(e)'
        BY <2>2 DEF Pending, Owed
      <3> QED  BY <3>1, <3>2 DEF Accounted
    <2> QED  BY <2>1, <2>2
  <1>3. CASE \E isCritical \in BOOLEAN : AppendWhole(isCritical)
    BY <1>1, <1>3 DEF AppendWhole
  <1>4. \/ UNCHANGED vars \/ Start \/ AppendReopen \/ AppendTooLarge \/ AppendShort
        \/ FlusherLoop \/ FlusherWake \/ Stop
        \/ (\E by \in {"tick", "final"} : FlushBegin(by)) \/ CloseBegin \/ SyncSegment
        \/ SyncFails \/ RenameSegment \/ RenameFails \/ SyncDirectories
        \/ SyncDirectoriesFails \/ Reopen \/ ReopenFails \/ Unlock \/ Crash \/ PowerLoss
        => acked' = acked /\ critical' = critical
    BY DEF vars, Start, AppendReopen, AppendTooLarge, AppendShort, FlusherLoop,
       FlusherWake, Stop, FlushBegin, CloseBegin, SyncSegment, SyncFails,
       RenameSegment,
       RenameFails, SyncDirectories, SyncDirectoriesFails, Reopen, ReopenFails,
       Unlock,
       Crash, PowerLoss, ProcessGone, observed
  <1> QED
    BY <1>1, <1>2, <1>3, <1>4 DEF Next, Step, AppendStep, FlushStep, FaultStep

\* Every step preserves CriticalAccounted.
LEMMA CriticalStep ==
    ASSUME TypeOK, TypeOK', InHand, Frontier, DebtsSettled, CriticalAccounted, [Next]_vars
    PROVE  CriticalAccounted'
  <1>1. Accounted /\ Pending
    BY DEF CriticalAccounted, Accounted, Pending
  <1>2. Kept
    BY KeptStep
  <1>3. Accounted' /\ Pending'
    BY <1>1, <1>2, AccountedStep, PendingStep
  <1>4. acked' \subseteq critical' /\ \A e \in acked' : Durable(e)'
    BY <1>2, <1>3, AckedStep
  <1> QED  BY <1>3, <1>4 DEF CriticalAccounted, Accounted, Pending

-----------------------------------------------------------------------------
(* The theorems *)

\* The invariant holds of a process that has not started.
LEMMA InitialInv == Init => JournalInv
  <1> SUFFICES ASSUME Init PROVE JournalInv
    OBVIOUS
  <1>1. ControlTypeOK /\ UrgencyTypeOK /\ SupervisionTypeOK
    BY DEF Init, ControlTypeOK, UrgencyTypeOK, SupervisionTypeOK
  <1>2. WriterTypeOK
    BY ZeroInBounds DEF Init, WriterTypeOK
  <1>3. DiskTypeOK
    BY ZeroInBounds DEF Init, DiskTypeOK, Place
  <1>4. ObservedTypeOK
    BY ZeroInBounds DEF Init, ObservedTypeOK
  <1>5. InHand
    BY NoSegmentAssumption DEF Init, InHand
  <1>6. Frontier
    BY DEF Init, Frontier
  <1>7. DebtsSettled
    BY DEF Init, DebtsSettled
  <1>8. CriticalAccounted
    BY DEF Init, CriticalAccounted
  <1> QED
    BY <1>1, <1>2, <1>3, <1>4, <1>5, <1>6, <1>7, <1>8 DEF JournalInv, TypeOK

\* Every step of the writer preserves JournalInv.
LEMMA JournalInvStep == ASSUME JournalInv, [Next]_vars PROVE JournalInv'
  <1> USE DEF JournalInv
  <1>1. TypeOK'
    BY TypeStep
  <1>2. InHand'
    BY InHandStep
  <1>3. Frontier'
    BY FrontierStep
  <1>4. DebtsSettled'
    BY DebtsStep
  <1>5. CriticalAccounted'
    BY <1>1, CriticalStep
  <1> QED  BY <1>1, <1>2, <1>3, <1>4, <1>5

\* The writer's bookkeeping holds in every reachable state: each part of JournalInv is
\* preserved by every step of appends, flushes, failures and deaths.
THEOREM JournalInvariant == Spec => []JournalInv
  <1>1. JournalInv /\ [Next]_vars => JournalInv'
    BY JournalInvStep
  <1> QED  BY <1>1, InitialInv, PTL DEF Spec

\* Every variable keeps to its type, and sequence numbers to MaxSeq: the open segment
\* always ends at the writer's next sequence number.
THEOREM TypeCorrect == Spec => []TypeOK
  <1>1. JournalInv => TypeOK
    BY DEF JournalInv
  <1> QED  BY <1>1, JournalInvariant, PTL

\* Who flushes, while the writer runs: its flusher alone, which then does not sleep.
Turns ==
    phase = "running" => /\ ~finalFlush /\ ~wantClose
                         /\ pc \notin {"idle", "write"} => flusher = "tick"

\* The writer lock goes from hand to hand in turn.
LEMMA TurnsStep ==
    ASSUME InHand, Turns, [Next]_vars
    PROVE  Turns'
  <1>1. CASE UNCHANGED <<phase, finalFlush, wantClose, flusher>> /\ (pc' \notin {"idle", "write"} => pc \notin {"idle", "write"})
    BY <1>1 DEF Turns
  <1>2. CASE phase' # "running"
    BY <1>2 DEF Turns
  <1>3. CASE Start \/ FlusherLoop \/ FlusherWake
    BY <1>3 DEF Turns, InHand, Start, FlusherLoop, FlusherWake, control
  <1>4. CASE (\E by \in {"tick", "final"} : FlushBegin(by)) \/ CloseBegin
    BY <1>4 DEF Turns, FlushBegin, CloseBegin, supervision
  <1>5. CASE ReopenFails \/ RetryDebts \/ Unlock
    BY <1>5 DEF Turns, ReopenFails, RetryDebts, Unlock, FlushReturns
  <1>6. Stop \/ Crash \/ PowerLoss => phase' # "running"
    BY DEF Stop, Crash, PowerLoss, ProcessGone
  <1>7. \/ UNCHANGED vars \/ AppendReopen \/ AppendTooLarge \/ AppendShort
        \/ (\E isCritical \in BOOLEAN : AppendWhole(isCritical))
        \/ SyncSegment \/ SyncFails \/ RenameSegment \/ RenameFails \/ SyncDirectories
        \/ SyncDirectoriesFails \/ Reopen
        => /\ UNCHANGED <<phase, finalFlush, wantClose, flusher>>
           /\ pc' \notin {"idle", "write"} => pc \notin {"idle", "write"}
    BY DEF vars, control, supervision, AppendReopen, AppendTooLarge, AppendShort, AppendWhole, SyncSegment,
       SyncFails, RenameSegment, RenameFails, SyncDirectories, SyncDirectoriesFails, Reopen
  <1> QED
    BY <1>1, <1>2, <1>3, <1>4, <1>5, <1>6, <1>7
    DEF Next, Step, AppendStep, FlushStep, FaultStep

\* The signal is set with what is pending, and only a flush takes it away.
LEMMA NotSleptOnStep ==
    ASSUME InHand, Pending, Turns, NotSleptOn, [Next]_vars
    PROVE  NotSleptOn'
  <1> USE DEF NotSleptOn
  <1>1. CASE UNCHANGED <<phase, flusher, interval>> /\ (criticalPending' => criticalPending) /\ flushSignal' = flushSignal
    BY <1>1
  <1>2. CASE phase' # "running" \/ flusher' # "wait"
    BY <1>2
  <1>3. CASE FlusherLoop
    BY <1>3 DEF FlusherLoop, urgency
  <1>4. CASE \E isCritical \in BOOLEAN : AppendWhole(isCritical)
    BY <1>4 DEF AppendWhole, WakesFlusher, supervision
  <1>5. Start \/ FlusherWake \/ Stop \/ Crash \/ PowerLoss => phase' # "running" \/ flusher' # "wait"
    BY DEF Start, FlusherWake, Stop, Crash, PowerLoss, ProcessGone
  <1>6. SyncDirectories \/ RetryDebts \/ ReopenFails => phase' # "running" \/ flusher' # "wait"
    BY DEF Turns, SyncDirectories, RetryDebts, ReopenFails, FlushReturns, supervision
  <1>7. ASSUME NEW renamed, RecordDebt(renamed) PROVE criticalPending' => criticalPending
    BY <1>7 DEF RecordDebt, Pending
  <1>8. AppendShort \/ SyncFails \/ RenameFails \/ SyncDirectoriesFails
        => UNCHANGED <<phase, flusher, interval, flushSignal>> /\ (criticalPending' => criticalPending)
    BY <1>7 DEF AppendShort, SyncFails, RenameFails, SyncDirectoriesFails, supervision
  <1>9. \/ UNCHANGED vars \/ AppendReopen \/ AppendTooLarge \/ (\E by \in {"tick", "final"} : FlushBegin(by))
        \/ CloseBegin \/ SyncSegment \/ RenameSegment \/ Reopen \/ Unlock
        => UNCHANGED <<phase, flusher, interval, flushSignal, criticalPending>>
    BY DEF vars, control, urgency, supervision, AppendReopen, AppendTooLarge, FlushBegin, CloseBegin,
       SyncSegment, RenameSegment, Reopen, Unlock
  <1> QED
    BY <1>1, <1>2, <1>3, <1>4, <1>5, <1>6, <1>8, <1>9
    DEF Next, Step, AppendStep, FlushStep, FaultStep

\* critical_pending never falls while an accepted critical event could still be lost,
\* for any number of epochs, events, rotations and I/O faults, and the flusher is told of
\* what is pending.
THEOREM NoObligationIsLost == Spec => []NoObligationLost
  <1> DEFINE Awake == Turns /\ NotSleptOn
  <1>1. JournalInv /\ Awake => NoObligationLost
    <2> SUFFICES ASSUME JournalInv, alive, ~criticalPending, NEW e \in critical
                 PROVE  Durable(e)
      BY DEF NoObligationLost
    <2>1. ~Owed(e)
      BY DEF JournalInv, CriticalAccounted, Owed
    <2> QED  BY <2>1 DEF JournalInv, CriticalAccounted
  <1>2. Init => Awake
    BY DEF Init, Turns, NotSleptOn
  <1>3. JournalInv /\ Awake /\ [Next]_vars => Awake'
    BY TurnsStep, NotSleptOnStep DEF JournalInv, CriticalAccounted, Pending
  <1> QED  BY <1>1, <1>2, <1>3, JournalInvariant, PTL DEF Spec

\* The writer over a file system that forgets what was not fsynced implements the
\* acknowledged log of AckLog.
THEOREM JournalImplementsAckLog == Spec => ImplementsAckLog
  <1>1. Init => Log!LogInit
    BY DEF Init, Log!LogInit
  <1>2. JournalInv /\ JournalInv' /\ [Next]_vars => [Log!LogNext]_Log!logVars
    <2> SUFFICES ASSUME JournalInv, JournalInv', [Next]_vars
                 PROVE  [Log!LogNext]_Log!logVars
      OBVIOUS
    <2>1. CASE UNCHANGED observed
      BY <2>1 DEF observed, Log!logVars
    <2>2. CASE \E isCritical \in BOOLEAN : AppendWhole(isCritical)
      <3>1. PICK isCritical \in BOOLEAN : AppendWhole(isCritical)
        BY <2>2
      <3>2. alive /\ <<epoch, nextSeq>> \in Event
        BY <3>1 DEF AppendWhole, MayAppend, JournalInv, TypeOK, WriterTypeOK, Event
      <3>3. <<epoch, nextSeq>> \notin accepted
        BY <3>2, NaturalValues DEF JournalInv, Frontier
      <3>4. Log!Accept(<<epoch, nextSeq>>, isCritical)
        BY <3>1, <3>3 DEF AppendWhole, Log!Accept
      <3> QED  BY <3>2, <3>4 DEF Log!LogNext
    <2>3. CASE RetryDebts
      <3>1. critical \subseteq accepted
        BY <2>3 DEF RetryDebts, JournalInv, Frontier
      <3>2. UNCHANGED observed \/ Log!Acknowledge
        BY <2>3, <3>1 DEF RetryDebts, observed, Log!Acknowledge
      <3> QED  BY <2>1, <3>2 DEF Log!LogNext
    <2>4. CASE PowerLoss
      <3>1. UNCHANGED <<critical, acked>> /\ accepted' \subseteq accepted
        BY <2>4 DEF PowerLoss, ProcessGone
      <3>2. \A e \in acked : e \in accepted
        BY <2>4 DEF PowerLoss, JournalInv, Frontier, CriticalAccounted
      <3>3. acked \subseteq accepted'
        <4> SUFFICES ASSUME NEW e \in acked PROVE e \in accepted'
          OBVIOUS
        <4>1. Durable(e)'
          BY <3>1 DEF JournalInv, CriticalAccounted
        <4>2. PICK f \in Segment : /\ f[1] = e[1] /\ "none" \notin maybe'[f]
                                   /\ f[2] <= e[2] /\ e[2] < f[2] + synced'[f]
          BY <4>1 DEF Durable
        <4>3. maybe'[f] = {where'[f]} /\ synced' = lines'
          BY <2>4 DEF PowerLoss
        <4> QED  BY <2>4, <3>2, <4>2, <4>3 DEF PowerLoss
      <3> QED  BY <3>1, <3>3 DEF Log!LogNext, Log!Lose
    <2>5. \/ UNCHANGED vars \/ Start \/ AppendReopen \/ AppendTooLarge \/ AppendShort
          \/ FlusherLoop \/ FlusherWake \/ Stop
          \/ (\E by \in {"tick", "final"} : FlushBegin(by)) \/ CloseBegin \/ SyncSegment
          \/ SyncFails \/ RenameSegment \/ RenameFails \/ SyncDirectories
          \/ SyncDirectoriesFails \/ Reopen \/ ReopenFails \/ Unlock \/ Crash
          => UNCHANGED observed
      BY DEF vars, Start, AppendReopen, AppendTooLarge, AppendShort, FlusherLoop,
         FlusherWake, Stop, FlushBegin, CloseBegin, SyncSegment, SyncFails,
         RenameSegment, RenameFails, SyncDirectories, SyncDirectoriesFails, Reopen,
         ReopenFails, Unlock, Crash, ProcessGone, observed
    <2> QED
      BY <2>1, <2>2, <2>3, <2>4, <2>5 DEF Next, Step, AppendStep, FlushStep, FaultStep
  <1> QED  BY <1>1, <1>2, JournalInvariant, PTL DEF Spec, ImplementsAckLog, Log!LogSpec

-----------------------------------------------------------------------------
(* The segments as their readers find them *)

\* A segment without a fragment, with events, all of them fsynced.
Whole(f) == ~torn[f] /\ lines[f] > 0 /\ synced[f] = lines[f]

\* An event is accepted when a segment holds it, and no two segments hold it.
Held == /\ \A e \in Event : e \in accepted <=> \E f \in Segment : Holds(f, e)
        /\ \A e \in Event : \A f, g \in Segment : Holds(f, e) /\ Holds(g, e) => f = g

\* The events of the current epoch are the numbers below the next one.
Numbered == alive => \A s \in SeqNo : <<epoch, s>> \in accepted <=> s < nextSeq

\* Whatever is in closed/, or may be found there after a power loss, is whole; the open
\* segment has no fragment and has not been given a name in closed/ before its rename.
ClosedWhole ==
    /\ \A f \in Segment : where[f] = "closed" \/ "closed" \in maybe[f] => Whole(f)
    /\ seg \in Segment => ~torn[seg] /\ (pc # "dirsync" => "closed" \notin maybe[seg])

\* The durable prefix is one of the open segment until its rename is being settled.
Prefix ==
    snap # NoSegment =>
        /\ seg \in Segment /\ seg = snap[1]
        /\ snap[2] <= synced[seg]
        /\ pc # "dirsync" => "none" \notin maybe[seg]

\* The inductive invariant behind SegmentsAreWhole, on top of JournalInv.
SegmentsInv == Held /\ Numbered /\ ClosedWhole /\ Prefix

\* The segment that OpenSegment takes holds nothing: an event in it would be one at or
\* beyond the next sequence number.
LEMMA OpensEmpty ==
    ASSUME TypeOK, Frontier, alive
    PROVE  <<epoch, nextSeq>> \in Segment /\ lines[<<epoch, nextSeq>>] = 0
  <1> DEFINE s == <<epoch, nextSeq>>
  <1>1. s \in Segment /\ s[1] = epoch /\ s[2] = nextSeq
    BY DEF TypeOK, WriterTypeOK, Segment
  <1>2. lines[s] > 0 => s[2] + lines[s] <= nextSeq
    BY <1>1 DEF Frontier
  <1> QED  BY <1>1, <1>2, NaturalValues

\* Opening a segment changes none but the one it opens, which was empty and still is.
LEMMA OpenLeaves ==
    ASSUME TypeOK, Frontier, alive, OpenSegment
    PROVE  LET s == <<epoch, nextSeq>> IN
           /\ seg' = s /\ s \in Segment /\ snap' = NoSegment
           /\ lines[s] = 0 /\ lines'[s] = 0 /\ synced'[s] = 0 /\ torn'[s] = FALSE
           /\ where'[s] = "active" /\ maybe'[s] = maybe[s] \union {"active"}
           /\ \A f \in Segment \ {s} :
                 /\ where'[f] = where[f] /\ maybe'[f] = maybe[f]
                 /\ lines'[f] = lines[f] /\ synced'[f] = synced[f] /\ torn'[f] = torn[f]
  <1> DEFINE s == <<epoch, nextSeq>>
  <1>1. s \in Segment /\ lines[s] = 0
    BY OpensEmpty
  <1>2. /\ where' = [where EXCEPT ![s] = "active"]
        /\ maybe' = [maybe EXCEPT ![s] = maybe[s] \union {"active"}]
        /\ lines' = [lines EXCEPT ![s] = 0]
        /\ torn' = [torn EXCEPT ![s] = FALSE]
        /\ synced' = [synced EXCEPT ![s] = 0]
        /\ seg' = s /\ snap' = NoSegment
    BY DEF OpenSegment
  <1> HIDE DEF s
  <1>3. /\ lines'[s] = 0 /\ synced'[s] = 0 /\ torn'[s] = FALSE
        /\ where'[s] = "active" /\ maybe'[s] = maybe[s] \union {"active"}
        /\ \A f \in Segment \ {s} :
              /\ where'[f] = where[f] /\ maybe'[f] = maybe[f]
              /\ lines'[f] = lines[f] /\ synced'[f] = synced[f] /\ torn'[f] = torn[f]
    BY <1>1, <1>2 DEF TypeOK, DiskTypeOK
  <1> QED  BY <1>1, <1>2, <1>3 DEF s

\* An append changes only the open segment, which lies in active/ and ends where the next
\* number begins.
LEMMA AppendLeaves ==
    ASSUME TypeOK, InHand, NEW isCritical \in BOOLEAN, AppendWhole(isCritical)
    PROVE  /\ alive /\ alive' /\ pc # "dirsync" /\ pc' # "dirsync"
           /\ seg \in Segment /\ where[seg] = "active"
           /\ seg[1] = epoch /\ nextSeq = seg[2] + lines[seg]
           /\ nextSeq' = nextSeq + 1 /\ nextSeq \in SeqNo /\ <<epoch, nextSeq>> \in Event
           /\ lines'[seg] = lines[seg] + 1
           /\ \A f \in Segment \ {seg} : lines'[f] = lines[f]
           /\ UNCHANGED <<epoch, seg, snap, where, maybe, torn, synced>>
           /\ accepted' = accepted \union {<<epoch, nextSeq>>}
  <1>1. /\ alive /\ alive' /\ pc # "dirsync" /\ pc' # "dirsync" /\ seg \in Segment
        /\ nextSeq' = nextSeq + 1 /\ lines' = [lines EXCEPT ![seg] = @ + 1]
        /\ UNCHANGED <<epoch, seg, snap, where, maybe, torn, synced>>
        /\ accepted' = accepted \union {<<epoch, nextSeq>>}
    BY SegIsSegment DEF AppendWhole, MayAppend
  <1>2. where[seg] = "active" /\ seg[1] = epoch /\ nextSeq = seg[2] + lines[seg]
    BY <1>1 DEF InHand
  <1>3. nextSeq \in SeqNo /\ <<epoch, nextSeq>> \in Event
    BY DEF TypeOK, WriterTypeOK, Event
  <1>4. lines'[seg] = lines[seg] + 1 /\ \A f \in Segment \ {seg} : lines'[f] = lines[f]
    BY <1>1 DEF TypeOK, DiskTypeOK
  <1> QED  BY <1>1, <1>2, <1>3, <1>4

\* A power loss takes lines from segments and never adds one.
LEMMA LossLeaves ==
    ASSUME TypeOK, InHand, Frontier, PowerLoss
    PROVE  /\ ~alive' /\ seg' = NoSegment /\ snap' = NoSegment
           /\ \A f \in Segment :
                 /\ lines'[f] <= lines[f] /\ synced'[f] = lines'[f]
                 /\ synced[f] = lines[f] => lines'[f] = lines[f] /\ torn'[f] = torn[f]
                 /\ where'[f] = where[f] \/ where'[f] \in maybe[f]
                 /\ maybe'[f] = {where'[f]}
                 /\ lines'[f] > 0 => where[f] # "none"
           /\ \A e \in Event : e \in accepted' <=>
                 e \in accepted /\ \E f \in Segment : Holds(f, e)'
  <1>1. PICK lost \in SUBSET Unsynced, w \in [Uncertain -> Place] :
           /\ \A f \in Uncertain : w[f] \in maybe[f]
           /\ where' = [f \in Segment |-> IF f \in Uncertain THEN w[f] ELSE where[f]]
           /\ lines' = [f \in Segment |-> IF f \in lost THEN synced[f] ELSE lines[f]]
           /\ \E fragments \in {{}, lost} :
                 torn' = [f \in Segment |-> IF f \in lost THEN f \in fragments ELSE torn[f]]
    BY DEF PowerLoss
  <1>2. /\ ~alive' /\ seg' = NoSegment /\ snap' = NoSegment /\ alive
        /\ maybe' = [f \in Segment |-> {where'[f]}] /\ synced' = lines'
    BY DEF PowerLoss, ProcessGone
  <1>3. \A f \in Segment : f \in lost => synced[f] # lines[f]
    BY NaturalValues DEF Unsynced
  <1>4. \A f \in Segment : lines'[f] <= lines[f]
    BY <1>1, NaturalValues DEF Frontier
  <1>5. \A f \in Segment : lines'[f] > 0 => where[f] # "none"
    <2> TAKE f \in Segment
    <2>1. lines'[f] \in Nat
      BY <1>1, NaturalValues
    <2>2. lines'[f] > 0 => lines[f] > 0
      BY <2>1, <1>4, NaturalValues
    <2> QED  BY <1>2, <2>2 DEF Frontier
  <1>6. \A e \in Event : e \in accepted' <=>
                 e \in accepted /\ \E f \in Segment : Holds(f, e)'
    BY DEF PowerLoss, Holds
  <1>7. \A f \in Segment : where'[f] = where[f] \/ where'[f] \in maybe[f]
    BY <1>1
  <1>8. \A f \in Segment : synced[f] = lines[f] => lines'[f] = lines[f] /\ torn'[f] = torn[f]
    BY <1>1, <1>3
  <1>9. \A f \in Segment : synced'[f] = lines'[f] /\ maybe'[f] = {where'[f]}
    BY <1>2
  <1> QED  BY <1>2, <1>4, <1>5, <1>6, <1>7, <1>8, <1>9

\* The steps that neither append nor lose power: they leave every event in the segment
\* that holds it, and go to a next number only with a new epoch.
LEMMA HoldsStays ==
    ASSUME TypeOK, InHand, Frontier, [Next]_vars,
           ~\E isCritical \in BOOLEAN : AppendWhole(isCritical), ~PowerLoss
    PROVE  /\ accepted' = accepted
           /\ \A f \in Segment, e \in Event : Holds(f, e)' <=> Holds(f, e)
           /\ alive' => \/ UNCHANGED <<alive, epoch, nextSeq>>
                        \/ alive /\ epoch' = epoch + 1 /\ nextSeq' = 0
  <1>1. CASE UNCHANGED <<where, lines, accepted>> /\ (alive' => UNCHANGED <<alive, epoch, nextSeq>>)
    BY <1>1 DEF Holds
  <1>2. CASE OpenSegment /\ alive /\ UNCHANGED <<alive, epoch, nextSeq, accepted>>
    <2> DEFINE s == <<epoch, nextSeq>>
    <2>1. /\ s \in Segment /\ lines[s] = 0 /\ lines'[s] = 0
          /\ \A f \in Segment \ {s} : where'[f] = where[f] /\ lines'[f] = lines[f]
      BY <1>2, OpenLeaves
    <2> HIDE DEF s
    <2>2. ASSUME NEW f \in Segment, NEW e \in Event
          PROVE  Holds(f, e)' <=> Holds(f, e)
      <3>1. CASE f = s
        <4>1. f[2] \in Nat /\ e[2] \in Nat /\ lines[f] = 0 /\ lines'[f] = 0
          BY <2>1, <3>1, NaturalValues
        <4>2. ~(f[2] <= e[2] /\ e[2] < f[2] + 0)
          BY <4>1
        <4> QED  BY <4>1, <4>2 DEF Holds
      <3>2. CASE f # s
        BY <2>1, <3>2 DEF Holds
      <3> QED  BY <3>1, <3>2
    <2> QED  BY <1>2, <2>2
  <1>3. CASE RenameSegment
    <2>1. /\ seg \in Segment /\ where[seg] = "active"
          /\ where' = [where EXCEPT ![seg] = CloseTarget(seg)]
          /\ UNCHANGED <<alive, epoch, nextSeq, lines, accepted>>
      BY <1>3 DEF RenameSegment, InHand, writer, observed
    <2>2. /\ \A f \in Segment \ {seg} : where'[f] = where[f]
          /\ where'[seg] = CloseTarget(seg)
      BY <2>1 DEF TypeOK, DiskTypeOK
    <2>3. ASSUME NEW f \in Segment, NEW e \in Event
          PROVE  Holds(f, e)' <=> Holds(f, e)
      <3>1. CASE f = seg /\ lines[f] = 0
        <4>1. f[2] \in Nat /\ e[2] \in Nat
          BY NaturalValues
        <4>2. ~(f[2] <= e[2] /\ e[2] < f[2] + 0)
          BY <4>1
        <4> QED  BY <2>1, <3>1, <4>2 DEF Holds
      <3>2. CASE f = seg /\ lines[f] # 0
        BY <2>1, <2>2, <3>2 DEF Holds, CloseTarget
      <3>3. CASE f # seg
        BY <2>1, <2>2, <3>3 DEF Holds
      <3> QED  BY <3>1, <3>2, <3>3
    <2> QED  BY <2>1, <2>3
  <1>4. CASE AppendShort
    <2>1. /\ UNCHANGED <<alive, where, lines, accepted>> /\ alive
          /\ epoch' = epoch + 1 /\ nextSeq' = 0
      BY <1>4 DEF AppendShort, MayAppend, AbandonSegment, NextProducer, observed
    <2> QED  BY <2>1 DEF Holds
  <1>5. Start \/ AppendReopen \/ Reopen =>
            \/ UNCHANGED <<where, lines, accepted, alive, epoch, nextSeq>>
            \/ OpenSegment /\ alive /\ UNCHANGED <<alive, epoch, nextSeq, accepted>>
    BY DEF Start, AppendReopen, MayAppend, Reopen, disk, observed
  <1>6. Crash => UNCHANGED <<where, lines, accepted>> /\ ~alive'
    BY DEF Crash, ProcessGone, disk
  <1>7. \/ UNCHANGED vars \/ AppendTooLarge \/ FlusherLoop \/ FlusherWake \/ Stop
        \/ (\E by \in {"tick", "final"} : FlushBegin(by)) \/ CloseBegin
        \/ SyncSegment \/ SyncFails \/ RenameFails \/ SyncDirectories
        \/ SyncDirectoriesFails \/ ReopenFails \/ RetryDebts \/ Unlock
        => UNCHANGED <<where, lines, accepted, alive, epoch, nextSeq>>
    BY
    DEF vars, AppendTooLarge, FlusherLoop, FlusherWake, Stop, FlushBegin, CloseBegin,
       SyncSegment, SyncFails, RenameFails, SyncDirectories, SyncDirectoriesFails,
       ReopenFails, RetryDebts, Unlock, control, writer, disk, observed
  <1> QED
    BY <1>1, <1>2, <1>3, <1>4, <1>5, <1>6, <1>7
    DEF Next, Step, AppendStep, FlushStep, FaultStep

\* Every step preserves Held: an append puts its event into the open segment and no other
\* can hold a number that had not been given.
LEMMA HeldStep ==
    ASSUME TypeOK, InHand, Frontier, Held, [Next]_vars
    PROVE  Held'
  <1>1. CASE ~(\E isCritical \in BOOLEAN : AppendWhole(isCritical)) /\ ~PowerLoss
    BY <1>1, HoldsStays DEF Held
  <1>2. CASE \E isCritical \in BOOLEAN : AppendWhole(isCritical)
    <2> DEFINE n == <<epoch, nextSeq>>
    <2>1. PICK isCritical \in BOOLEAN : AppendWhole(isCritical)
      BY <1>2
    <2>2. n \in Event /\ n[1] = epoch /\ n[2] = nextSeq /\ accepted' = accepted \union {n}
      BY <2>1, AppendLeaves
    <2> HIDE DEF n
    <2>3. \A e \in Event : e = n <=> e[1] = epoch /\ e[2] = nextSeq
      BY <2>2 DEF Event
    <2>4. \A e \in Event : Holds(seg, e)' <=> Holds(seg, e) \/ e = n
      <3> TAKE e \in Event
      <3>1. /\ seg \in Segment /\ seg' = seg /\ seg[1] = epoch /\ where[seg] = "active"
            /\ where'[seg] = "active"
            /\ nextSeq = seg[2] + lines[seg] /\ lines'[seg] = lines[seg] + 1
        BY <2>1, AppendLeaves
      <3>2. /\ seg[2] \in Nat /\ lines[seg] \in Nat /\ e[2] \in Nat
        BY <3>1, NaturalValues
      <3>3. seg[2] <= e[2] /\ e[2] < seg[2] + lines'[seg]
            <=> (seg[2] <= e[2] /\ e[2] < seg[2] + lines[seg]) \/ e[2] = nextSeq
        BY <3>1, <3>2
      <3> QED  BY <2>3, <3>1, <3>3 DEF Holds
    <2>5. \A f \in Segment \ {seg}, e \in Event : Holds(f, e)' <=> Holds(f, e)
      BY <2>1, AppendLeaves DEF Holds
    <2>6. \A f \in Segment : ~Holds(f, n)
      <3> SUFFICES ASSUME NEW f \in Segment, Holds(f, n) PROVE FALSE
        OBVIOUS
      <3>1. f[1] = epoch /\ f[2] <= nextSeq /\ nextSeq < f[2] + lines[f]
        BY <2>2 DEF Holds
      <3>2. lines[f] > 0
        BY <3>1, NaturalValues
      <3>3. alive
        BY <2>1, AppendLeaves
      <3>4. f[2] + lines[f] <= nextSeq
        BY <3>1, <3>2, <3>3 DEF Frontier
      <3> QED  BY <3>1, <3>4, NaturalValues
    <2>7. seg \in Segment /\ seg' = seg
      BY <2>1, AppendLeaves
    <2> QED  BY <2>2, <2>4, <2>5, <2>6, <2>7 DEF Held
  <1>3. CASE PowerLoss
    <2>1. \A f \in Segment, e \in Event : Holds(f, e)' => Holds(f, e)
      <3> TAKE f \in Segment, e \in Event
      <3>1. lines'[f] <= lines[f] /\ (lines'[f] > 0 => where[f] # "none")
        BY <1>3, LossLeaves
      <3>2. TypeOK'
        BY <1>3, PowerLossTypes
      <3>3. lines'[f] \in Nat /\ lines[f] \in Nat /\ f[2] \in Nat /\ e[2] \in Nat
        BY <3>2, NaturalValues, BoundsAssumption
        DEF TypeOK, DiskTypeOK, SeqNo, BoundsAssumption
      <3> QED  BY <3>1, <3>3 DEF Holds
    <2>2. \A e \in Event : e \in accepted' <=> \E f \in Segment : Holds(f, e)'
      BY <1>3, <2>1, LossLeaves DEF Held
    <2> QED  BY <2>1, <2>2 DEF Held
  <1> QED  BY <1>1, <1>2, <1>3

\* Every step preserves Numbered.
LEMMA NumberedStep ==
    ASSUME TypeOK, InHand, Frontier, Numbered, [Next]_vars
    PROVE  Numbered'
  <1>1. CASE ~(\E isCritical \in BOOLEAN : AppendWhole(isCritical)) /\ ~PowerLoss
    <2> SUFFICES ASSUME alive', NEW s \in SeqNo
                 PROVE  (<<epoch', s>> \in accepted') <=> s < nextSeq'
      BY DEF Numbered
    <2>1. accepted' = accepted
      BY <1>1, HoldsStays
    <2>2. CASE UNCHANGED <<alive, epoch, nextSeq>>
      BY <2>1, <2>2 DEF Numbered
    <2>3. CASE alive /\ epoch' = epoch + 1 /\ nextSeq' = 0
      <3>1. ~(s < 0)
        BY BoundsAssumption DEF SeqNo, BoundsAssumption
      <3>2. ASSUME <<epoch + 1, s>> \in accepted PROVE FALSE
        <4>1. epoch + 1 < epoch \/ epoch + 1 = epoch
          BY <2>3, <3>2 DEF Frontier
        <4> QED  BY <4>1, NaturalValues
      <3> QED  BY <2>1, <2>3, <3>1, <3>2
    <2> QED  BY <1>1, <2>2, <2>3, HoldsStays
  <1>2. CASE \E isCritical \in BOOLEAN : AppendWhole(isCritical)
    <2>1. PICK isCritical \in BOOLEAN : AppendWhole(isCritical)
      BY <1>2
    <2>2. /\ alive /\ epoch' = epoch /\ nextSeq' = nextSeq + 1 /\ nextSeq \in SeqNo
          /\ accepted' = accepted \union {<<epoch, nextSeq>>}
      BY <2>1, AppendLeaves
    <2>3. \A s \in SeqNo : s \in Nat
      BY BoundsAssumption DEF SeqNo, BoundsAssumption
    <2>4. \A s \in SeqNo : s < nextSeq + 1 <=> s < nextSeq \/ s = nextSeq
      BY <2>2, <2>3
    <2> QED  BY <2>2, <2>4 DEF Numbered
  <1>3. CASE PowerLoss
    BY <1>3, LossLeaves DEF Numbered
  <1> QED  BY <1>1, <1>2, <1>3

\* A directory fsync leaves each name it covers at one place the name already had.
LEMMA DirSyncsNarrow ==
    ASSUME TypeOK, NEW f \in Segment
    PROVE  /\ ActiveDirSynced(maybe, where)[f] \subseteq maybe[f] \union {where[f]}
           /\ ClosedDirSynced(maybe, where)[f] \subseteq maybe[f] \union {where[f]}
           /\ ActiveDirSynced(ClosedDirSynced(maybe, where), where)[f]
                 \subseteq maybe[f] \union {where[f]}
  BY DEF ActiveDirSynced, ClosedDirSynced

\* A step that keeps every file's lines and place, fsyncs some, and narrows where they
\* may be after a power loss keeps what is in closed/ whole.
LEMMA NarrowingKeeps ==
    ASSUME TypeOK, ClosedWhole,
           UNCHANGED <<where, lines, torn>>,
           \A f \in Segment : /\ synced'[f] = synced[f] \/ synced'[f] = lines[f]
                              /\ maybe'[f] \subseteq maybe[f] \union {where[f]},
           seg' = NoSegment \/ (seg' = seg /\ pc # "dirsync" /\ where[seg] # "closed"),
           TypeOK'
    PROVE  ClosedWhole'
  <1>1. \A f \in Segment : (where[f] = "closed" \/ "closed" \in maybe[f] => Whole(f))'
    BY DEF ClosedWhole, Whole
  <1>2. (seg \in Segment => ~torn[seg] /\ (pc # "dirsync" => "closed" \notin maybe[seg]))'
    BY NoSegmentAssumption DEF ClosedWhole
  <1> QED  BY <1>1, <1>2 DEF ClosedWhole

\* Every step preserves ClosedWhole: a segment gets its name in closed/ when it has been
\* fsynced and nothing will be appended to it, and a damaged one never does.
LEMMA ClosedStep ==
    ASSUME TypeOK, TypeOK', InHand, Frontier, ClosedWhole, [Next]_vars
    PROVE  ClosedWhole'
  <1>1. CASE UNCHANGED <<where, lines, torn, synced, maybe, seg>> /\ (pc' = pc \/ pc # "dirsync")
    BY <1>1 DEF ClosedWhole, Whole
  <1>2. CASE OpenSegment /\ alive
    <2> DEFINE s == <<epoch, nextSeq>>
    <2>1. /\ s \in Segment /\ seg' = s /\ lines[s] = 0 /\ torn'[s] = FALSE
          /\ where'[s] = "active" /\ maybe'[s] = maybe[s] \union {"active"}
          /\ \A f \in Segment \ {s} :
                /\ where'[f] = where[f] /\ maybe'[f] = maybe[f]
                /\ lines'[f] = lines[f] /\ synced'[f] = synced[f] /\ torn'[f] = torn[f]
      BY <1>2, OpenLeaves
    <2> HIDE DEF s
    <2>2. "closed" \notin maybe'[s]
      BY <2>1 DEF ClosedWhole, Whole
    <2> QED  BY <2>1, <2>2 DEF ClosedWhole, Whole
  <1>3. CASE \E isCritical \in BOOLEAN : AppendWhole(isCritical)
    <2>1. PICK isCritical \in BOOLEAN : AppendWhole(isCritical)
      BY <1>3
    <2>2. /\ pc # "dirsync" /\ seg \in Segment /\ where[seg] = "active"
          /\ \A f \in Segment \ {seg} : lines'[f] = lines[f]
          /\ UNCHANGED <<seg, where, maybe, torn, synced>>
      BY <2>1, AppendLeaves
    <2>3. "closed" \notin maybe[seg]
      BY <2>2 DEF ClosedWhole
    <2> QED  BY <2>2, <2>3 DEF ClosedWhole, Whole
  <1>4. CASE AppendShort
    <2>1. /\ seg \in Segment /\ where[seg] = "active" /\ pc # "dirsync"
          /\ \E fragment \in BOOLEAN : torn' = [torn EXCEPT ![seg] = fragment]
          /\ seg' = NoSegment /\ UNCHANGED <<where, maybe, lines, synced>>
      BY <1>4, SegIsSegment DEF AppendShort, MayAppend, InHand, AbandonSegment, DropHandles
    <2>2. \A f \in Segment \ {seg} : torn'[f] = torn[f]
      BY <2>1 DEF TypeOK, DiskTypeOK
    <2>3. "closed" \notin maybe[seg]
      BY <2>1 DEF ClosedWhole
    <2> QED  BY <2>1, <2>2, <2>3, NoSegmentAssumption DEF ClosedWhole, Whole
  <1>5. CASE RenameSegment
    <2>1. /\ seg \in Segment /\ synced[seg] = lines[seg] /\ pc' = "dirsync"
          /\ where' = [where EXCEPT ![seg] = CloseTarget(seg)]
          /\ maybe' = [maybe EXCEPT ![seg] = maybe[seg] \union {CloseTarget(seg)}]
          /\ UNCHANGED <<seg, lines, torn, synced>> /\ pc # "dirsync"
      BY <1>5 DEF RenameSegment, InHand, writer
    <2>2. /\ where'[seg] = CloseTarget(seg)
          /\ maybe'[seg] = maybe[seg] \union {CloseTarget(seg)}
          /\ \A f \in Segment \ {seg} : where'[f] = where[f] /\ maybe'[f] = maybe[f]
      BY <2>1 DEF TypeOK, DiskTypeOK
    <2>3. ~torn[seg] /\ "closed" \notin maybe[seg]
      BY <2>1 DEF ClosedWhole
    <2>4. CloseTarget(seg) = "closed" => lines[seg] > 0
      BY <2>1, NaturalValues DEF CloseTarget
    <2> QED  BY <2>1, <2>2, <2>3, <2>4 DEF ClosedWhole, Whole
  <1>6. CASE SyncSegment
    <2>1. seg \in Segment /\ where[seg] = "active" /\ pc # "dirsync"
      BY <1>6 DEF SyncSegment, InHand
    <2>2. /\ UNCHANGED <<where, lines, torn, seg>>
          /\ \A f \in Segment : synced'[f] = synced[f] \/ synced'[f] = lines[f]
          /\ maybe' = ActiveDirSynced(maybe, where)
      BY <1>6, <2>1 DEF SyncSegment, TypeOK, DiskTypeOK
    <2> QED  BY <2>1, <2>2, DirSyncsNarrow, NarrowingKeeps
  <1>7. CASE SyncFails
    <2>1. seg \in Segment /\ where[seg] = "active" /\ pc # "dirsync"
      BY <1>7 DEF SyncFails, InHand
    <2>2. /\ UNCHANGED <<where, lines, torn, maybe>>
          /\ \A f \in Segment : synced'[f] = synced[f] \/ synced'[f] = lines[f]
          /\ seg' = NoSegment \/ seg' = seg
      BY <1>7, <2>1 DEF SyncFails, DropHandles, TypeOK, DiskTypeOK
    <2> QED  BY <2>1, <2>2, NarrowingKeeps
  <1>8. CASE RenameFails \/ SyncDirectories \/ SyncDirectoriesFails
    <2>1. /\ UNCHANGED <<where, lines, torn, synced>> /\ seg' = NoSegment
          /\ \/ maybe' = maybe
             \/ maybe' = ClosedDirSynced(maybe, where)
             \/ maybe' = ActiveDirSynced(ClosedDirSynced(maybe, where), where)
      BY <1>8 DEF RenameFails, SyncDirectories, SyncDirectoriesFails, DropHandles, disk
    <2> QED  BY <2>1, DirSyncsNarrow, NarrowingKeeps
  <1>9. CASE RetryDebts
    <2>1. /\ UNCHANGED <<where, lines, torn, seg>> /\ pc # "dirsync"
          /\ \A f \in Segment : synced'[f] = synced[f] \/ synced'[f] = lines[f]
          /\ \/ maybe' = maybe
             \/ maybe' = ActiveDirSynced(maybe, where)
             \/ maybe' = ActiveDirSynced(ClosedDirSynced(maybe, where), where)
      BY <1>9 DEF RetryDebts, writer
    <2>2. seg = NoSegment \/ where[seg] # "closed"
      BY <2>1 DEF TypeOK, WriterTypeOK, InHand
    <2> QED  BY <2>1, <2>2, DirSyncsNarrow, NarrowingKeeps
  <1>10. CASE PowerLoss
    BY <1>10, LossLeaves, NoSegmentAssumption DEF ClosedWhole, Whole
  <1>11. CASE Crash
    BY <1>11, NoSegmentAssumption DEF Crash, ProcessGone, disk, ClosedWhole, Whole
  <1>12. Start \/ AppendReopen \/ Reopen =>
            \/ UNCHANGED <<where, lines, torn, synced, maybe, seg>> /\ pc' = pc
            \/ OpenSegment /\ alive
    BY DEF Start, AppendReopen, MayAppend, Reopen, disk
  <1>13. \/ UNCHANGED vars \/ AppendTooLarge \/ FlusherLoop \/ FlusherWake \/ Stop
         \/ (\E by \in {"tick", "final"} : FlushBegin(by)) \/ CloseBegin
         \/ ReopenFails \/ Unlock
         => /\ UNCHANGED <<where, lines, torn, synced, maybe, seg>>
            /\ pc' = pc \/ pc # "dirsync"
    BY
    DEF vars, AppendTooLarge, FlusherLoop, FlusherWake, Stop, FlushBegin, CloseBegin,
       ReopenFails, Unlock, control, writer, disk
  <1> QED
    BY <1>1, <1>2, <1>3, <1>4, <1>5, <1>6, <1>7, <1>8, <1>9, <1>10, <1>11, <1>12, <1>13
    DEF Next, Step, AppendStep, FlushStep, FaultStep

\* Every step preserves Prefix: only an fsync of the open segment sets the prefix, and
\* whatever gives that segment up takes the prefix away.
LEMMA PrefixStep ==
    ASSUME TypeOK, InHand, Frontier, Prefix, [Next]_vars
    PROVE  Prefix'
  <1>1. CASE snap' = NoSegment
    BY <1>1 DEF Prefix
  <1>2. CASE UNCHANGED <<snap, seg, synced, maybe>> /\ (pc' = pc \/ pc # "dirsync")
    BY <1>2 DEF Prefix
  <1>3. CASE SyncSegment
    <2>1. /\ seg \in Segment /\ where[seg] = "active" /\ seg' = seg
          /\ synced' = [synced EXCEPT ![seg] = lines[seg]]
          /\ maybe' = ActiveDirSynced(maybe, where)
          /\ snap' = snap \/ snap' = <<seg, lines[seg]>>
      BY <1>3 DEF SyncSegment, InHand
    <2>2. synced'[seg] = lines[seg] /\ "none" \notin maybe'[seg]
      BY <2>1 DEF TypeOK, DiskTypeOK, ActiveDirSynced
    <2>3. snap # NoSegment => snap[2] <= lines[seg]
      <3> HAVE snap # NoSegment
      <3>1. snap[2] \in Nat
        BY BoundsAssumption DEF TypeOK, WriterTypeOK, SeqNo, BoundsAssumption
      <3>2. snap[2] <= synced[seg] /\ synced[seg] <= lines[seg]
        BY <2>1 DEF Prefix, Frontier
      <3> QED  BY <2>1, <3>1, <3>2, NaturalValues
    <2>4. snap' # NoSegment => seg = snap'[1] /\ snap'[2] <= lines[seg]
      BY <2>1, <2>3, NaturalValues DEF Prefix
    <2> QED  BY <2>1, <2>2, <2>4 DEF Prefix
  <1>4. CASE SyncFails
    <2>1. seg \in Segment /\ pc # "dirsync"
      BY <1>4 DEF SyncFails, InHand
    <2>2. CASE UNCHANGED <<seg, snap, maybe>>
      <3>1. synced'[seg] = synced[seg] \/ synced'[seg] = lines[seg]
        BY <1>4, <2>1 DEF SyncFails, TypeOK, DiskTypeOK
      <3>2. snap # NoSegment => snap[2] <= synced'[seg]
        <4> HAVE snap # NoSegment
        <4>1. snap[2] \in Nat
          BY BoundsAssumption DEF TypeOK, WriterTypeOK, SeqNo, BoundsAssumption
        <4>2. snap[2] <= synced[seg] /\ synced[seg] <= lines[seg]
          BY <2>1 DEF Prefix, Frontier
        <4> QED  BY <2>1, <3>1, <4>1, <4>2, NaturalValues
      <3> QED  BY <2>1, <2>2, <3>2 DEF Prefix
    <2> QED  BY <1>1, <1>4, <2>2 DEF SyncFails, DropHandles
  <1>5. CASE RenameSegment
    <2>1. /\ seg \in Segment /\ pc # "dirsync" /\ pc' = "dirsync"
          /\ UNCHANGED <<seg, snap, synced>>
      BY <1>5 DEF RenameSegment, InHand, writer
    <2> QED  BY <2>1 DEF Prefix
  <1>6. CASE RetryDebts
    <2>1. /\ UNCHANGED <<seg, snap, lines, where>> /\ pc # "dirsync"
          /\ \A f \in Segment : synced'[f] = synced[f] \/ synced'[f] = lines[f]
          /\ \/ maybe' = maybe
             \/ maybe' = ActiveDirSynced(maybe, where)
             \/ maybe' = ActiveDirSynced(ClosedDirSynced(maybe, where), where)
      BY <1>6 DEF RetryDebts, writer
    <2> SUFFICES ASSUME snap # NoSegment PROVE Prefix'
      BY <1>1, <2>1
    <2>2. /\ seg \in Segment /\ seg = snap[1] /\ snap[2] <= synced[seg]
          /\ "none" \notin maybe[seg] /\ synced[seg] <= lines[seg]
      BY <2>1 DEF Prefix, Frontier
    <2>3. snap[2] \in Nat
      BY BoundsAssumption DEF TypeOK, WriterTypeOK, SeqNo, BoundsAssumption
    <2>4. snap[2] <= synced'[seg]
      BY <2>1, <2>2, <2>3, NaturalValues
    <2>5. where[seg] = "active"
      BY <2>1, <2>2 DEF InHand
    <2>6. "none" \notin maybe'[seg]
      BY <2>1, <2>2, <2>5, DirSyncsNarrow
    <2> QED  BY <2>1, <2>2, <2>4, <2>6 DEF Prefix
  <1>7. CASE \E isCritical \in BOOLEAN : AppendWhole(isCritical)
    BY <1>2, <1>7, AppendLeaves
  <1>8. \/ Crash \/ PowerLoss \/ AppendShort
        \/ RenameFails \/ SyncDirectories \/ SyncDirectoriesFails
        => snap' = NoSegment
    BY DEF Crash, PowerLoss, ProcessGone, AppendShort, AbandonSegment, DropHandles,
       RenameFails, SyncDirectories, SyncDirectoriesFails
  <1>9. Start \/ AppendReopen \/ Reopen =>
            \/ UNCHANGED <<snap, seg, synced, maybe>> /\ pc' = pc
            \/ snap' = NoSegment
    BY DEF Start, AppendReopen, Reopen, OpenSegment, disk
  <1>10. \/ UNCHANGED vars \/ AppendTooLarge \/ FlusherLoop \/ FlusherWake \/ Stop
         \/ (\E by \in {"tick", "final"} : FlushBegin(by)) \/ CloseBegin
         \/ ReopenFails \/ Unlock
         => /\ UNCHANGED <<snap, seg, synced, maybe>>
            /\ pc' = pc \/ pc # "dirsync"
    BY
    DEF vars, AppendTooLarge, FlusherLoop, FlusherWake, Stop, FlushBegin, CloseBegin,
       ReopenFails, Unlock, control, writer, disk
  <1>11. CASE \/ UNCHANGED vars \/ AppendTooLarge \/ FlusherLoop \/ FlusherWake \/ Stop
              \/ (\E by \in {"tick", "final"} : FlushBegin(by)) \/ CloseBegin
              \/ ReopenFails \/ Unlock
    BY <1>2, <1>10, <1>11
  <1>12. CASE Start \/ AppendReopen \/ Reopen
    BY <1>1, <1>2, <1>9, <1>12
  <1> QED
    BY <1>1, <1>3, <1>4, <1>5, <1>6, <1>7, <1>8, <1>11, <1>12
    DEF Next, Step, AppendStep, FlushStep, FaultStep

\* Before the process starts there is no segment.
LEMMA InitialSegments == Init => SegmentsInv
  <1> SUFFICES ASSUME Init PROVE SegmentsInv
    OBVIOUS
  <1>1. Held
    BY DEF Init, Held, Holds
  <1>2. Numbered
    BY BoundsAssumption DEF Init, Numbered, SeqNo, BoundsAssumption
  <1>3. ClosedWhole /\ Prefix
    BY NoSegmentAssumption DEF Init, ClosedWhole, Prefix
  <1> QED  BY <1>1, <1>2, <1>3 DEF SegmentsInv

\* What readers rely on holds in every reachable state of the writer and its disk.
THEOREM SegmentsInvariant == Spec => []SegmentsInv
  <1>1. JournalInv /\ JournalInv' /\ SegmentsInv /\ [Next]_vars => SegmentsInv'
    BY HeldStep, NumberedStep, ClosedStep, PrefixStep DEF JournalInv, SegmentsInv
  <1> QED  BY <1>1, InitialSegments, JournalInvariant, PTL DEF Spec

\* A set with exactly one element has cardinality 1, an empty one 0.
LEMMA OneOrNone ==
    ASSUME NEW S, \A x, y \in S : x = y
    PROVE  Cardinality(S) = IF \E x \in S : TRUE THEN 1 ELSE 0
  <1>1. CASE S = {}
    BY <1>1, FS_EmptySet
  <1>2. CASE S # {}
    <2>1. PICK x : x \in S
      BY <1>2
    <2>2. S = {x}
      BY <2>1
    <2> QED  BY <2>1, <2>2, FS_Singleton
  <1> QED  BY <1>1, <1>2

\* Readers, the compactor and the checkpoint sink find whole segments: each accepted event
\* in exactly one of them, numbered without a gap, nothing but complete fsynced lines in
\* closed/, and a durable prefix that no power loss can shorten.
THEOREM SegmentsAreAlwaysWhole == Spec => []SegmentsAreWhole
  <1>1. JournalInv /\ SegmentsInv => SegmentsAreWhole
    <2> SUFFICES ASSUME JournalInv, SegmentsInv PROVE SegmentsAreWhole
      OBVIOUS
    <2>1. LogExact
      <3>1. ASSUME NEW e \in Event
            PROVE  Cardinality({f \in Segment : Holds(f, e)}) = IF e \in accepted THEN 1 ELSE 0
        <4> DEFINE S == {f \in Segment : Holds(f, e)}
        <4>1. \A x, y \in S : x = y
          BY DEF SegmentsInv, Held
        <4>2. e \in accepted <=> \E x \in S : TRUE
          BY DEF SegmentsInv, Held
        <4> HIDE DEF S
        <4>3. Cardinality(S) = IF e \in accepted THEN 1 ELSE 0
          BY <4>1, <4>2, OneOrNone
        <4> QED  BY <4>3 DEF S
      <3> QED  BY <3>1 DEF LogExact, SegmentsInv, Numbered
    <2>2. ClosedIsWhole
      BY DEF SegmentsInv, ClosedWhole, ClosedIsWhole, Whole
    <2>3. SnapshotDurable
      BY DEF SegmentsInv, Prefix, JournalInv, InHand, SnapshotDurable, SnapshotAvailable
    <2> QED  BY <2>1, <2>2, <2>3 DEF SegmentsAreWhole
  <1> QED  BY <1>1, JournalInvariant, SegmentsInvariant, PTL

\* Once a write has left a fragment the segment never grows again while it is in active/:
\* an append goes to the open segment, and the open segment has no fragment.
THEOREM FragmentsEndSegments == Spec => NothingBehindFragment
  <1>1. JournalInv /\ JournalInv' /\ SegmentsInv /\ [Next]_vars =>
            [\A f \in Segment : torn[f] /\ where[f] = "active" => lines'[f] <= lines[f]]_vars
    <2> SUFFICES ASSUME JournalInv, JournalInv', SegmentsInv, [Next]_vars,
                        NEW f \in Segment, torn[f]
                 PROVE  lines'[f] <= lines[f]
      OBVIOUS
    <2> USE DEF JournalInv
    <2>0. lines[f] \in Nat
      BY NaturalValues
    <2>1. CASE lines'[f] = lines[f]
      BY <2>0, <2>1
    <2>2. CASE OpenSegment /\ alive
      <3>1. f = <<epoch, nextSeq>> \/ lines'[f] = lines[f]
        BY <2>2, OpenLeaves
      <3>2. lines'[<<epoch, nextSeq>>] = 0
        BY <2>2, OpenLeaves
      <3> QED  BY <2>0, <3>1, <3>2
    <2>3. CASE \E isCritical \in BOOLEAN : AppendWhole(isCritical)
      <3>1. seg \in Segment /\ \A g \in Segment \ {seg} : lines'[g] = lines[g]
        BY <2>3, AppendLeaves
      <3>2. ~torn[seg]
        BY <3>1 DEF SegmentsInv, ClosedWhole
      <3> QED  BY <2>0, <3>1, <3>2
    <2>4. CASE PowerLoss
      BY <2>4, LossLeaves
    <2>5. Start \/ AppendReopen \/ Reopen => lines' = lines \/ (OpenSegment /\ alive)
      BY DEF Start, AppendReopen, MayAppend, Reopen, disk
    <2>6. \/ UNCHANGED vars \/ AppendTooLarge \/ AppendShort \/ FlusherLoop \/ FlusherWake
          \/ Stop \/ (\E by \in {"tick", "final"} : FlushBegin(by)) \/ CloseBegin
          \/ SyncSegment \/ SyncFails \/ RenameSegment \/ RenameFails \/ SyncDirectories
          \/ SyncDirectoriesFails \/ ReopenFails \/ RetryDebts \/ Unlock \/ Crash
          => lines' = lines
      BY
      DEF vars, AppendTooLarge, AppendShort, FlusherLoop, FlusherWake, Stop, FlushBegin,
         CloseBegin, SyncSegment, SyncFails, RenameSegment, RenameFails,
         SyncDirectories, SyncDirectoriesFails, ReopenFails, RetryDebts, Unlock, Crash,
         disk
    <2> QED
      BY <2>1, <2>2, <2>3, <2>4, <2>5, <2>6
      DEF Next, Step, AppendStep, FlushStep, FaultStep
  <1> QED  BY <1>1, JournalInvariant, SegmentsInvariant, PTL DEF Spec, NothingBehindFragment

-----------------------------------------------------------------------------
(* The writer and the reducer that probes it *)

\* The writer has its epoch's lock as long as it has a segment open or is about to open the
\* next one, and no reducer holds the lock of an epoch that the writer has locked.
Exclusive ==
    /\ seg # NoSegment \/ pc = "reopen" => lockHeld
    /\ pc = "unlock" => seg = NoSegment
    /\ op = "close" => pc # "reopen"
    /\ probe = "holding" /\ lockHeld => probeEpoch # epoch

\* A reducer that asks after the epoch of a writer that runs has found a segment of it, and so
\* the writer has its lock, which it gives back only when it is stopped; nobody asks after an
\* epoch that is to come.
Asked ==
    /\ pc = "unlock" => op = "close"
    /\ phase \in {"new", "running"} =>
          /\ op # "close"
          /\ \A f \in Segment : where[f] # "none" => f[1] <= epoch
          /\ \A f \in Segment : where[f] = "active" /\ f[1] = epoch => lockHeld
          /\ probe # "idle" => /\ probeEpoch \in Nat /\ probeEpoch <= epoch
                               /\ probeEpoch = epoch => lockHeld /\ probe = "listed"

\* Steps of the reducer leave the writer alone, all others are steps of the writer.
LEMMA ProbeIsJournal == ProbeNext => [Next]_vars
  BY DEF ProbeNext, WriterStep, WriterCrash, MachineDeath, ReducerStep, ProbeList,
     ProbeLock, ProbeVerdict, ProbeRecord, Next

\* What JournalInv says holds while a reducer probes the writer too.
LEMMA ProbedJournal == ProbeSpec => []JournalInv
  <1>1. ProbeInit => Init
    BY DEF ProbeInit
  <1>2. [ProbeNext]_probeVars => [Next]_vars
    BY ProbeIsJournal DEF probeVars
  <1>3. JournalInv /\ [Next]_vars => JournalInv'
    BY JournalInvStep
  <1> QED  BY <1>1, <1>2, <1>3, InitialInv, PTL DEF ProbeSpec

\* The steps of the writer that neither take its lock nor give it back.
LEMMA LockStays ==
    ASSUME Exclusive, UNCHANGED <<epoch, lockHeld, reducer>>,
           seg' # NoSegment \/ pc' = "reopen" => seg # NoSegment \/ pc = "reopen",
           pc' = "unlock" => seg' = NoSegment,
           op' = "close" => pc' # "reopen"
    PROVE  Exclusive'
  BY DEF Exclusive, reducer

\* A step that ends with the lock given back.
LEMMA LockGone ==
    ASSUME ~lockHeld', seg' = NoSegment, pc' = "idle", op' = "tick" \/ op' = op
    PROVE  Exclusive'
  BY DEF Exclusive

\* Every step of writer and reducer preserves Exclusive.
LEMMA ExclusiveStep ==
    ASSUME JournalInv, Exclusive, [ProbeNext]_probeVars
    PROVE  Exclusive'
  <1>0. InHand
    BY DEF JournalInv
  <1>1. CASE UNCHANGED <<vars, reducer>>
    BY <1>1 DEF vars, control, writer, reducer, Exclusive
  <1>2. CASE Step /\ NotWhileProbed /\ UNCHANGED reducer
    <2>1. CASE Start \/ AppendReopen
      <3>1. /\ epoch' = epoch /\ op' = op /\ pc = "idle" /\ pc' \in {"idle", "write"}
            /\ lockHeld' \/ (seg' = NoSegment /\ lockHeld' \in BOOLEAN)
        BY <1>0, <2>1, NoSegmentAssumption DEF Start, AppendReopen, AcquireEpochLock, InHand
      <3>2. probe' = "holding" /\ lockHeld' => probeEpoch' # epoch'
        BY <1>2, <3>1 DEF NotWhileProbed, Exclusive, reducer
      <3> QED  BY <3>1, <3>2 DEF Exclusive
    <2>2. CASE AppendShort
      BY <1>2, <2>2, LockGone DEF AppendShort, AbandonSegment, DropHandles
    <2>3. CASE Unlock
      BY <2>3, LockGone DEF Unlock, Exclusive
    <2>4. CASE AppendTooLarge \/ (\E isCritical \in BOOLEAN : AppendWhole(isCritical))
      BY <1>2, <2>4, LockStays DEF AppendTooLarge, AppendWhole, writer, Exclusive
    <2>5. CASE FlusherLoop \/ FlusherWake \/ Stop
      BY <1>2, <2>5, LockStays DEF FlusherLoop, FlusherWake, Stop, writer, control, Exclusive
    <2>6. CASE (\E by \in {"tick", "final"} : FlushBegin(by)) \/ CloseBegin
      BY <1>2, <2>6, LockStays DEF FlushBegin, CloseBegin, writer, Exclusive
    <2>7. CASE SyncSegment \/ RenameSegment
      BY <1>0, <1>2, <2>7, LockStays DEF SyncSegment, RenameSegment, InHand, writer, Exclusive
    <2>8. CASE SyncFails
      <3>1. lockHeld /\ UNCHANGED <<epoch, lockHeld, op>> /\ pc' # "reopen"
        BY <1>0, <2>8, NoSegmentAssumption DEF SyncFails, InHand, Exclusive
      <3>2. pc' = "unlock" => seg' = NoSegment
        BY <2>8 DEF SyncFails, DropHandles
      <3> QED  BY <1>2, <3>1, <3>2 DEF Exclusive, reducer
    <2>9. CASE RenameFails \/ SyncDirectories \/ SyncDirectoriesFails
      BY <1>0, <1>2, <2>9, NoSegmentAssumption, LockStays
      DEF RenameFails, SyncDirectories, SyncDirectoriesFails, DropHandles, AfterClose,
          InHand, Exclusive
    <2>10. CASE Reopen \/ ReopenFails \/ RetryDebts
      BY <1>2, <2>10, LockStays DEF Reopen, ReopenFails, RetryDebts, FlushReturns, writer, Exclusive
    <2> QED
      BY <1>2, <2>1, <2>2, <2>3, <2>4, <2>5, <2>6, <2>7, <2>8, <2>9, <2>10
      DEF Step, AppendStep, FlushStep, FaultStep
  <1>3. CASE WriterCrash \/ MachineDeath
    BY <1>3, LockGone DEF WriterCrash, Crash, MachineDeath, PowerLoss, ProcessGone
  <1>4. CASE ReducerStep
    BY <1>4 DEF ReducerStep, ProbeList, ProbeLock, ProbeVerdict, ProbeRecord, OwnedByWriter,
       Exclusive, vars, control, writer
  <1> QED
    BY <1>1, <1>2, <1>3, <1>4 DEF ProbeNext, WriterStep, probeVars

\* The steps of the writer that take or keep its lock and go to no other epoch.
LEMMA AskedStays ==
    ASSUME Asked, phase \in {"new", "running"}, UNCHANGED <<epoch, reducer>>,
           op' # "close", pc' = "unlock" => pc = "unlock", lockHeld => lockHeld',
           \A f \in Segment : where'[f] \in {where[f], "closed", "none"} \/ (f[1] = epoch /\ lockHeld'),
           \A f \in Segment : where'[f] # "none" => where[f] # "none" \/ f[1] = epoch,
           epoch \in Nat, phase' \in {"new", "running"}
    PROVE  Asked'
  BY DEF Asked, reducer, Segment, Epoch

\* Every step of writer and reducer preserves Asked.
LEMMA AskedStep ==
    ASSUME JournalInv, Exclusive, Turns, Asked, [ProbeNext]_probeVars
    PROVE  Asked'
  <1>0. InHand /\ TypeOK /\ epoch \in Nat
    BY BoundsAssumption DEF JournalInv, TypeOK, WriterTypeOK, Epoch
  <1>1. CASE UNCHANGED <<vars, reducer>>
    BY <1>1 DEF vars, control, writer, disk, reducer, Asked
  <1>2. CASE phase' \notin {"new", "running"} /\ (pc' = "unlock" => op' = "close")
    BY <1>2 DEF Asked
  <1>3. CASE WriterCrash \/ MachineDeath
    BY <1>3, <1>2 DEF WriterCrash, Crash, MachineDeath, PowerLoss, ProcessGone
  <1>4. CASE ReducerStep
    BY <1>4, <1>0, BoundsAssumption
    DEF ReducerStep, ProbeList, ProbeLock, ProbeVerdict, ProbeRecord, OwnedByWriter, LeftInActive,
        Asked, vars, control, writer, disk, Epoch
  <1>5. CASE Step /\ NotWhileProbed /\ UNCHANGED reducer
    <2>1. pc' = "unlock" => op' = "close"
      BY <1>5
      DEF Step, AppendStep, FlushStep, FaultStep, Asked, Start, AppendReopen, AppendTooLarge,
          AppendWhole, AppendShort, FlusherLoop, FlusherWake, Stop, FlushBegin, CloseBegin, SyncSegment,
          SyncFails, RenameSegment, RenameFails, SyncDirectories, SyncDirectoriesFails, AfterClose,
          Reopen, ReopenFails, RetryDebts, FlushReturns, Unlock, control
    <2> SUFFICES ASSUME phase' \in {"new", "running"}
                 PROVE  Asked'
      BY <1>2, <2>1
    <2>2. phase \in {"new", "running"}
      BY <1>5
      DEF Step, AppendStep, FlushStep, FaultStep, Start, AppendReopen, AppendTooLarge,
          AppendWhole, AppendShort, FlusherLoop, FlusherWake, Stop, FlushBegin, CloseBegin, SyncSegment,
          SyncFails, RenameSegment, RenameFails, SyncDirectories, SyncDirectoriesFails,
          Reopen, ReopenFails, RetryDebts, Unlock, control
    <2>3. op # "close" /\ pc # "unlock" /\ ~wantClose
      BY <1>0, <2>2 DEF Asked, Turns, InHand
    <2>4. CASE Start \/ AppendReopen
      <3>1. UNCHANGED where \/ where' = [where EXCEPT ![<<epoch, nextSeq>>] = "active"]
        BY <2>4 DEF Start, AppendReopen, OpenSegment, disk
      <3>2. lockHeld => lockHeld'
        BY <2>4, <2>2 DEF Start, AppendReopen, AcquireEpochLock
      <3>3. where' # where => lockHeld'
        BY <2>4 DEF Start, AppendReopen, AcquireEpochLock, disk
      <3>4. where \in [Segment -> Place]
        BY <1>0 DEF TypeOK, DiskTypeOK
      <3>5. \A f \in Segment :
                where'[f] = where[f] \/ (f[1] = epoch /\ where'[f] = "active" /\ lockHeld')
        <4> SUFFICES ASSUME NEW f \in Segment, where'[f] # where[f]
                     PROVE  f[1] = epoch /\ where'[f] = "active" /\ lockHeld'
          OBVIOUS
        <4>1. where' # where /\ where' = [where EXCEPT ![<<epoch, nextSeq>>] = "active"]
          BY <3>1
        <4>2. f = <<epoch, nextSeq>> /\ where'[f] = "active"
          BY <4>1, <3>4
        <4> QED  BY <3>3, <4>1, <4>2
      <3>6. UNCHANGED <<epoch, reducer>> /\ op' # "close" /\ pc' # "unlock"
        BY <1>0, <2>4, <1>5, <2>3 DEF Start, AppendReopen
      <3> QED  BY <1>0, <2>2, <3>2, <3>5, <3>6, AskedStays
    <2>5. CASE AppendShort
      <3>1. /\ UNCHANGED <<where, op, reducer>> /\ epoch' = epoch + 1 /\ pc' = "idle"
        BY <1>5, <2>5 DEF AppendShort, AbandonSegment, NextProducer
      <3> QED  BY <1>0, <2>2, <3>1 DEF Asked, reducer, Segment, Epoch
    <2>6. CASE RenameSegment
      <3>1. /\ where' = [where EXCEPT ![seg] = CloseTarget(seg)] /\ seg \in Segment /\ seg[1] = epoch
            /\ where[seg] = "active"
            /\ UNCHANGED <<epoch, op, lockHeld, reducer>> /\ pc' = "dirsync"
        BY <1>0, <1>5, <2>6 DEF RenameSegment, writer, InHand
      <3>2. where \in [Segment -> Place] /\ CloseTarget(seg) \in {"closed", "none"}
        BY <1>0 DEF TypeOK, DiskTypeOK, CloseTarget
      <3>3. \A f \in Segment : where'[f] = where[f] \/ (f = seg /\ where'[f] \in {"closed", "none"})
        BY <3>1, <3>2
      <3> QED  BY <1>0, <2>2, <2>3, <3>1, <3>3, AskedStays
    <2>7. CASE Reopen
      <3>1. /\ where' = [where EXCEPT ![<<epoch, nextSeq>>] = "active"]
            /\ UNCHANGED <<epoch, op, lockHeld, reducer>> /\ pc' = "retry" /\ lockHeld
        BY <1>5, <2>7 DEF Reopen, OpenSegment, Exclusive
      <3>2. where \in [Segment -> Place]
        BY <1>0 DEF TypeOK, DiskTypeOK
      <3>3. \A f \in Segment : where'[f] = where[f] \/ (f[1] = epoch /\ lockHeld')
        BY <3>1, <3>2
      <3> QED  BY <1>0, <2>2, <2>3, <3>1, <3>3, AskedStays
    <2>8. CASE \/ AppendTooLarge \/ (\E isCritical \in BOOLEAN : AppendWhole(isCritical))
               \/ FlusherLoop \/ FlusherWake \/ Stop
               \/ (\E by \in {"tick", "final"} : FlushBegin(by))
               \/ SyncSegment \/ SyncDirectories \/ RetryDebts
               \/ SyncFails \/ RenameFails \/ SyncDirectoriesFails \/ ReopenFails
      <3>1. UNCHANGED <<epoch, reducer, where, lockHeld>> /\ op' # "close" /\ pc' # "unlock"
        BY <1>5, <2>3, <2>8
        DEF AppendTooLarge, AppendWhole, FlusherLoop, FlusherWake, Stop, FlushBegin, SyncSegment,
            SyncDirectories, RetryDebts, FlushReturns, SyncFails, RenameFails, SyncDirectoriesFails,
            ReopenFails, AfterClose, control, writer, disk
      <3> QED  BY <1>0, <2>2, <3>1, AskedStays
    <2>9. ~CloseBegin /\ ~Unlock
      BY <2>3 DEF CloseBegin, Unlock
    <2> QED
      BY <1>5, <2>4, <2>5, <2>6, <2>7, <2>8, <2>9 DEF Step, AppendStep, FlushStep, FaultStep
  <1> QED
    BY <1>1, <1>3, <1>4, <1>5 DEF ProbeNext, WriterStep, probeVars

\* No reducer judges an epoch unclean of which its live writer has a segment open: the verdict
\* is given under the epoch's lock, which that writer holds from its first segment on, through
\* every rotation, until it closes or goes to another epoch.  And although the verdict is
\* recorded only after the lock was given back, the epoch of a writer that runs is never
\* recorded: what was asked after it was asked while the writer held the lock.
THEOREM LiveWritersAreNotUnclean == ProbeSpec => LiveWriterNotUnclean
  <1> DEFINE Guarded == Exclusive /\ Turns /\ Asked
  <1>1. ProbeInit => Guarded
    BY DEF ProbeInit, Init, Exclusive, Turns, Asked, Segment, Epoch
  <1>2. JournalInv /\ Guarded /\ [ProbeNext]_probeVars => Guarded'
    <2> SUFFICES ASSUME JournalInv, Guarded, [ProbeNext]_probeVars
                 PROVE  Guarded'
      OBVIOUS
    <2>1. [Next]_vars
      BY ProbeIsJournal DEF probeVars
    <2> QED  BY <2>1, ExclusiveStep, TurnsStep, AskedStep DEF JournalInv
  <1>3. Guarded /\ ProbeNext /\ probe' = "judged" /\ alive /\ seg # NoSegment
        => probe = "judged" \/ epoch # probeEpoch
    BY DEF Exclusive, ProbeNext, WriterStep, WriterCrash, MachineDeath, ReducerStep, ProbeList,
           ProbeLock, ProbeVerdict, ProbeRecord, reducer
  <1>4. Guarded /\ ProbeNext /\ alive /\ phase = "running" => epoch \notin unclean' \ unclean
    <2>1. ProbeRecord /\ Guarded /\ phase = "running" => epoch \notin unclean' \ unclean
      BY DEF ProbeRecord, Asked
    <2>2. ProbeNext /\ ~ProbeRecord => unclean' = unclean
      BY DEF ProbeNext, WriterStep, WriterCrash, MachineDeath, ReducerStep, ProbeList,
         ProbeLock, ProbeVerdict, reducer
    <2> QED  BY <2>1, <2>2
  <1>5. Guarded /\ [ProbeNext]_probeVars
        => [/\ probe' = "judged" /\ alive /\ seg # NoSegment => probe = "judged" \/ epoch # probeEpoch
            /\ alive /\ phase = "running" => epoch \notin unclean' \ unclean]_probeVars
    BY <1>3, <1>4
  <1> QED  BY <1>1, <1>2, <1>5, ProbedJournal, PTL DEF ProbeSpec, LiveWriterNotUnclean

-----------------------------------------------------------------------------
(***************************************************************************)
(* Checkpoints.                                                            *)
(*                                                                         *)
(* A checkpoint is granted between the reading that justifies it and the   *)
(* append that writes it, and others close segments, give them up and      *)
(* crash in between.  The invariant therefore speaks of granted            *)
(* checkpoints as well as of written ones, and of the listing a sink still *)
(* holds: what was listed is shelved for good.                             *)
(***************************************************************************)

IsLog(s) == s \in Seq(ToSet(s))

\* Segments are sequences, and the durable snapshot is a prefix of the segment.
SegmentTypes ==
    /\ trail = [p \in Sinks |-> trail[p]] /\ durable = [p \in Sinks |-> durable[p]]
    /\ \A p \in Sinks : IsLog(trail[p]) /\ durable[p] \in 0..Len(trail[p])

SinkTypes ==
    /\ opened = [p \in Sinks |-> opened[p]]
    /\ asked = [p \in Sinks |-> asked[p]]

JudgedTypes == {"classified", "requested", "approved"}

\* What a review may rest on: a review classification of b that follows a binding of b to who.
Reviewed(who, b, class) ==
    /\ class.type = "classified" /\ class.binding = b /\ class.says \in Required
    /\ class.parent.type = "bound" /\ class.parent.by = who /\ class.parent.binding = b
    /\ MayReview(who)

Assigned(e) ==
    /\ e.parent.type = "requested" /\ e.parent.by = e.by /\ e.parent.binding = e.binding
    /\ Reviewed(e.by, e.binding, e.parent.parent)

EventSound(e) ==
    /\ e.type \in JudgedTypes => e.parent \in Safe
    /\ e.type = "approved" => Assigned(e)

Listings ==
    \A p \in Sinks : asked[p].step \in {"listed", "again"} => asked[p].listed \subseteq shelved

ReviewsStand ==
    \A p \in Sinks : asked[p].step = "again"
                     => Reviewed(asked[p].who, asked[p].binding, asked[p].class)

GrantsSound == \A p \in Sinks : asked[p].step = "granted" => EventSound(asked[p].event)

WrittenSound == \A e \in Written : EventSound(e)

CheckpointInv ==
    /\ SegmentTypes /\ SinkTypes /\ Listings /\ ReviewsStand
    /\ GrantsSound /\ WrittenSound

-----------------------------------------------------------------------------
(* Sequences *)

\* Appending one event to a log.
LEMMA Appending ==
    ASSUME NEW s, IsLog(s), NEW e
    PROVE  LET t == Append(s, e) IN
           /\ IsLog(t) /\ Len(s) \in Nat /\ Len(t) = Len(s) + 1
           /\ \A i \in 1..Len(s) : t[i] = s[i]
           /\ t[Len(s) + 1] = e
           /\ ToSet(t) = ToSet(s) \cup {e}
<1> DEFINE t == Append(s, e)
           T == ToSet(s) \cup {e}
<1>1. s \in Seq(T)
  BY SeqMonotonic DEF IsLog
<1>2. /\ t \in Seq(T) /\ Len(s) \in Nat /\ Len(t) = Len(s) + 1
      /\ \A i \in 1..Len(s) : t[i] = s[i]
      /\ t[Len(s) + 1] = e
  BY <1>1, AppendProperties
<1>3. ToSet(t) = T
  BY <1>2 DEF ToSet
<1> QED BY <1>2, <1>3 DEF IsLog

\* The empty log.
LEMMA Emptied == IsLog(<<>>) /\ Len(<<>>) = 0 /\ ToSet(<<>>) = {}
BY DEF IsLog, ToSet

-----------------------------------------------------------------------------
(* What a sink reads is safe, and what is safe remains so. *)

\* A reading holds only events no crash can take.
LEMMA ReadingsSafe ==
    ASSUME NEW p \in Sinks, NEW listed, listed \subseteq shelved, NEW E \in Readings(p, listed)
    PROVE  E \subseteq Safe
BY DEF Readings, Safe

\* Soundness of an event is kept by a step that keeps what is safe.
LEMMA SoundKept ==
    ASSUME Safe \subseteq Safe', NEW e, EventSound(e)
    PROVE  EventSound(e)'
BY DEF EventSound, Assigned, Reviewed

\* A step that only touches what sinks have been asked.
LEMMA SegmentsKept ==
    ASSUME UNCHANGED segments
    PROVE  /\ SegmentTypes => SegmentTypes'
           /\ Safe' = Safe /\ Written' = Written
           /\ \A e : EventSound(e) => EventSound(e)'
           /\ WrittenSound => WrittenSound'
<1>0. UNCHANGED <<trail, durable, shelved, abandoned>>
  BY DEF segments
<1>1. Safe' = Safe /\ Written' = Written
  BY <1>0 DEF Safe, Written, Own
<1>2. \A e : EventSound(e) => EventSound(e)'
  BY <1>1, SoundKept
<1>3. SegmentTypes => SegmentTypes'
  BY <1>0 DEF SegmentTypes
<1>4. WrittenSound => WrittenSound'
  BY <1>1, <1>2 DEF WrittenSound
<1> QED BY <1>1, <1>2, <1>3, <1>4
-----------------------------------------------------------------------------
(* Steps of one sink that leave the segments alone *)

\* A sink that only judges keeps the rest of the invariant when what it becomes is sound.
LEMMA Judging ==
    ASSUME CheckpointInv, Quiet, NEW p \in Sinks, NEW next, Becomes(p, next),
           next.step \in {"listed", "again"} => next.listed \subseteq shelved,
           next.step = "again" => Reviewed(next.who, next.binding, next.class),
           next.step = "granted" => EventSound(next.event)
    PROVE  CheckpointInv'
<1>0. UNCHANGED segments /\ UNCHANGED opened /\ shelved' = shelved
  BY DEF Quiet, segments
<1>1. \A q \in Sinks : asked'[q] = IF q = p THEN next ELSE asked[q]
  BY DEF CheckpointInv, SinkTypes, Becomes
<1>2. SinkTypes'
  BY <1>0 DEF CheckpointInv, SinkTypes, Becomes
<1>3. Listings'
  BY <1>0, <1>1 DEF CheckpointInv, Listings
<1>4. ReviewsStand'
  BY <1>1 DEF CheckpointInv, ReviewsStand, Reviewed
<1>5. GrantsSound'
  <2>1. \A q \in Sinks : asked'[q].step = "granted" => EventSound(asked'[q].event)
    BY <1>1 DEF CheckpointInv, GrantsSound
  <2> QED BY <2>1, <1>0, SegmentsKept DEF GrantsSound, EventSound
<1> QED BY <1>0, <1>2, <1>3, <1>4, <1>5, SegmentsKept DEF CheckpointInv

\* A rejected checkpoint leaves nothing behind.
LEMMA Rejecting ==
    ASSUME CheckpointInv, Quiet, NEW p \in Sinks, Reject(p)
    PROVE  CheckpointInv'
BY Judging DEF Reject, Idle

LEMMA ClassifyKeeps ==
    ASSUME CheckpointInv, NEW p \in Sinks, Classify(p)
    PROVE  CheckpointInv'
<1>1. PICK E \in Readings(p, asked[p].listed) :
        LET parents == BindingParents(E, asked[p].binding) IN
        IF authority[p] /\ parents # {}
        THEN \E parent \in parents :
               Grant(p, Fact("classified", "supervisor", asked[p].binding, asked[p].says, parent))
        ELSE Reject(p)
  BY DEF Classify
<1>2. E \subseteq Safe
  BY ReadingsSafe DEF Classify, CheckpointInv, Listings
<1>3. Quiet
  BY DEF Classify
<1>4. CASE Reject(p)
  BY <1>3, <1>4, Rejecting
<1>5. ASSUME NEW parent \in BindingParents(E, asked[p].binding),
             Grant(p, Fact("classified", "supervisor", asked[p].binding, asked[p].says, parent))
      PROVE  CheckpointInv'
  <2> DEFINE e == Fact("classified", "supervisor", asked[p].binding, asked[p].says, parent)
  <2>1. parent \in Safe
    BY <1>2 DEF BindingParents, Latest, Natives
  <2>2. EventSound(e)
    BY <2>1 DEF EventSound, Fact
  <2> QED BY <1>3, <1>5, <2>2, Judging DEF Grant
<1> QED BY <1>1, <1>4, <1>5

\* What ReviewAuthority answers is a reviewed classification, read from the evidence.
LEMMA AuthorityReviewed ==
    ASSUME NEW E, NEW b, NEW g \in ReviewAuthority(E, b)
    PROVE  Reviewed(g[1], b, g[2]) /\ g[2] \in E
<1> DEFINE natural == Natives(E)
           classes == Classifications(E)
<1>1. PICK x \in natural \X classes :
        /\ g = <<x[1].by, x[2]>>
        /\ \A n \in natural : /\ n.type = "bound" /\ n.binding = b
                              /\ MayReview(n.by) /\ n.by = x[1].by
                              /\ n.says \in {"unsaid", x[2].says}
        /\ \A c \in classes : /\ c.binding = b /\ c.says \in Required
                              /\ c.parent \in natural
        /\ classes = {x[2]}
  BY DEF ReviewAuthority
<1>2. g[1] = x[1].by /\ g[2] = x[2] /\ x[1] \in natural /\ x[2] \in classes
  BY <1>1
<1>3. g[2].type = "classified" /\ g[2] \in E
  BY <1>2 DEF Classifications
<1>4. g[2].binding = b /\ g[2].says \in Required /\ g[2].parent \in natural
  BY <1>1, <1>2
<1>5. /\ g[2].parent.type = "bound" /\ g[2].parent.binding = b /\ g[2].parent.by = g[1]
      /\ MayReview(g[1])
  BY <1>1, <1>2, <1>4
<1> QED BY <1>3, <1>4, <1>5 DEF Reviewed

LEMMA ReviewKeeps ==
    ASSUME CheckpointInv, NEW p \in Sinks, Review(p)
    PROVE  CheckpointInv'
<1>1. PICK E \in Readings(p, asked[p].listed) :
        LET granted == ReviewAuthority(E, asked[p].binding) IN
        IF ~authority[p] \/ granted = {} THEN Reject(p)
        ELSE \E g \in granted :
               IF asked[p].kind = "request"
               THEN Grant(p, Fact("requested", g[1], asked[p].binding, "unsaid", g[2]))
               ELSE Becomes(p, [step |-> "again", binding |-> asked[p].binding, who |-> g[1],
                                class |-> g[2], listed |-> shelved])
  BY DEF Review
<1>2. E \subseteq Safe
  BY ReadingsSafe DEF Review, CheckpointInv, Listings
<1>3. Quiet
  BY DEF Review
<1>4. CASE Reject(p)
  BY <1>3, <1>4, Rejecting
<1>5. ASSUME NEW g \in ReviewAuthority(E, asked[p].binding),
             Grant(p, Fact("requested", g[1], asked[p].binding, "unsaid", g[2]))
      PROVE  CheckpointInv'
  <2> DEFINE e == Fact("requested", g[1], asked[p].binding, "unsaid", g[2])
  <2>1. EventSound(e)
    BY <1>2, AuthorityReviewed DEF EventSound, Fact
  <2> QED BY <1>3, <1>5, <2>1, Judging DEF Grant
<1>6. ASSUME NEW g \in ReviewAuthority(E, asked[p].binding),
             Becomes(p, [step |-> "again", binding |-> asked[p].binding, who |-> g[1],
                         class |-> g[2], listed |-> shelved])
      PROVE  CheckpointInv'
  BY <1>3, <1>6, AuthorityReviewed, Judging
<1> QED BY <1>1, <1>4, <1>5, <1>6

LEMMA ApproveKeeps ==
    ASSUME CheckpointInv, NEW p \in Sinks, Approve(p)
    PROVE  CheckpointInv'
<1> DEFINE found(E) == ReviewRequests(E, asked[p].who, asked[p].binding, asked[p].class)
<1>1. PICK E \in Readings(p, asked[p].listed) :
        IF found(E) = {} THEN Reject(p)
        ELSE \E request \in found(E) :
               Grant(p, Fact("approved", asked[p].who, asked[p].binding, "unsaid", request))
  BY DEF Approve
<1>2. E \subseteq Safe
  BY ReadingsSafe DEF Approve, CheckpointInv, Listings
<1>3. Quiet
  BY DEF Approve
<1>4. CASE Reject(p)
  BY <1>3, <1>4, Rejecting
<1>5. ASSUME NEW request \in found(E),
             Grant(p, Fact("approved", asked[p].who, asked[p].binding, "unsaid", request))
      PROVE  CheckpointInv'
  <2> DEFINE e == Fact("approved", asked[p].who, asked[p].binding, "unsaid", request)
  <2>1. /\ request \in E /\ request.type = "requested" /\ request.by = asked[p].who
        /\ request.binding = asked[p].binding /\ request.parent = asked[p].class
    BY DEF ReviewRequests, Requests
  <2>2. Reviewed(asked[p].who, asked[p].binding, asked[p].class)
    BY DEF Approve, CheckpointInv, ReviewsStand
  <2>3. EventSound(e)
    BY <1>2, <2>1, <2>2 DEF EventSound, Assigned, Fact
  <2> QED BY <1>3, <1>5, <2>3, Judging DEF Grant
<1> QED BY <1>1, <1>4, <1>5

LEMMA EmitKeeps ==
    ASSUME CheckpointInv, NEW p \in Sinks, Emit(p)
    PROVE  CheckpointInv'
<1>0. UNCHANGED segments /\ UNCHANGED opened /\ shelved' = shelved
  BY DEF Emit, segments
<1>1. PICK next :
        /\ Becomes(p, next) \/ UNCHANGED asked
        /\ next.step \in {"listed", "again"} => next.listed \subseteq shelved
        /\ next.step # "again"
        /\ next.step = "granted" => EventSound(next.event)
  <2>1. PICK kind \in {"classify", "request", "approve", "contract"}, b \in BindingRefs,
             says \in Claims :
          IF kind = "contract"
          THEN IF authority[p]
               THEN Becomes(p, [step |-> "granted",
                                event |-> Fact("contract", "morfeo", Nobody, "unsaid", Root)])
               ELSE UNCHANGED asked
          ELSE Becomes(p, [step |-> "listed", kind |-> kind, binding |-> b, says |-> says,
                           listed |-> shelved])
    BY DEF Emit
  <2> DEFINE e == Fact("contract", "morfeo", Nobody, "unsaid", Root)
             granted == [step |-> "granted", event |-> e]
             listed == [step |-> "listed", kind |-> kind, binding |-> b, says |-> says,
                        listed |-> shelved]
  <2>2. EventSound(e)
    BY DEF EventSound, Fact, JudgedTypes
  <2>3. CASE UNCHANGED asked \/ Becomes(p, listed)
    <3> WITNESS listed
    <3> HIDE DEF e
    <3> QED BY <2>3
  <2>4. CASE Becomes(p, granted)
    <3> WITNESS granted
    <3> HIDE DEF e
    <3> QED BY <2>2, <2>4
  <2> QED BY <2>1, <2>3, <2>4
<1>2. \A q \in Sinks : asked'[q] = asked[q] \/ (q = p /\ asked'[q] = next)
  BY <1>1 DEF CheckpointInv, SinkTypes, Becomes
<1>3. SinkTypes'
  BY <1>0, <1>1 DEF CheckpointInv, SinkTypes, Becomes
<1>4. Listings'
  BY <1>0, <1>1, <1>2 DEF CheckpointInv, Listings
<1>5. ReviewsStand'
  BY <1>1, <1>2 DEF CheckpointInv, ReviewsStand, Reviewed
<1>6. GrantsSound'
  <2>1. \A q \in Sinks : asked'[q].step = "granted" => EventSound(asked'[q].event)
    BY <1>1, <1>2 DEF CheckpointInv, GrantsSound
  <2> QED BY <2>1, <1>0, SegmentsKept DEF GrantsSound, EventSound
<1> QED BY <1>0, <1>3, <1>4, <1>5, <1>6, SegmentsKept DEF CheckpointInv

-----------------------------------------------------------------------------
(* Steps that change the segments *)

\* A step that loses nothing safe and gives no sink a checkpoint keeps what sinks hold.
LEMMA HoldingsKept ==
    ASSUME CheckpointInv, Safe \subseteq Safe', shelved \subseteq shelved',
           opened' = [q \in Sinks |-> opened'[q]], asked' = [q \in Sinks |-> asked'[q]],
           \A q \in Sinks : asked'[q] \in {asked[q], Idle}
    PROVE  SinkTypes' /\ Listings' /\ ReviewsStand' /\ GrantsSound'
<1>1. SinkTypes'
  BY DEF SinkTypes
<1>2. Listings'
  BY DEF CheckpointInv, Listings, Idle
<1>3. ReviewsStand'
  BY DEF CheckpointInv, ReviewsStand, Reviewed, Idle
<1>4. GrantsSound'
  <2>1. ASSUME NEW q \in Sinks, asked'[q].step = "granted"
        PROVE  EventSound(asked[q].event)'
    <3>1. asked'[q] = asked[q]
      BY <2>1 DEF Idle
    <3>2. EventSound(asked[q].event)
      BY <2>1, <3>1 DEF CheckpointInv, GrantsSound
    <3> QED BY <3>1, <3>2 DEF EventSound
  <2> QED BY <2>1 DEF GrantsSound
<1> QED BY <1>1, <1>2, <1>3, <1>4

\* What is written stays sound when what is new is sound.
LEMMA WritingsKept ==
    ASSUME CheckpointInv, Safe \subseteq Safe',
           \A e \in Written' : e \in Written \/ EventSound(e)
    PROVE  WrittenSound'
<1> SUFFICES ASSUME NEW e \in Written' PROVE EventSound(e)'
  BY DEF WrittenSound
<1>1. EventSound(e)
  BY DEF CheckpointInv, WrittenSound
<1> QED BY <1>1 DEF EventSound

\* A sink's segment grows, and nothing else of the segments changes.
Grows(p, t) ==
    /\ trail' = [trail EXCEPT ![p] = t] /\ UNCHANGED <<durable, shelved, abandoned>>
    /\ IsLog(t) /\ Len(t) \in Nat /\ Len(trail[p]) <= Len(t)
    /\ \A i \in 1..Len(trail[p]) : t[i] = trail[p][i]

LEMMA Growing ==
    ASSUME CheckpointInv, NEW p \in Sinks, NEW t, Grows(p, t)
    PROVE  /\ SegmentTypes' /\ Safe' = Safe
           /\ \A e \in Written' : e \in Written \cup ToSet(t)
           /\ \A q \in Sinks : trail'[q] = IF q = p THEN t ELSE trail[q]
<1>1. /\ \A q \in Sinks : trail'[q] = IF q = p THEN t ELSE trail[q]
      /\ trail' = [q \in Sinks |-> trail'[q]]
  BY DEF CheckpointInv, SegmentTypes, Grows
<1>2. \A q \in Sinks : Len(trail[q]) \in Nat
  BY LenProperties DEF CheckpointInv, SegmentTypes, IsLog
<1>3. SegmentTypes'
  BY <1>1, <1>2 DEF CheckpointInv, SegmentTypes, Grows
<1>4. \A q \in Sinks : Own(q)' = Own(q)
  BY <1>1, <1>2 DEF Own, Grows, CheckpointInv, SegmentTypes
<1>5. Safe' = Safe
  BY <1>4 DEF Safe, Grows
<1>6. \A e \in Written' : e \in Written \cup ToSet(t)
  BY <1>1 DEF Written, Grows
<1> QED BY <1>1, <1>3, <1>5, <1>6

\* The log a reading or a crash leaves: every event of it lies in the segment.
LEMMA LogEvents ==
    ASSUME CheckpointInv, NEW q \in Sinks
    PROVE  /\ IsLog(trail[q]) /\ Len(trail[q]) \in Nat
           /\ durable[q] \in Nat /\ durable[q] <= Len(trail[q])
           /\ ToSet(trail[q]) = {trail[q][i] : i \in 1..Len(trail[q])}
           /\ Own(q) \subseteq Safe /\ ToSet(trail[q]) \subseteq Written
<1>1. IsLog(trail[q]) /\ Len(trail[q]) \in Nat
  BY LenProperties DEF CheckpointInv, SegmentTypes, IsLog
<1>2. durable[q] \in Nat /\ durable[q] <= Len(trail[q])
  BY <1>1 DEF CheckpointInv, SegmentTypes
<1>3. ToSet(trail[q]) = {trail[q][i] : i \in 1..Len(trail[q])}
  BY DEF ToSet
<1>4. Own(q) \subseteq Safe /\ ToSet(trail[q]) \subseteq Written
  BY DEF Safe, Written
<1> QED BY <1>1, <1>2, <1>3, <1>4

LEMMA FlushKeeps ==
    ASSUME CheckpointInv, NEW p \in Sinks, Flush(p)
    PROVE  CheckpointInv'
<1>0. /\ UNCHANGED <<trail, shelved, abandoned, opened, asked>>
      /\ durable' = [durable EXCEPT ![p] = Len(trail[p])]
  BY DEF Flush
<1>1. \A q \in Sinks : durable'[q] = IF q = p THEN Len(trail[p]) ELSE durable[q]
  BY <1>0 DEF CheckpointInv, SegmentTypes
<1>2. Len(trail[p]) \in Nat /\ durable[p] \in Nat /\ durable[p] <= Len(trail[p])
  BY LogEvents
<1>3. SegmentTypes'
  BY <1>0, <1>1, <1>2 DEF CheckpointInv, SegmentTypes
<1>4. \A q \in Sinks : Own(q) \subseteq Own(q)'
  BY <1>0, <1>1, <1>2 DEF Own
<1>5. Safe \subseteq Safe'
  BY <1>0, <1>4 DEF Safe
<1>6. SinkTypes' /\ Listings' /\ ReviewsStand' /\ GrantsSound'
  BY <1>0, <1>5, HoldingsKept DEF CheckpointInv, SinkTypes
<1>7. WrittenSound'
  <2>1. Written' = Written
    BY <1>0 DEF Written
  <2> QED BY <1>5, <2>1, WritingsKept
<1> QED BY <1>3, <1>6, <1>7 DEF CheckpointInv

\* A segment ends with s in it, of which the first n events become safe where others can or
\* cannot read them.
Ends(p, s, n) ==
    /\ IsLog(s) /\ Len(s) \in Nat /\ Len(trail[p]) <= Len(s)
    /\ \A i \in 1..Len(trail[p]) : s[i] = trail[p][i]
    /\ \A x \in ToSet(s) : x \in Written \/ EventSound(x)
    /\ n \in Nat /\ durable[p] <= n /\ n <= Len(s)
    /\ trail' = [trail EXCEPT ![p] = <<>>] /\ durable' = [durable EXCEPT ![p] = 0]
    /\ shelved \subseteq shelved'
    /\ \A e : e \in shelved' \cup abandoned'
              <=> e \in shelved \cup abandoned \/ \E i \in 1..n : e = s[i]

LEMMA Ending ==
    ASSUME CheckpointInv, NEW p \in Sinks, NEW s, NEW n, Ends(p, s, n),
           opened' = [q \in Sinks |-> opened'[q]], asked' = [q \in Sinks |-> asked'[q]],
           \A q \in Sinks : asked'[q] \in {asked[q], Idle}
    PROVE  CheckpointInv'
<1>1. /\ \A q \in Sinks : trail'[q] = IF q = p THEN <<>> ELSE trail[q]
      /\ \A q \in Sinks : durable'[q] = IF q = p THEN 0 ELSE durable[q]
      /\ trail' = [q \in Sinks |-> trail'[q]] /\ durable' = [q \in Sinks |-> durable'[q]]
  BY DEF CheckpointInv, SegmentTypes, Ends
<1>2. SegmentTypes'
  BY <1>1, Emptied DEF CheckpointInv, SegmentTypes
<1>3. \A i \in 1..n : s[i] \in Safe'
  BY DEF Safe, Ends
<1>4. \A e \in Own(p) : \E i \in 1..n : e = s[i]
  BY LogEvents DEF Own, Ends
<1>5. \A q \in Sinks : q # p => Own(q)' = Own(q)
  BY <1>1 DEF Own
<1>6. Safe \subseteq Safe'
  <2> SUFFICES ASSUME NEW e \in Safe PROVE e \in Safe'
    OBVIOUS
  <2>1. CASE e \in shelved \cup abandoned
    BY <2>1 DEF Safe, Ends
  <2>2. ASSUME NEW q \in Sinks, e \in Own(q) PROVE e \in Safe'
    BY <1>3, <1>4, <1>5, <2>2 DEF Safe
  <2> QED BY <2>1, <2>2 DEF Safe
<1>7. SinkTypes' /\ Listings' /\ ReviewsStand' /\ GrantsSound'
  BY <1>6, HoldingsKept DEF Ends
<1>8. WrittenSound'
  <2>1. \A i \in 1..n : s[i] \in ToSet(s)
    BY DEF Ends, ToSet
  <2>2. \A q \in Sinks : ToSet(trail[q])' \subseteq Written
    BY <1>1, Emptied DEF Written
  <2>3. \A e \in shelved' \cup abandoned' : e \in Written \/ e \in ToSet(s)
    BY <2>1 DEF Ends, Written
  <2>4. \A e \in Written' : e \in Written \/ EventSound(e)
    BY <2>2, <2>3 DEF Written, Ends
  <2> QED BY <1>6, <2>4, WritingsKept
<1> QED BY <1>2, <1>7, <1>8 DEF CheckpointInv

LEMMA CloseSegmentKeeps ==
    ASSUME CheckpointInv, NEW p \in Sinks, CloseSegment(p)
    PROVE  CheckpointInv'
<1>1. Ends(p, trail[p], Len(trail[p]))
  BY LogEvents DEF CloseSegment, Ends
<1>2. UNCHANGED <<opened, asked>>
  BY DEF CloseSegment
<1> QED BY <1>1, <1>2, Ending DEF CheckpointInv, SinkTypes

\* A segment with the sound events a sink added to it.
Extends(p, s) ==
    /\ IsLog(s) /\ Len(s) \in Nat /\ Len(trail[p]) <= Len(s)
    /\ \A i \in 1..Len(trail[p]) : s[i] = trail[p][i]
    /\ \A x \in ToSet(s) : x \in Written \/ EventSound(x)

LEMMA ExtendsItself ==
    ASSUME CheckpointInv, NEW p \in Sinks
    PROVE  Extends(p, trail[p])
BY LogEvents DEF Extends

LEMMA ExtendedByOne ==
    ASSUME CheckpointInv, NEW p \in Sinks, NEW s, Extends(p, s), NEW e, EventSound(e)
    PROVE  Extends(p, Append(s, e))
<1> DEFINE t == Append(s, e)
<1>1. /\ IsLog(t) /\ Len(s) \in Nat /\ Len(t) = Len(s) + 1
      /\ \A i \in 1..Len(s) : t[i] = s[i]
      /\ ToSet(t) = ToSet(s) \cup {e}
  BY Appending DEF Extends
<1> HIDE DEF t
<1>2. Len(trail[p]) \in Nat /\ Len(trail[p]) <= Len(t) /\ Len(t) \in Nat
  BY <1>1, LogEvents DEF Extends
<1>3. \A i \in 1..Len(trail[p]) : t[i] = trail[p][i]
  BY <1>1, <1>2 DEF Extends
<1>4. \A x \in ToSet(t) : x \in Written \/ EventSound(x)
  BY <1>1 DEF Extends
<1> QED BY <1>1, <1>2, <1>3, <1>4 DEF Extends, t

\* A step of one sink that forgets what it was asked, or goes on with it.
Answers(p) ==
    /\ opened' = [q \in Sinks |-> opened'[q]] /\ asked' = [q \in Sinks |-> asked'[q]]
    /\ \A q \in Sinks : asked'[q] \in {asked[q], Idle}

\* An append that is accepted, or refused without a short write.
LEMMA CarryingKeeps ==
    ASSUME CheckpointInv, NEW p \in Sinks, NEW t, Extends(p, t), Carries(p, t),
           UNCHANGED shelved, Answers(p)
    PROVE  CheckpointInv'
<1>1. Grows(p, t)
  BY DEF Grows, Extends, Carries
<1>2. /\ SegmentTypes' /\ Safe' = Safe
      /\ \A x \in Written' : x \in Written \cup ToSet(t)
  BY <1>1, Growing
<1>3. WrittenSound'
  BY <1>2, WritingsKept DEF Extends
<1>4. SinkTypes' /\ Listings' /\ ReviewsStand' /\ GrantsSound'
  BY <1>2, HoldingsKept DEF Answers
<1> QED BY <1>2, <1>3, <1>4 DEF CheckpointInv

\* A segment left behind, by a short write or by the death of its process.
LEMMA LeavingKeeps ==
    ASSUME CheckpointInv, NEW p \in Sinks, NEW t, Extends(p, t), LeftBehind(p, t),
           UNCHANGED shelved, Answers(p)
    PROVE  CheckpointInv'
<1>1. PICK kept \in durable[p]..Len(t) : abandoned' = abandoned \cup {t[i] : i \in 1..kept}
  BY DEF LeftBehind
<1>2. durable[p] \in Nat
  BY LogEvents
<1>3. Ends(p, t, kept)
  BY <1>1, <1>2 DEF LeftBehind, Ends, Extends
<1> QED BY <1>3, Ending DEF Answers

LEMMA NativeKeeps ==
    ASSUME CheckpointInv, NEW p \in Sinks, Native(p)
    PROVE  CheckpointInv'
<1>1. UNCHANGED shelved /\ Answers(p)
  BY DEF Native, Answers, CheckpointInv, SinkTypes
<1>2. ASSUME NEW f \in NativeFacts, NEW from,
             Carries(p, Append(trail[p], Fact(f.type, f.by, f.binding, f.says, from)))
      PROVE  CheckpointInv'
  <2> DEFINE e == Fact(f.type, f.by, f.binding, f.says, from)
  <2>1. e.type \in {"bound", "unbound"}
    BY CheckpointBoundsAssumption DEF Fact
  <2>2. EventSound(e)
    BY <2>1 DEF EventSound, JudgedTypes
  <2> HIDE DEF e
  <2>3. Extends(p, Append(trail[p], e))
    BY <2>2, ExtendsItself, ExtendedByOne
  <2>4. Carries(p, Append(trail[p], e))
    BY <1>2 DEF e
  <2> DEFINE t == Append(trail[p], e)
  <2> HIDE DEF t
  <2>5. Extends(p, t) /\ Carries(p, t)
    BY <2>3, <2>4 DEF t
  <2> QED BY <1>1, <2>5, CarryingKeeps
<1>3. CASE LeftBehind(p, trail[p])
  BY <1>1, <1>3, ExtendsItself, LeavingKeeps
<1> QED BY <1>2, <1>3 DEF Native

LEMMA DieKeeps ==
    ASSUME CheckpointInv, NEW p \in Sinks, Die(p)
    PROVE  CheckpointInv'
<1>1. Answers(p)
  BY DEF Die, Answers, CheckpointInv, SinkTypes
<1> QED BY <1>1, ExtendsItself, LeavingKeeps DEF Die

LEMMA RecordKeeps ==
    ASSUME CheckpointInv, NEW p \in Sinks, Record(p)
    PROVE  CheckpointInv'
<1>1. PICK E \in Readings(p, shelved) :
        LET before == IF MustOpen(p, E) THEN Append(trail[p], Opening) ELSE trail[p] IN
        \/ MustOpen(p, E) /\ UNCHANGED opened /\ Refused(p, trail[p])
        \/ /\ opened' = [opened EXCEPT ![p] = TRUE]
           /\ Refused(p, before) \/ Carries(p, Append(before, asked[p].event))
  BY DEF Record
<1> DEFINE before == IF MustOpen(p, E) THEN Append(trail[p], Opening) ELSE trail[p]
           after == Append(before, asked[p].event)
<1>2. UNCHANGED shelved /\ Answers(p)
  BY <1>1 DEF Record, Reject, Becomes, Answers, CheckpointInv, SinkTypes
<1>3. EventSound(Opening)
  BY DEF EventSound, Opening, Fact, JudgedTypes
<1>4. Extends(p, trail[p]) /\ Extends(p, before)
  BY <1>3, ExtendsItself, ExtendedByOne
<1>5. EventSound(asked[p].event)
  BY DEF Record, CheckpointInv, GrantsSound
<1> HIDE DEF before
<1>6. Extends(p, after)
  BY <1>4, <1>5, ExtendedByOne
<1> HIDE DEF after
<1>7. ASSUME NEW t, Extends(p, t), Refused(p, t)
      PROVE  CheckpointInv'
  BY <1>2, <1>7, CarryingKeeps, LeavingKeeps DEF Refused
<1>8. CASE Refused(p, trail[p]) \/ Refused(p, before)
  BY <1>4, <1>7, <1>8
<1>9. CASE Carries(p, after)
  BY <1>2, <1>6, <1>9, CarryingKeeps
<1> QED BY <1>1, <1>8, <1>9 DEF before, after

-----------------------------------------------------------------------------
LEMMA StutterKeeps ==
    ASSUME CheckpointInv, UNCHANGED checkpointVars
    PROVE  CheckpointInv'
<1>1. UNCHANGED segments /\ UNCHANGED <<opened, asked, shelved>>
  BY DEF checkpointVars, segments
<1>2. SinkTypes' /\ Listings' /\ ReviewsStand' /\ GrantsSound'
  BY <1>1, SegmentsKept, HoldingsKept DEF CheckpointInv, SinkTypes
<1> QED BY <1>1, <1>2, SegmentsKept DEF CheckpointInv

LEMMA NothingAsked == CheckpointInit => CheckpointInv
<1> SUFFICES ASSUME CheckpointInit PROVE CheckpointInv
  OBVIOUS
<1>1. /\ \A p \in Sinks : trail[p] = <<>> /\ durable[p] = 0 /\ ~opened[p] /\ asked[p] = Idle
      /\ trail = [p \in Sinks |-> trail[p]] /\ durable = [p \in Sinks |-> durable[p]]
      /\ opened = [p \in Sinks |-> opened[p]] /\ asked = [p \in Sinks |-> asked[p]]
  BY DEF CheckpointInit
<1>2. Safe = {} /\ Written = {}
  BY <1>1, Emptied DEF CheckpointInit, Safe, Written, Own
<1>3. SegmentTypes /\ SinkTypes
  BY <1>1, Emptied DEF SegmentTypes, SinkTypes
<1>4. Listings /\ ReviewsStand /\ GrantsSound
  BY <1>1 DEF Listings, ReviewsStand, GrantsSound, Idle
<1>5. WrittenSound
  BY <1>2 DEF WrittenSound
<1> QED BY <1>3, <1>4, <1>5 DEF CheckpointInv

\* What has evidence that no crash can take rests on it.
LEMMA InvRests == CheckpointInv => CheckpointsRest
<1> SUFFICES ASSUME CheckpointInv PROVE CheckpointsRest
  OBVIOUS
<1>1. EvidenceOutlives
  BY DEF EvidenceOutlives, CheckpointInv, WrittenSound, EventSound, Judged, JudgedTypes
<1>2. ApprovalIsAssigned
  BY DEF ApprovalIsAssigned, CheckpointInv, WrittenSound, EventSound, Assigned, Reviewed
<1> QED BY <1>1, <1>2 DEF CheckpointsRest

\* No sequence of reports, short writes, crashes, rotations and concurrent sinks leaves a
\* checkpoint whose evidence a crash can take, or an approval by anyone but the assigned
\* reviewer.
THEOREM CheckpointsAlwaysRest == CheckpointSpec => []CheckpointsRest
<1>1. CheckpointInit => CheckpointInv
  BY NothingAsked
<1>2. CheckpointInv /\ [CheckpointNext]_checkpointVars => CheckpointInv'
  BY NativeKeeps, FlushKeeps, CloseSegmentKeeps, DieKeeps, EmitKeeps, ClassifyKeeps,
     ReviewKeeps, ApproveKeeps, RecordKeeps, StutterKeeps DEF CheckpointNext
<1>3. CheckpointInv => CheckpointsRest
  BY InvRests
<1> QED BY <1>1, <1>2, <1>3, PTL DEF CheckpointSpec
=============================================================================
