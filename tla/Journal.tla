------------------------------ MODULE Journal ------------------------------
(***************************************************************************)
(* The observation journal writer of one process (JournalWriter in         *)
(* capture/journal.py), the flusher that supervises its durability         *)
(* (capture/flusher.py) and the Collector that starts and stops both.      *)
(* EpochProbe adds the reducer of another process.                         *)
(*                                                                         *)
(* A segment is named <<producer_epoch, first_seq>> and holds the events   *)
(* first_seq .. first_seq + lines - 1 of that epoch.  Every operation of   *)
(* the writer runs under its thread lock: `pc` is "idle" when that lock is *)
(* free.  The steps inside flush and close are separate because a crash or *)
(* another process can observe the file system between them.               *)
(***************************************************************************)
EXTENDS Naturals, FiniteSets

CONSTANTS MaxEpoch,          \* producer epochs a process may go through
          MaxSeq,            \* events of one epoch
          MaxSegmentEvents,  \* JournalWriter.max_segment_events
          MaxFaults,         \* I/O faults the environment may inject
          NoSegment          \* no open segment, no durable snapshot

ASSUME BoundsAssumption ==
    /\ MaxEpoch \in Nat
    /\ MaxSeq \in Nat
    /\ MaxSegmentEvents \in Nat \ {0}
    /\ MaxFaults \in Nat

Epoch == 0 .. MaxEpoch
SeqNo == 0 .. MaxSeq
Segment == Epoch \X SeqNo
Event == Epoch \X SeqNo

ASSUME NoSegmentAssumption == NoSegment \notin Segment

Place == {"none", "active", "closed"}

\* _CriticalSegmentDebt: a segment, and whether a name in closed/ was chosen for it.
Debt == [segment : Segment, renamed : BOOLEAN]

VARIABLES
    \* the process
    alive, phase, pc, op,
    \* JournalWriter
    epoch, nextSeq, seg, lockHeld, snap, currentCritical, criticalPending,
    rotationPending, flushSignal, debts, debtSnapshot,
    \* Flusher and Collector
    flusher, interval, finalFlush, wantClose,
    \* the file system: where a segment is, where it may be after a power loss,
    \* its LF-terminated lines, whether a fragment follows them, and the lines
    \* that crossed a file fsync
    where, maybe, lines, torn, synced,
    \* observations the properties speak of: the events a reader finds, the
    \* critical ones among those ever accepted, and the critical ones the writer
    \* has reported durable
    accepted, critical, acked,
    \* faults injected so far
    faults

control == <<alive, phase, pc, op>>
writer == <<epoch, nextSeq, seg, lockHeld, snap>>
urgency == <<currentCritical, criticalPending, rotationPending, flushSignal,
             debts, debtSnapshot>>
supervision == <<flusher, interval, finalFlush, wantClose>>
disk == <<where, maybe, lines, torn, synced>>
observed == <<accepted, critical, acked>>
vars == <<control, writer, urgency, supervision, disk, observed, faults>>

-----------------------------------------------------------------------------
(* Vocabulary *)

Holds(f, e) == /\ f[1] = e[1]
               /\ where[f] # "none"
               /\ f[2] <= e[2]
               /\ e[2] < f[2] + lines[f]

\* The event is in a line that a file fsync covered, of a file whose directory
\* entry cannot vanish in a power loss.
Durable(e) == \E f \in Segment : /\ f[1] = e[1]
                                 /\ "none" \notin maybe[f]
                                 /\ f[2] <= e[2]
                                 /\ e[2] < f[2] + synced[f]

\* fsync of active/ settles every creation and removal made in it, and fsync of
\* closed/ every rename into it.
ActiveDirSynced_FileOnly(m, w) == m  \* the directory fsync is left out
ActiveDirSynced(m, w) ==
    [f \in Segment |-> IF w[f] = "closed" THEN m[f] ELSE {w[f]}]
ClosedDirSynced(m, w) ==
    [f \in Segment |-> IF w[f] = "closed" THEN {"closed"} ELSE m[f]]

Fault == faults < MaxFaults /\ faults' = faults + 1

-----------------------------------------------------------------------------
(* Internals of JournalWriter *)

\* _acquire_epoch_lock: flock conflicts between open file descriptions, so the
\* writer's own leftover descriptor refuses it as another process would.
AcquireEpochLock == ~lockHeld /\ lockHeld' = TRUE

\* _open_segment: O_CREAT | O_EXCL in active/.
CanOpenSegment == where[<<epoch, nextSeq>>] # "active"

OpenSegment ==
    LET s == <<epoch, nextSeq>> IN
    /\ CanOpenSegment
    /\ seg' = s
    /\ where' = [where EXCEPT ![s] = "active"]
    /\ maybe' = [maybe EXCEPT ![s] = @ \union {"active"}]
    /\ lines' = [lines EXCEPT ![s] = 0]
    /\ torn' = [torn EXCEPT ![s] = FALSE]
    /\ synced' = [synced EXCEPT ![s] = 0]
    /\ snap' = NoSegment
    /\ currentCritical' = FALSE
    /\ rotationPending' = FALSE

\* _record_durability_debt: an obligation only when the segment holds critical
\* events that no flush has covered.
RecordDebt_Forgotten(renamed) ==
    /\ currentCritical' = FALSE
    /\ criticalPending' = (debts # {})
    /\ UNCHANGED debts
RecordDebt(renamed) ==
    /\ debts' = IF currentCritical
                THEN debts \union {[segment |-> seg, renamed |-> renamed]}
                ELSE debts
    /\ currentCritical' = FALSE
    /\ criticalPending' = (debts' # {})

\* _drop_active_handles.
DropHandles ==
    /\ seg' = NoSegment
    /\ snap' = NoSegment
    /\ rotationPending' = FALSE

-----------------------------------------------------------------------------
(* Collector.start and the append path *)

Start ==
    /\ alive /\ phase = "new" /\ pc = "idle"
    /\ \/ /\ AcquireEpochLock
          /\ OpenSegment
          /\ phase' = "running"
          /\ flusher' = "loop"
          /\ UNCHANGED faults
       \/ /\ Fault
          /\ lockHeld' \in BOOLEAN
          /\ phase' = "discarded"
          /\ UNCHANGED <<seg, disk, snap, currentCritical, rotationPending, flusher>>
    /\ UNCHANGED <<alive, pc, op, epoch, nextSeq, criticalPending, flushSignal, debts,
                   debtSnapshot, interval, finalFlush, wantClose, observed>>

MayAppend == alive /\ phase \in {"running", "stopping"} /\ pc \in {"idle", "write"}

\* An append that finds no open segment acquires the epoch lock and opens one.
AppendReopen ==
    /\ MayAppend /\ pc = "idle" /\ seg = NoSegment
    /\ AcquireEpochLock
    /\ \/ /\ OpenSegment
          /\ pc' = "write"
          /\ UNCHANGED faults
       \/ /\ IF CanOpenSegment THEN Fault ELSE UNCHANGED faults
          /\ UNCHANGED <<pc, seg, disk, snap, currentCritical, rotationPending>>
    /\ UNCHANGED <<alive, phase, op, epoch, nextSeq, criticalPending, flushSignal, debts,
                   debtSnapshot, supervision, observed>>

\* The line is too large: nothing is written, the fresh segment stays open.
AppendTooLarge ==
    /\ MayAppend /\ pc = "write"
    /\ pc' = "idle"
    /\ UNCHANGED <<alive, phase, op, writer, urgency, supervision, disk, observed, faults>>

\* A critical event, or a segment that reached its threshold, wakes the flusher.
WakesFlusher(isCritical, n) == isCritical \/ n >= MaxSegmentEvents

AppendWhole(isCritical) ==
    /\ MayAppend /\ seg # NoSegment
    /\ nextSeq < MaxSeq
    /\ pc' = "idle"
    /\ nextSeq' = nextSeq + 1
    /\ lines' = [lines EXCEPT ![seg] = @ + 1]
    /\ currentCritical' = (currentCritical \/ isCritical)
    /\ criticalPending' = (criticalPending \/ isCritical)
    /\ rotationPending' = (rotationPending \/ lines'[seg] >= MaxSegmentEvents)
    /\ flushSignal' = (flushSignal \/ WakesFlusher(isCritical, lines'[seg]))
    /\ accepted' = accepted \union {<<epoch, nextSeq>>}
    /\ critical' = IF isCritical THEN critical \union {<<epoch, nextSeq>>} ELSE critical
    /\ UNCHANGED <<alive, phase, op, epoch, seg, lockHeld, snap, debts, debtSnapshot,
                   supervision, where, maybe, torn, synced, acked, faults>>

\* new_producer_epoch, numbered from 0 again.
NextProducer_SameEpoch == nextSeq' = 0 /\ UNCHANGED epoch
NextProducer == epoch' = epoch + 1 /\ nextSeq' = 0

\* _roll_after_failure.
AbandonSegment_KeepOpen == UNCHANGED <<writer, rotationPending>>
AbandonSegment ==
    /\ DropHandles
    /\ lockHeld' = FALSE
    /\ NextProducer

\* A short write: _roll_after_failure leaves the damaged segment in active/ and
\* takes a new producer epoch.  ENOSPC may have written nothing of the line.
AppendShort ==
    /\ MayAppend /\ seg # NoSegment
    /\ epoch < MaxEpoch
    /\ Fault
    /\ pc' = "idle"
    /\ \E fragment \in BOOLEAN : torn' = [torn EXCEPT ![seg] = fragment]
    /\ RecordDebt(FALSE)
    /\ AbandonSegment
    /\ UNCHANGED <<alive, phase, op, flushSignal, debtSnapshot, supervision, where, maybe,
                   lines, synced, observed>>

-----------------------------------------------------------------------------
(* Flusher loop *)

\* _sleep_interval reads critical_pending before the wait.
FlusherLoop ==
    /\ alive /\ flusher = "loop"
    /\ IF phase = "running"
       THEN flusher' = "wait" /\ interval' = IF criticalPending THEN "short" ELSE "long"
       ELSE flusher' = "off" /\ UNCHANGED interval
    /\ UNCHANGED <<control, writer, urgency, finalFlush, wantClose, disk, observed, faults>>

\* wait_for_flush_request returns on the signal, which it consumes, or on timeout.
FlusherWake ==
    /\ alive /\ flusher = "wait"
    /\ flusher' = IF phase = "running" THEN "tick" ELSE "off"
    /\ interval' = "long"
    /\ flushSignal' = FALSE
    /\ UNCHANGED <<control, writer, currentCritical, criticalPending, rotationPending,
                   debts, debtSnapshot, finalFlush, wantClose, disk, observed, faults>>

\* Collector.stop: Flusher.stop wakes the loop, then a final flush and a close are
\* handed to daemon threads that wait for the writer lock however long it takes.
Stop ==
    /\ alive /\ phase = "running"
    /\ phase' = "stopping"
    /\ finalFlush' = TRUE
    /\ wantClose' = TRUE
    /\ flushSignal' = TRUE
    /\ UNCHANGED <<alive, pc, op, writer, currentCritical, criticalPending,
                   rotationPending, debts, debtSnapshot, flusher, interval, disk, observed, faults>>

-----------------------------------------------------------------------------
(* JournalWriter.flush and JournalWriter.close *)

FlushBegin(by) ==
    /\ alive /\ pc = "idle"
    /\ \/ by = "tick" /\ flusher = "tick"
       \/ by = "final" /\ finalFlush
    /\ op' = by
    /\ debtSnapshot' = debts
    /\ pc' = IF seg = NoSegment THEN "retry" ELSE "sync"
    /\ UNCHANGED <<alive, phase, writer, currentCritical, criticalPending,
                   rotationPending, flushSignal, debts, supervision, disk, observed, faults>>

CloseBegin ==
    /\ alive /\ pc = "idle" /\ wantClose
    /\ op' = "close"
    /\ pc' = IF seg = NoSegment THEN "unlock" ELSE "sync"
    /\ UNCHANGED <<alive, phase, writer, urgency, supervision, disk, observed,
                   faults>>

\* _sync_active_segment_locked: fsync of the file, then of its directory.
SyncSegment ==
    /\ alive /\ pc = "sync"
    /\ synced' = [synced EXCEPT ![seg] = lines[seg]]
    /\ maybe' = ActiveDirSynced(maybe, where)
    /\ snap' = IF op = "close" THEN snap ELSE <<seg, lines[seg]>>
    /\ IF op = "close" \/ rotationPending
       THEN pc' = "rename" /\ UNCHANGED currentCritical
       ELSE pc' = "retry" /\ currentCritical' = FALSE
    /\ UNCHANGED <<alive, phase, op, epoch, nextSeq, seg, lockHeld, criticalPending,
                   rotationPending, flushSignal, debts, debtSnapshot, supervision,
                   where, lines, torn, observed, faults>>

\* A failing fsync, of the file or of its directory, stops flush from rotating;
\* close gives the segment up and records the debt.
SyncFails ==
    /\ alive /\ pc = "sync"
    /\ Fault
    /\ \/ UNCHANGED synced
       \/ synced' = [synced EXCEPT ![seg] = lines[seg]]
    /\ IF op = "close"
       THEN pc' = "unlock" /\ RecordDebt(TRUE) /\ DropHandles
       ELSE /\ pc' = "retry"
            /\ UNCHANGED <<debts, currentCritical, criticalPending, seg, snap,
                           rotationPending>>
    /\ UNCHANGED <<alive, phase, op, epoch, nextSeq, lockHeld, flushSignal,
                   debtSnapshot, supervision, where, maybe, lines, torn, observed>>

AfterClose == IF op = "close" THEN "unlock" ELSE "reopen"

\* An empty segment is unlinked, any other renamed.
CloseTarget(f) == IF lines[f] = 0 THEN "none" ELSE "closed"

\* The os.replace, or the unlink, of _close_segment_locked.
RenameSegment ==
    LET target == CloseTarget(seg) IN
    /\ alive /\ pc = "rename"
    /\ where' = [where EXCEPT ![seg] = target]
    /\ maybe' = [maybe EXCEPT ![seg] = @ \union {target}]
    /\ pc' = "dirsync"
    /\ UNCHANGED <<alive, phase, op, writer, urgency, supervision, lines, torn, synced, observed, faults>>

RenameFails ==
    /\ alive /\ pc = "rename"
    /\ Fault
    /\ RecordDebt(TRUE)
    /\ DropHandles
    /\ pc' = AfterClose
    /\ UNCHANGED <<alive, phase, op, epoch, nextSeq, lockHeld, flushSignal,
                   debtSnapshot, supervision, disk, observed>>

\* Both directories are fsynced, closed/ first.
SyncDirectories ==
    /\ alive /\ pc = "dirsync"
    /\ maybe' = ActiveDirSynced(ClosedDirSynced(maybe, where), where)
    /\ DropHandles
    /\ currentCritical' = FALSE
    /\ criticalPending' = (debts # {})
    /\ flushSignal' = FALSE
    /\ pc' = AfterClose
    /\ UNCHANGED <<alive, phase, op, epoch, nextSeq, lockHeld, debts, debtSnapshot,
                   supervision, where, lines, torn, synced, observed, faults>>

SyncDirectoriesFails ==
    /\ alive /\ pc = "dirsync"
    /\ Fault
    /\ \/ UNCHANGED maybe
       \/ maybe' = ClosedDirSynced(maybe, where)
    /\ RecordDebt(TRUE)
    /\ DropHandles
    /\ pc' = AfterClose
    /\ UNCHANGED <<alive, phase, op, epoch, nextSeq, lockHeld, flushSignal,
                   debtSnapshot, supervision, where, lines, torn, synced, observed>>

FlushReturns_EndsLoop ==  \* a flush that failed ends the flusher's loop
    /\ pc' = "idle"
    /\ op' = "tick"
    /\ flusher' = IF op # "tick" THEN flusher
                  ELSE IF currentCritical \/ debts # {} THEN "off" ELSE "loop"
    /\ finalFlush' = IF op = "final" THEN FALSE ELSE finalFlush
FlushReturns ==
    /\ pc' = "idle"
    /\ op' = "tick"
    /\ flusher' = IF op = "tick" THEN "loop" ELSE flusher
    /\ finalFlush' = IF op = "final" THEN FALSE ELSE finalFlush

\* _rotate_locked opens the next segment of the same epoch.
Reopen ==
    /\ alive /\ pc = "reopen"
    /\ OpenSegment
    /\ pc' = "retry"
    /\ UNCHANGED <<alive, phase, op, epoch, nextSeq, lockHeld, criticalPending,
                   flushSignal, debts, debtSnapshot, supervision, observed,
                   faults>>

\* The open raises through flush: no debt is retried and the epoch lock stays held.
ReopenFails ==
    /\ alive /\ pc = "reopen"
    /\ IF CanOpenSegment THEN Fault ELSE UNCHANGED faults
    /\ FlushReturns
    /\ UNCHANGED <<alive, phase, writer, urgency, interval, wantClose, disk, observed>>

\* A debt is retried when it was known before this flush began and still stands.
Payable == debtSnapshot \intersect debts

\* _retry_critical_debt_locked over the debts known when the flush began, then the
\* flush reports whether any critical event is still undurable.
RetryDebts ==
    /\ alive /\ pc = "retry"
    /\ \E paid \in SUBSET Payable :
          LET files == {d.segment : d \in paid}
              withClosed == \E d \in paid : d.renamed
          IN
          /\ IF paid = Payable THEN UNCHANGED faults ELSE Fault
          /\ debts' = debts \ paid
          /\ synced' = [f \in Segment |-> IF f \in files THEN lines[f] ELSE synced[f]]
          /\ maybe' = IF paid = {} THEN maybe
                      ELSE ActiveDirSynced(IF withClosed THEN ClosedDirSynced(maybe, where)
                                           ELSE maybe, where)
    /\ debtSnapshot' = {}
    /\ criticalPending' = (currentCritical \/ debts' # {})
    /\ flushSignal' = (flushSignal /\ criticalPending')
    /\ acked' = IF criticalPending' THEN acked ELSE critical
    /\ FlushReturns
    /\ UNCHANGED <<alive, phase, writer, currentCritical, rotationPending, interval,
                   wantClose, where, lines, torn, accepted, critical>>

\* close releases the epoch lock whatever became of the segment.
Unlock ==
    /\ alive /\ pc = "unlock"
    /\ lockHeld' = FALSE
    /\ wantClose' = FALSE
    /\ pc' = "idle" /\ op' = "tick"
    /\ UNCHANGED <<alive, phase, epoch, nextSeq, seg, snap, urgency, flusher,
                   interval, finalFlush, disk, observed, faults>>

\* durable_snapshot copies the prefix `snap` names, under the writer lock.
SnapshotAvailable == alive /\ pc = "idle" /\ snap # NoSegment

-----------------------------------------------------------------------------
(* Death of the process, and of the machine *)

\* What the process kept in memory is gone.
ProcessGone ==
    /\ alive' = FALSE /\ phase' = "discarded" /\ pc' = "idle" /\ op' = "tick"
    /\ epoch' = 0 /\ nextSeq' = 0 /\ seg' = NoSegment /\ lockHeld' = FALSE
    /\ snap' = NoSegment
    /\ currentCritical' = FALSE /\ criticalPending' = FALSE
    /\ rotationPending' = FALSE /\ flushSignal' = FALSE
    /\ debts' = {} /\ debtSnapshot' = {}
    /\ flusher' = "off" /\ interval' = "long"
    /\ finalFlush' = FALSE /\ wantClose' = FALSE
    /\ UNCHANGED <<critical, acked, faults>>

Crash ==
    /\ alive
    /\ ProcessGone
    /\ UNCHANGED <<disk, accepted>>

Unsynced == {f \in Segment : synced[f] < lines[f]}
Uncertain == {f \in Segment : maybe[f] # {where[f]}}

\* Every segment is found at one of the places its directories allow, with its
\* unsynced tail or without it, and maybe with a fragment of what is lost.
PowerLoss ==
    /\ alive
    /\ ProcessGone
    /\ \E lost \in SUBSET Unsynced, w \in [Uncertain -> Place] :
          /\ \A f \in Uncertain : w[f] \in maybe[f]
          /\ where' = [f \in Segment |-> IF f \in Uncertain THEN w[f] ELSE where[f]]
          /\ lines' = [f \in Segment |-> IF f \in lost THEN synced[f] ELSE lines[f]]
          /\ \E fragments \in {{}, lost} :
                torn' = [f \in Segment |-> IF f \in lost THEN f \in fragments ELSE torn[f]]
    /\ maybe' = [f \in Segment |-> {where'[f]}]
    /\ synced' = lines'
    /\ accepted' = {e \in accepted : \E f \in Segment :
                        /\ f[1] = e[1] /\ where'[f] # "none"
                        /\ f[2] <= e[2] /\ e[2] < f[2] + lines'[f]}

-----------------------------------------------------------------------------
Init ==
    /\ alive = TRUE /\ phase = "new" /\ pc = "idle" /\ op = "tick"
    /\ epoch = 0 /\ nextSeq = 0 /\ seg = NoSegment /\ lockHeld = FALSE
    /\ snap = NoSegment
    /\ currentCritical = FALSE /\ criticalPending = FALSE
    /\ rotationPending = FALSE /\ flushSignal = FALSE
    /\ debts = {} /\ debtSnapshot = {}
    /\ flusher = "off" /\ interval = "long"
    /\ finalFlush = FALSE /\ wantClose = FALSE
    /\ where = [f \in Segment |-> "none"]
    /\ maybe = [f \in Segment |-> {"none"}]
    /\ lines = [f \in Segment |-> 0]
    /\ torn = [f \in Segment |-> FALSE]
    /\ synced = [f \in Segment |-> 0]
    /\ accepted = {} /\ critical = {} /\ acked = {}
    /\ faults = 0

FlushStep ==
    \/ \E by \in {"tick", "final"} : FlushBegin(by)
    \/ CloseBegin
    \/ SyncSegment \/ RenameSegment \/ SyncDirectories \/ Reopen \/ RetryDebts \/ Unlock

FaultStep == SyncFails \/ RenameFails \/ SyncDirectoriesFails \/ ReopenFails

AppendStep ==
    \/ AppendReopen \/ AppendTooLarge \/ AppendShort
    \/ \E isCritical \in BOOLEAN : AppendWhole(isCritical)

Step ==
    \/ Start \/ AppendStep \/ FlusherLoop \/ FlusherWake \/ Stop
    \/ FlushStep \/ FaultStep

Next == Step \/ Crash \/ PowerLoss

Spec == Init /\ [][Next]_vars

\* The flusher loop runs (daemon thread or Hermes task) and an operation that holds the
\* writer lock finishes.  Hooks, faults, stops and deaths are not fair.
Fairness ==
    /\ WF_vars(FlusherLoop)
    /\ WF_vars(FlusherWake)
    /\ WF_vars(FlushStep)
    /\ WF_vars(ReopenFails)
    /\ WF_vars(pc = "write" /\ AppendStep)

LiveSpec == Spec /\ Fairness

-----------------------------------------------------------------------------
(* Properties *)

ControlTypeOK ==
    /\ alive \in BOOLEAN
    /\ phase \in {"new", "running", "stopping", "discarded"}
    /\ pc \in {"idle", "write", "sync", "rename", "dirsync", "reopen", "retry", "unlock"}
    /\ op \in {"tick", "final", "close"}
WriterTypeOK ==
    /\ epoch \in Epoch
    /\ nextSeq \in SeqNo
    /\ seg \in Segment \union {NoSegment}
    /\ lockHeld \in BOOLEAN
    /\ snap \in (Segment \X SeqNo) \union {NoSegment}
UrgencyTypeOK ==
    /\ currentCritical \in BOOLEAN /\ criticalPending \in BOOLEAN
    /\ rotationPending \in BOOLEAN /\ flushSignal \in BOOLEAN
    /\ debts \subseteq Debt /\ debtSnapshot \subseteq Debt
SupervisionTypeOK ==
    /\ flusher \in {"off", "loop", "wait", "tick"}
    /\ interval \in {"short", "long"}
    /\ finalFlush \in BOOLEAN /\ wantClose \in BOOLEAN
DiskTypeOK ==
    /\ where \in [Segment -> Place]
    /\ maybe \in [Segment -> SUBSET Place]
    /\ lines \in [Segment -> SeqNo]
    /\ torn \in [Segment -> BOOLEAN]
    /\ synced \in [Segment -> SeqNo]
ObservedTypeOK ==
    /\ accepted \subseteq Event /\ critical \subseteq Event /\ acked \subseteq Event
    /\ faults \in 0 .. MaxFaults

\* Every variable keeps to the values the code gives it.
TypeOK == /\ ControlTypeOK /\ WriterTypeOK /\ UrgencyTypeOK
          /\ SupervisionTypeOK /\ DiskTypeOK /\ ObservedTypeOK

InSegment(f, e) == f[1] = e[1] /\ f[2] <= e[2] /\ e[2] < f[2] + lines[f]

\* What the writer has in hand at each point of an operation: the open segment is the
\* epoch's newest, and its content is fsynced before it is renamed.
InHand ==
    /\ pc \in {"write", "sync", "rename", "dirsync"} => seg \in Segment
    /\ pc = "reopen" => seg = NoSegment
    /\ phase = "new" => /\ pc = "idle" /\ seg = NoSegment
                        /\ flusher = "off" /\ ~finalFlush /\ ~wantClose
    /\ seg \in Segment =>
          /\ alive
          /\ seg[1] = epoch
          /\ nextSeq = seg[2] + lines[seg]
          /\ where[seg] = IF pc = "dirsync" THEN CloseTarget(seg) ELSE "active"
    /\ pc \in {"rename", "dirsync"} =>
          /\ synced[seg] = lines[seg]
          /\ lines[seg] > 0 => "none" \notin maybe[seg]
    /\ currentCritical => seg \in Segment /\ lines[seg] > 0

\* Nothing lies beyond the next sequence number of the current epoch.
Frontier ==
    /\ \A f \in Segment : synced[f] <= lines[f]
    /\ alive => /\ \A f \in Segment : lines[f] > 0 =>
                      /\ where[f] # "none"
                      /\ f[1] <= epoch
                      /\ f[1] = epoch => f[2] + lines[f] <= nextSeq
                /\ \A e \in accepted : e[1] < epoch \/ (e[1] = epoch /\ e[2] < nextSeq)
                /\ critical \subseteq accepted

\* A debt is on a segment the writer gave up, still under one of the debt's names.
DebtsSettled ==
    \A d \in debts : /\ d.segment # seg
                     /\ lines[d.segment] > 0
                     /\ d.renamed \/ where[d.segment] = "active"

Owed(e) == \/ currentCritical /\ InSegment(seg, e)
           \/ \E d \in debts : InSegment(d.segment, e)

\* Every critical event is durable or owed, and whatever is owed is pending.
CriticalAccounted ==
    /\ alive => \A e \in critical : Durable(e) \/ Owed(e)
    /\ currentCritical \/ debts # {} => criticalPending
    /\ acked \subseteq critical
    /\ \A e \in acked : Durable(e)

\* The inductive invariant behind NoObligationLost and ImplementsAckLog.
JournalInv == TypeOK /\ InHand /\ Frontier /\ DebtsSettled /\ CriticalAccounted

\* No wake-up is lost: the flusher does not sleep for the ordinary interval on a critical event
\* that it has not been told of.
NotSleptOn ==
    phase = "running" /\ flusher = "wait" /\ interval = "long" /\ criticalPending => flushSignal

\* While no critical event is pending, every critical event the writer ever accepted
\* is durable: rotations, short writes, failed fsyncs, failed renames and retried
\* debts never let critical_pending fall before its file fsync succeeded.  One that is
\* pending is not slept on.
NoObligationLost == /\ alive /\ ~criticalPending => \A e \in critical : Durable(e)
                    /\ NotSleptOn

\* The writer, its flusher and the file system implement an acknowledged log: no
\* crash, power loss or sequence of I/O faults loses an event it reported durable.
Log == INSTANCE AckLog WITH log <- accepted
ImplementsAckLog == Log!LogSpec

\* What durable_snapshot would copy is durable, in a segment that still is the
\* writer's own active one.
SnapshotDurable ==
    SnapshotAvailable =>
        /\ seg = snap[1]
        /\ where[seg] = "active" /\ "none" \notin maybe[seg]
        /\ snap[2] <= synced[seg]

\* A reader finds each accepted event in exactly one segment, and the events of the
\* current epoch are numbered without a gap up to the next sequence number.
LogExact ==
    /\ \A e \in Event :
          Cardinality({f \in Segment : Holds(f, e)}) = IF e \in accepted THEN 1 ELSE 0
    /\ alive => \A s \in SeqNo : <<epoch, s>> \in accepted <=> s < nextSeq

\* A segment in closed/ is whole: no fragment, at least one event, all of it fsynced.
ClosedIsWhole ==
    \A f \in Segment : where[f] = "closed" => /\ ~torn[f]
                                              /\ lines[f] > 0
                                              /\ synced[f] = lines[f]

\* What is on disk is whole for whoever reads it: a reader or compactor the segments, the
\* checkpoint sink the writer's durable prefix.
SegmentsAreWhole == LogExact /\ ClosedIsWhole /\ SnapshotDurable

\* No event is ever appended behind a fragment.
NothingBehindFragment ==
    [][\A f \in Segment : torn[f] /\ where[f] = "active" => lines'[f] <= lines[f]]_vars

\* A critical event becomes durable unless the process dies or is stopped first.
CriticalBecomesDurable ==
    \A e \in Event :
        e \in critical ~> (Durable(e) \/ phase # "running")

\* Claimed by _roll_after_failure, refuted: between operations a writer that holds the
\* epoch lock has a segment open, so its own lock never refuses its next append.
NeverLockedOut ==
    alive /\ phase = "running" /\ pc = "idle" /\ lockHeld => seg # NoSegment
=============================================================================
