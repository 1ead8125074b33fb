----------------------------- MODULE Retention -----------------------------
(***************************************************************************)
(* Compaction of closed segments and the recovery of what it left behind   *)
(* (observation/retention.py).  A segment leaves closed/ only for a pair   *)
(* of files in archive/, the archive and its manifest, published by two    *)
(* renames.  Compaction, recovery and ingestion exclude one another by the *)
(* project's storage-transition lock, so one operation runs at a time; it  *)
(* may fail or die between any two of its steps, and a power loss decides  *)
(* every directory entry that no fsync of its directory covered.           *)
(*                                                                         *)
(* A file is fsynced before it gets its final name, so an entry that is    *)
(* there has its bytes, and a pair verifies when both of its halves are    *)
(* there.  Every segment is eligible: closed, whole and valid.             *)
(***************************************************************************)
EXTENDS Naturals

CONSTANTS Segments,
          NoSegment,
          MaxFaults,    \* failing system calls
          MaxCrashes    \* operations that end in the middle, power losses

ASSUME BoundsAssumption == MaxFaults \in Nat /\ MaxCrashes \in Nat
ASSUME NoSegmentAssumption == NoSegment \notin Segments

\* The names of a segment: its JSONL in closed/; in archive/ the final archive and
\* manifest, and temporaries of attempts that are over.
InArchive == {"archive", "manifest", "temp"}
Entry == {"source"} \cup InArchive

VARIABLES
    present,      \* what a lookup finds
    unsettled,    \* entries a power loss may add or remove
    op, pc, seg,  \* the operation under the lock, its next step, its segment
    todo, manual, \* recovery: what its stage still has to do, what it gave up on
    faults, crashes

files == <<present, unsettled>>
vars == <<files, op, pc, seg, todo, manual, faults, crashes>>

Pair == {"archive", "manifest"}
Orphan(s) == Pair \cap present[s] \notin {{}, Pair}

\* In place whatever a power loss does.
Sure(s, x) == x \in present[s] /\ x \notin unsettled[s]
PairSure(s) == \A x \in Pair : Sure(s, x)

Removal == {"unlink", "syncClosed", "restore", "restoreSync"}
Compaction == {"write", "archive", "manifest", "sync", "resync"}
Recovery == {"temps", "orphans", "pairs"}

Fault == faults < MaxFaults /\ faults' = faults + 1

\* Names of one directory of segment s change; no fsync has covered the change.
Change(s, gone, new) ==
    /\ present' = [present EXCEPT ![s] = (@ \ gone) \cup new]
    /\ unsettled' = [unsettled EXCEPT ![s] = @ \cup gone \cup new]

\* An fsync of one directory settles the names of every segment in it.
SyncedDirectory(names) == [s \in Segments |-> unsettled[s] \ names]
SyncDirectory(names) ==
    /\ unsettled' = SyncedDirectory(names)
    /\ UNCHANGED present

Release ==
    /\ op' = "none" /\ pc' = "idle" /\ seg' = NoSegment
    /\ todo' = {} /\ manual' = {}

Raise_Silent ==   \* the segment is not noted for review
    IF op = "compact" THEN Release
    ELSE pc' = "pairs" /\ seg' = NoSegment /\ UNCHANGED <<op, todo, manual>>
\* Compaction lets an exception through; recovery notes the segment and goes on.
Raise ==
    IF op = "compact" THEN Release
    ELSE /\ pc' = "pairs" /\ seg' = NoSegment /\ manual' = manual \cup {seg}
         /\ UNCHANGED <<op, todo>>

Go(step) == pc' = step /\ UNCHANGED <<op, seg, todo, manual>>

-----------------------------------------------------------------------------
(* compact_segment *)

CompactBegin_Half(s) ==   \* an archive counts as a pair without its manifest
    /\ pc = "idle"
    /\ present[s] \cap {"source", "archive"} # {}
    /\ op' = "compact" /\ seg' = s
    /\ pc' = IF "archive" \in present[s] THEN "prove" ELSE "write"
    /\ UNCHANGED <<files, todo, manual, faults, crashes>>
\* A segment with no source is compacted already when its pair is there; a source
\* beside a whole pair only remains to be removed; half a pair is refused.
CompactBegin(s) ==
    /\ pc = "idle"
    /\ ~Orphan(s) /\ present[s] \cap ({"source"} \cup Pair) # {}
    /\ op' = "compact" /\ seg' = s
    /\ pc' = IF Pair \subseteq present[s] THEN "prove" ELSE "write"
    /\ UNCHANGED <<files, todo, manual, faults, crashes>>

\* Both temporaries are written, fsynced and verified.
WriteTemporaries ==
    /\ pc = "write"
    /\ unsettled' = [unsettled EXCEPT ![seg] = @ \cup {"temp"}]
    /\ Go("archive")
    /\ UNCHANGED <<present, faults, crashes>>

RenameArchive ==
    /\ pc = "archive"
    /\ Change(seg, {}, {"archive"})
    /\ Go("manifest")
    /\ UNCHANGED <<faults, crashes>>

RenameManifest ==
    /\ pc = "manifest"
    /\ Change(seg, {}, {"manifest"})
    /\ Go("sync")
    /\ UNCHANGED <<faults, crashes>>

SyncArchive ==
    /\ pc = "sync"
    /\ SyncDirectory(InArchive)
    /\ Go("resync")
    /\ UNCHANGED <<faults, crashes>>

\* The pair is verified at its final names, and its directory fsynced once more.
ResyncArchive ==
    /\ pc = "resync"
    /\ SyncDirectory(InArchive)
    /\ Go("unlink")
    /\ UNCHANGED <<faults, crashes>>

\* A pair found in place may owe its directory an fsync.
ProvePair ==
    /\ pc = "prove"
    /\ SyncDirectory(InArchive)
    /\ IF "source" \in present[seg] THEN Go("unlink") ELSE Release
    /\ UNCHANGED <<faults, crashes>>

-----------------------------------------------------------------------------
(* _remove_source_durable and _restore_source *)

Unlink ==
    /\ pc = "unlink"
    /\ Change(seg, {"source"}, {})
    /\ Go("syncClosed")
    /\ UNCHANGED <<faults, crashes>>

Removed ==
    IF op = "compact" THEN Release
    ELSE pc' = "pairs" /\ seg' = NoSegment /\ UNCHANGED <<op, todo, manual>>

SyncClosed ==
    /\ pc = "syncClosed"
    /\ SyncDirectory({"source"})
    /\ Removed
    /\ UNCHANGED <<faults, crashes>>

\* The fsync fails: the bytes still in memory get their name back.
SyncClosedFails ==
    /\ pc = "syncClosed" /\ Fault
    /\ Go("restore")
    /\ UNCHANGED <<files, crashes>>

RestoreSource ==
    /\ pc = "restore"
    /\ Change(seg, {}, {"source"})
    /\ Go("restoreSync")
    /\ UNCHANGED <<faults, crashes>>

\* Restored, the removal still is reported as failed.
SyncRestored ==
    /\ pc = "restoreSync"
    /\ SyncDirectory({"source"})
    /\ Raise
    /\ UNCHANGED <<faults, crashes>>

RemovalFails ==
    /\ \/ pc \in {"unlink", "restore", "restoreSync"}
       \/ pc = "prove" /\ op = "recover"
    /\ Fault
    /\ Raise
    /\ UNCHANGED <<files, crashes>>

-----------------------------------------------------------------------------
(* recover_interrupted: temporaries, then halves of pairs, then sources of pairs *)

RecoverBegin ==
    /\ pc = "idle"
    /\ op' = "recover" /\ pc' = "temps"
    /\ todo' = {s \in Segments : "temp" \in present[s]}
    /\ UNCHANGED <<files, seg, manual, faults, crashes>>

\* Names of archive/ are unlinked and the directory fsynced; when either call fails the
\* segment is left for manual review.
Discard(s, names) ==
    \/ /\ present' = [present EXCEPT ![s] = @ \ names]
       /\ unsettled' = SyncedDirectory(InArchive)
       /\ UNCHANGED <<manual, faults>>
    \/ /\ Fault
       /\ Change(s, names, {}) \/ UNCHANGED files
       /\ manual' = manual \cup {s}

DiscardTemporaries(s) ==
    /\ pc = "temps" /\ s \in todo
    /\ Discard(s, {"temp"})
    /\ todo' = todo \ {s}
    /\ UNCHANGED <<op, pc, seg, crashes>>

\* Half a pair proves nothing and is discarded, provided the source is there.
DiscardOrphan(s) ==
    /\ pc = "orphans" /\ s \in todo
    /\ IF "source" \in present[s] THEN Discard(s, Pair)
       ELSE manual' = manual \cup {s} /\ UNCHANGED <<files, faults>>
    /\ todo' = todo \ {s}
    /\ UNCHANGED <<op, pc, seg, crashes>>

\* Each stage lists the directory again.
NextStage ==
    /\ todo = {}
    /\ \/ /\ pc = "temps" /\ pc' = "orphans"
          /\ todo' = {s \in Segments : Orphan(s)}
       \/ /\ pc = "orphans" /\ pc' = "pairs"
          /\ todo' = {s \in Segments : Pair \subseteq present[s]}
    /\ UNCHANGED <<files, op, seg, manual, faults, crashes>>

CompletePair_KeepsSource(s) ==   \* a verified pair is taken as done
    /\ pc = "pairs" /\ s \in todo /\ Pair \subseteq present[s]
    /\ todo' = todo \ {s}
    /\ UNCHANGED <<files, op, pc, seg, manual, faults, crashes>>
\* The pair is verified; its source, if it is still there, is removed as by compaction.
CompletePair(s) ==
    /\ pc = "pairs" /\ s \in todo /\ Pair \subseteq present[s]
    /\ todo' = todo \ {s}
    /\ IF "source" \in present[s] THEN pc' = "prove" /\ seg' = s
       ELSE UNCHANGED <<pc, seg>>
    /\ UNCHANGED <<files, op, manual, faults, crashes>>

PairUnverified(s) ==
    /\ pc = "pairs" /\ s \in todo
    /\ IF Pair \subseteq present[s] THEN Fault ELSE UNCHANGED faults
    /\ todo' = todo \ {s} /\ manual' = manual \cup {s}
    /\ UNCHANGED <<files, op, pc, seg, crashes>>

RecoverEnd ==
    /\ pc = "pairs" /\ todo = {}
    /\ Release
    /\ UNCHANGED <<files, faults, crashes>>

-----------------------------------------------------------------------------
\* The process dies, or a step of a compaction raises.  Temporaries of the attempt stay,
\* and a half-written one may.
Interrupt ==
    /\ pc # "idle" /\ crashes < MaxCrashes
    /\ crashes' = crashes + 1
    /\ \/ pc \in {"write", "archive", "manifest"} /\ Change(seg, {}, {"temp"})
       \/ pc \notin {"archive", "manifest"} /\ UNCHANGED files
    /\ Release
    /\ UNCHANGED faults

PowerLoss ==
    /\ crashes < MaxCrashes
    /\ crashes' = crashes + 1
    /\ \E kept \in [Segments -> SUBSET Entry] :
          /\ \A s \in Segments :
                /\ present[s] \ unsettled[s] \subseteq kept[s]
                /\ kept[s] \subseteq present[s] \cup unsettled[s]
          /\ present' = kept
    /\ unsettled' = [s \in Segments |-> {}]
    /\ Release
    /\ UNCHANGED faults

Init ==
    /\ present = [s \in Segments |-> {"source"}]
    /\ unsettled = [s \in Segments |-> {}]
    /\ op = "none" /\ pc = "idle" /\ seg = NoSegment
    /\ todo = {} /\ manual = {}
    /\ faults = 0 /\ crashes = 0

Compact == \/ WriteTemporaries \/ RenameArchive \/ RenameManifest \/ SyncArchive
           \/ ResyncArchive \/ ProvePair
RemoveSource == \/ Unlink \/ SyncClosed \/ SyncClosedFails \/ RestoreSource \/ SyncRestored
          \/ RemovalFails
Recover == \/ NextStage \/ RecoverEnd
           \/ \E s \in Segments : \/ DiscardTemporaries(s) \/ DiscardOrphan(s)
                                  \/ CompletePair(s) \/ PairUnverified(s)
Step == Compact \/ RemoveSource \/ Recover

Next == \/ \E s \in Segments : CompactBegin(s)
        \/ RecoverBegin
        \/ Step
        \/ Interrupt \/ PowerLoss

Spec == Init /\ [][Next]_vars

\* An operation that holds the lock goes on, and recovery is run again and again.
LiveSpec == Spec /\ WF_vars(Step) /\ SF_vars(RecoverBegin)

-----------------------------------------------------------------------------
\* Every variable keeps to the values the code gives it; a step that works on a segment
\* has one.
TypeOK ==
    /\ present \in [Segments -> SUBSET Entry]
    /\ unsettled \in [Segments -> SUBSET Entry]
    /\ op \in {"none", "compact", "recover"}
    /\ pc \in {"idle", "prove"} \cup Compaction \cup Removal \cup Recovery
    /\ seg \in Segments \cup {NoSegment}
    /\ pc \in {"prove"} \cup Compaction \cup Removal => seg \in Segments
    /\ todo \subseteq Segments /\ manual \subseteq Segments
    /\ faults \in 0..MaxFaults /\ crashes \in 0..MaxCrashes

\* At every moment, and after any power loss, each segment is in closed/ or is a whole
\* verified pair: no interruption, failing fsync or recovery loses an event.
NothingLost == \A s \in Segments : Sure(s, "source") \/ PairSure(s)

\* A compaction that returns has made its pair durable and removed its source, and when
\* the removal was its own no power loss brings the source back.
CompactReturns(s) == /\ op = "compact" /\ seg = s
                     /\ SyncClosed \/ (ProvePair /\ pc' = "idle")
ReturnedIsDurable ==
    [][\A s \in Segments : CompactReturns(s) =>
          /\ PairSure(s)'
          /\ "source" \notin present'[s]
          /\ SyncClosed => "source" \notin unsettled'[s]]_vars

Settled(s) == present[s] \in {{"source"}, Pair}

\* A recovery that leaves nothing for manual review leaves every segment in one form,
\* with no temporary and no half of a pair beside it.
RecoveredIsSettled ==
    [][RecoverEnd /\ manual = {} => \A s \in Segments : Settled(s)]_vars

\* Half a pair never loses its source: recovery can always discard it.
OrphanHasSource == \A s \in Segments : Orphan(s) => "source" \in present[s]

\* Whatever an interrupted compaction left, recovery run again settles it.
Settles == \A s \in Segments : []<>Settled(s)
=============================================================================
