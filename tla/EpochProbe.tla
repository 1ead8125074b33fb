----------------------------- MODULE EpochProbe -----------------------------
(***************************************************************************)
(* The journal writer of Journal together with a reducer of another        *)
(* process that asks whether a producer epoch ended uncleanly              *)
(* (epoch_is_unclean in capture/journal.py, called for every active        *)
(* segment by reduce/ingest.py).  The lock is given back before the answer *)
(* is returned and the gap recorded, so a writer that had closed may       *)
(* append late, to the same epoch, in between.                             *)
(***************************************************************************)
EXTENDS Journal

VARIABLES probe,       \* how far the reducer is with an epoch
          probeEpoch,  \* the epoch it asks about
          unclean      \* epochs with a recorded UNCLEAN_PRODUCER_TAIL gap

reducer == <<probe, probeEpoch, unclean>>
probeVars == <<vars, reducer>>

-----------------------------------------------------------------------------

LeftInActive(e) == \E f \in Segment : f[1] = e /\ where[f] = "active"

\* list_segments finds an active segment of the epoch.  One verdict per epoch is
\* enough: the gap it leads to is inserted once.
ProbeList(e) ==
    /\ probe = "idle" /\ e \notin unclean
    /\ LeftInActive(e)
    /\ probe' = "listed"
    /\ probeEpoch' = e
    /\ UNCHANGED <<vars, unclean>>

OwnedByWriter_Never(e) == FALSE           \* advisory locks are ignored
OwnedByWriter_ByFile(e) == epoch = e       \* a leftover lock file counts as owned
OwnedByWriter(e) == lockHeld /\ epoch = e

\* The non-blocking flock: refused while the writer owns the epoch.
ProbeLock ==
    /\ probe = "listed"
    /\ probe' = IF OwnedByWriter(probeEpoch) THEN "idle" ELSE "holding"
    /\ UNCHANGED <<vars, probeEpoch, unclean>>

\* The lock is given back; epoch_is_unclean answers that the epoch is.
ProbeVerdict ==
    /\ probe = "holding"
    /\ probe' = "judged"
    /\ UNCHANGED <<vars, probeEpoch, unclean>>

\* The gap of an epoch judged unclean is recorded.
ProbeRecord ==
    /\ probe = "judged"
    /\ probe' = "idle"
    /\ unclean' = unclean \union {probeEpoch}
    /\ UNCHANGED <<vars, probeEpoch>>

ReducerStep == (\E e \in Epoch : ProbeList(e)) \/ ProbeLock \/ ProbeVerdict \/ ProbeRecord

\* The writer's flock is refused while the reducer holds it.
NotWhileProbed == ~lockHeld /\ lockHeld' => ~(probe = "holding" /\ probeEpoch = epoch)

WriterStep == Step /\ NotWhileProbed /\ UNCHANGED reducer

WriterCrash == Crash /\ UNCHANGED reducer

\* A power loss ends the reducer as well; what it recorded is committed.
MachineDeath == PowerLoss /\ probe' = "idle" /\ UNCHANGED <<probeEpoch, unclean>>

ProbeInit == Init /\ probe = "idle" /\ probeEpoch = 0 /\ unclean = {}

ProbeNext == WriterStep \/ WriterCrash \/ MachineDeath \/ ReducerStep

ProbeSpec == ProbeInit /\ [][ProbeNext]_probeVars

\* Passes are repeated, and a pass asks after the epoch of every active segment.
ProbeFairness ==
    /\ \A e \in Epoch : SF_probeVars(ProbeList(e))
    /\ WF_probeVars(ProbeLock)
    /\ WF_probeVars(ProbeVerdict)
    /\ WF_probeVars(ProbeRecord)

\* The writer keeps its own fairness: it has to become durable although reducers hold the lock of
\* an epoch it would begin.
ProbeLiveSpec == ProbeSpec /\ ProbeFairness /\ Fairness

-----------------------------------------------------------------------------
(* Properties *)

\* No reducer judges an epoch unclean of which its live writer has a segment open, and none
\* records as unclean the epoch of a writer that is running, however long ago it judged it.
LiveWriterNotUnclean ==
    [][/\ probe' = "judged" /\ alive /\ seg # NoSegment => probe = "judged" \/ epoch # probeEpoch
       /\ alive /\ phase = "running" => epoch \notin unclean' \ unclean]_probeVars

\* A process that died with a segment in active/ has that epoch recorded as unclean.
DeathIsDetected ==
    \A e \in Epoch : (~alive /\ LeftInActive(e)) ~> (e \in unclean)

=============================================================================
