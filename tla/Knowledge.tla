----------------------------- MODULE Knowledge -----------------------------
(***************************************************************************)
(* The knowledge snapshots of one view and revision (knowledge/snapshots   *)
(* .py): every update works under the lock of the view, on a directory of  *)
(* its own, and becomes visible by one replacement of the pointer.  The    *)
(* semantic extraction inside an update is the module Semantic.            *)
(*                                                                         *)
(* The lock serialises the updates of a view, so one update runs at a      *)
(* time; those of other views share the cache and the plans.  The sources  *)
(* of a revision never change, and a graph is told apart by its overlay.   *)
(***************************************************************************)
EXTENDS Semantic

CONSTANTS MaxUpdates,
          MaxDamage     \* snapshots or bases changed or removed behind the program's back

ASSUME KnowledgeAssumption == MaxUpdates \in Nat \ {0} /\ MaxDamage \in Nat

\* Snapshot 0 is one of an older release, without integrity metadata; snapshot 1 a complete one
\* of an earlier update.
None == -1
Ids == 0..MaxUpdates

Unwritten == [written |-> FALSE, trusted |-> FALSE, state |-> "none", route |-> "none",
              composed |-> {}, base |-> None, digest |-> NoGraph, graph |-> NoGraph]
Legacy == [Unwritten EXCEPT !.written = TRUE, !.state = "complete", !.digest = {}, !.graph = {}]
Earlier(r) == [written |-> TRUE, trusted |-> TRUE, state |-> "complete", route |-> r,
               composed |-> Chunks, base |-> 1, digest |-> Chunks, graph |-> Chunks]
Damaged == {-1}

VARIABLES
    pointer, snapshots,
    bases,       \* structural bases: "none", "graph" without manifest, "whole", "damaged"
    record,      \* outcome of operation.json
    op, mode, enabled,  \* this update: its snapshot, its mode, is semantics configured
    old, readable, same, \* the manifest it found, was its graph intact, the same inputs
    baseId, before,      \* the base of the candidate; observation: the pointer it found
    damage

disk == <<pointer, snapshots, bases, record>>
update == <<op, mode, enabled, old, readable, same, baseId, before>>
vars == <<semanticVars, disk, update, damage>>

Snapshot(id) == snapshots[id]
BaseIsValid(id) == Snapshot(id).base # None /\ bases[Snapshot(id).base] = "whole"

\* _snapshot: the manifest names this view and the graph is the one it was published with.
Readable(id) == Snapshot(id).written /\ Snapshot(id).graph = Snapshot(id).digest

\* _semantic_integrity
Trusted(id) == Snapshot(id).trusted /\ BaseIsValid(id)

-----------------------------------------------------------------------------
(* The scope of an operation *)

\* An update is over, and its variables with it.
Rests ==
    /\ Forgets
    /\ mode' = "structural" /\ enabled' = FALSE
    /\ old' = None /\ readable' = FALSE /\ same' = FALSE /\ baseId' = 0

\* Nothing reads a snapshot without the pointer, or a base without its snapshot, again.
Forgotten ==
    /\ snapshots' = [id \in Ids |-> IF id = pointer THEN snapshots[id] ELSE Unwritten]
    /\ bases' = [id \in Ids |-> IF pointer # None /\ id = Snapshot(pointer).base THEN bases[id]
                                ELSE "none"]
    /\ UNCHANGED <<pointer, op, before, asked, damage, store>>

\* _operation_scope: the record of an update, however it ends.
Ends(outcome) == pc' = "idle" /\ record' = outcome /\ Rests /\ Forgotten

Goes(step) ==
    /\ pc' = step
    /\ UNCHANGED <<disk, damage, budget, flags, store, work, extraction>>

Stopped == (supplied /\ event) \/ asked = "host"

\* KnowledgeStore.update up to the lock.  What the workers of an earlier update still put is
\* put as if by another view.
Begin ==
    /\ pc = "idle" /\ op < MaxUpdates
    /\ op' = op + 1
    /\ pc' = "probe"
    /\ record' = "running"
    /\ mode' \in {"structural", "configured"}
    /\ enabled' \in BOOLEAN
    /\ route' \in IF enabled' /\ mode' = "configured" THEN Resolutions ELSE {"none"}
    /\ wide' \in IF route' \in Routes THEN BOOLEAN ELSE {TRUE}
    /\ supplied' \in BOOLEAN
    /\ asked' = "no" /\ baseId' = op' /\ before' = pointer
    /\ UNCHANGED <<store, pointer, snapshots, bases, damage, clock, flags, work, reused, cached,
                   accepted, composed, receipt, graph, old, readable, same>>

Probe ==
    /\ pc = "probe"
    /\ \E end \in Bounded :
          \/ end \in {"cancelled", "deadline"} /\ Ends(end)
          \/ end = "error" /\ Ends("failed")
          \/ end = "ok" /\ Goes("load") /\ UNCHANGED <<update, graph>>

\* The existing snapshot, or what a corrupt one still says of itself; the sources.
Load ==
    /\ pc = "load"
    /\ \/ Ends("failed")
       \/ event /\ Ends("cancelled")
       \/ ~event /\ OperationOver /\ Ends("deadline")
       \/ /\ ~event /\ ~OperationOver
          /\ old' = IF pointer # None /\ Snapshot(pointer).written THEN pointer ELSE None
          /\ readable' = (old' # None /\ Readable(pointer))
          /\ Goes("decide")
          /\ UNCHANGED <<op, mode, enabled, same, baseId, before, graph>>

\* The fast paths: what is there is what a new snapshot would be.
Decide ==
    /\ pc = "decide"
    /\ LET isSame == old # None /\ readable /\ Trusted(old)
           state == Snapshot(old).state
       IN  \/ /\ isSame
              /\ \/ mode = "structural"
                 \/ mode = "configured" /\ ~enabled /\ state \in {"complete", "disabled"}
              /\ Ends("unchanged")
           \/ /\ ~(isSame /\ (mode = "structural" \/ (~enabled /\ state \in {"complete", "disabled"})))
              /\ same' = isSame
              /\ Goes(IF isSame /\ enabled THEN "fingerprint" ELSE "build")
              /\ UNCHANGED <<op, mode, enabled, old, readable, baseId, before, graph>>

\* compute_semantic_fingerprint: from the plan, or from chunks prepared anew.
Fingerprint ==
    /\ pc = "fingerprint"
    /\ LET matches == Snapshot(old).state = "complete" /\ Snapshot(old).route = route
           Known == IF matches THEN Ends("unchanged") ELSE Goes("build") /\ UNCHANGED <<update, graph>>
           Unknown == Goes("build") /\ UNCHANGED <<update, graph>>
       IN  IF route = "none" THEN Unknown
           ELSE IF HasPlan(route) THEN Known
           ELSE \E end \in Bounded :
                   \/ end \in {"cancelled", "deadline"} /\ Ends(end)
                   \/ end = "error" /\ (Unknown \/ Ends("failed"))
                   \/ end = "ok" /\ Known

\* A structural update takes the base of the last snapshot, if it is still whole; any other
\* has the component build the graph.
Build ==
    /\ pc = "build"
    /\ IF supplied /\ event THEN Ends("cancelled")
       ELSE IF mode = "structural" /\ old # None /\ BaseIsValid(old)
       THEN /\ graph' = {}
            /\ baseId' = Snapshot(old).base
            /\ Goes("disabled")
            /\ UNCHANGED <<op, mode, enabled, old, readable, same, before>>
       ELSE \E end \in Bounded :
               \/ end \in {"cancelled", "deadline"} /\ Ends(end)
               \/ end = "error" /\ Ends("failed")
               \/ end = "ok" /\ graph' = {} /\ Goes("base") /\ UNCHANGED update

\* _write_structural_base: the graph, then the manifest that makes it a base.
WriteBase ==
    /\ pc = "base"
    /\ bases' = [bases EXCEPT ![op] = IF @ = "none" THEN "graph" ELSE "whole"]
    /\ pc' = IF bases[op] = "none" THEN "base"
             ELSE IF mode = "configured" /\ enabled THEN "extract" ELSE "disabled"
    /\ UNCHANGED <<pointer, snapshots, record, update, damage, budget, flags, store, work,
                   extraction, graph>>

\* Without extraction the documents are pending, or disabled by the configuration.
Disabled ==
    /\ pc = "disabled"
    /\ pc' = "judge"
    /\ receipt' = [NoReceipt EXCEPT !.state = IF enabled THEN "pending" ELSE "disabled"]
    /\ UNCHANGED <<disk, update, damage, budget, flags, store, work, route, reused, cached,
                   accepted, composed, graph>>

BeginExtraction ==
    /\ pc = "extract"
    /\ IF supplied /\ event THEN Ends("cancelled") ELSE Goes("plan") /\ UNCHANGED <<update, graph>>

\* Any other failure of the extraction leaves its documents structural.
ExtractionFails ==
    /\ pc = "lookup"
    /\ pc' = "judge"
    /\ receipt' = [NoReceipt EXCEPT !.state = "unavailable"]
    /\ UNCHANGED <<disk, update, damage, budget, flags, store, work, route, reused, cached,
                   accepted, composed, graph>>

Extraction ==
    \/ Extract /\ UNCHANGED <<disk, update, damage>>
    \/ ExtractionFails
    \/ pc = "cancelled" /\ Ends("cancelled")

-----------------------------------------------------------------------------
(* From the receipt to the pointer *)

Retains_OnlyUnavailable ==   \* only a lost extraction retains the complete snapshot.
    same /\ Snapshot(old).state = "complete" /\ receipt.state = "unavailable"

\* A snapshot that is complete is not given up for one that is less.
Retains == same /\ Snapshot(old).state = "complete" /\ receipt.state # "complete"
           /\ mode = "configured" /\ enabled

Judge_KeepsOverlay ==   \* the base is not put back under an extraction that failed.
    /\ pc = "judge"
    /\ IF mode = "configured" /\ enabled /\ event /\ ~receipt.exhausted THEN Ends("cancelled")
       ELSE IF OperationOver \/ (receipt.operation /\ receipt.exhausted) THEN Ends("deadline")
       ELSE IF Retains THEN Ends("retained")
       ELSE Goes("manifest") /\ UNCHANGED <<update, graph>>

\* What the extraction brought decides whether there is a candidate at all.
Judge ==
    /\ pc = "judge"
    /\ IF mode = "configured" /\ enabled /\ event /\ ~receipt.exhausted THEN Ends("cancelled")
       ELSE IF OperationOver \/ (receipt.operation /\ receipt.exhausted) THEN Ends("deadline")
       ELSE IF Retains THEN Ends("retained")
       ELSE IF receipt.state # "unavailable" THEN Goes("manifest") /\ UNCHANGED <<update, graph>>
       ELSE IF bases[baseId] # "whole" THEN Ends("failed")
       ELSE graph' = {} /\ Goes("manifest") /\ UNCHANGED update

Candidate == [written |-> TRUE, trusted |-> TRUE, state |-> receipt.state,
              route |-> receipt.route, composed |-> receipt.composed, base |-> baseId,
              digest |-> graph, graph |-> graph]

WriteManifest ==
    /\ pc = "manifest"
    /\ IF Stopped THEN Ends("cancelled")
       ELSE IF OperationOver THEN Ends("deadline")
       ELSE /\ snapshots' = [snapshots EXCEPT ![op] = Candidate]
            /\ pc' = "check"
            /\ UNCHANGED <<pointer, bases, record, update, damage, budget, flags, store, work,
                           extraction, graph>>

\* _validate_candidate reads everything back.
ValidateCandidate ==
    /\ pc = "check"
    /\ IF ~Readable(op) \/ ~Trusted(op) THEN Ends("failed")
       ELSE IF Stopped THEN Ends("cancelled")
       ELSE IF OperationOver THEN Ends("deadline")
       ELSE Goes("publish") /\ UNCHANGED <<update, graph>>

\* _publish_candidate
Publish ==
    /\ pc = "publish"
    /\ IF supplied /\ event THEN Ends("cancelled")
       ELSE /\ pointer' = op
            /\ pc' = "report"
            /\ UNCHANGED <<snapshots, bases, record, update, damage, budget, flags, store, work,
                           extraction, graph>>

\* The record says published; an envelope that cannot be made turns it into a failure.
Report ==
    /\ pc = "report"
    /\ \/ Ends("published")
       \/ Ends("failed")

Update == \/ Begin \/ Probe \/ Load \/ Decide \/ Fingerprint \/ Build \/ WriteBase \/ Disabled
          \/ BeginExtraction \/ Extraction
          \/ Judge \/ WriteManifest \/ ValidateCandidate \/ Publish \/ Report

-----------------------------------------------------------------------------
(* The environment *)

Time == (Tick \/ Cancel) /\ UNCHANGED <<disk, update, damage>>

\* The process dies: the lock is free, the record says running, its threads are gone.
Crash ==
    /\ pc # "idle"
    /\ pc' = "idle"
    /\ Rests /\ Forgotten
    /\ UNCHANGED record

\* Updates of other views of the project fill the same cache and plans.  (It and Damage are
\* steps only where an update is about to look: anywhere else they commute with its steps.)
OtherView ==
    /\ pc \in {"fingerprint", "extract", "lookup"}
    /\ \E r \in Routes, c \in Chunks :
          /\ cache[r][c] # "qualified"
          /\ cache' = [cache EXCEPT ![r][c] = "qualified"]
          /\ plans' = plans \cup {r}
    /\ UNCHANGED <<budget, flags, pc, work, extraction, graph, disk, update, damage>>

Damage ==
    /\ damage < MaxDamage
    /\ damage' = damage + 1
    /\ \/ /\ pc = "load" /\ pointer # None
          /\ \E left \in {Unwritten, [Snapshot(pointer) EXCEPT !.graph = Damaged]} :
                snapshots' = [snapshots EXCEPT ![pointer] = left]
          /\ UNCHANGED bases
       \/ /\ pc = "check"
          /\ snapshots' = [snapshots EXCEPT ![op].graph = Damaged]
          /\ UNCHANGED bases
       \/ /\ pc \in {"load", "build", "judge", "check"}
          /\ \E id \in Ids : bases[id] = "whole" /\ bases' = [bases EXCEPT ![id] = "damaged"]
          /\ UNCHANGED snapshots
    /\ UNCHANGED <<semanticVars, pointer, record, update>>

Init ==
    /\ Rested /\ asked = "no" /\ pc = "idle"
    /\ mode = "structural" /\ enabled = FALSE
    /\ old = None /\ readable = FALSE /\ same = FALSE /\ baseId = 0
    /\ \E r \in Routes \cup {"former"} :   \* configured then
          /\ pointer \in {None, 0, 1}
          /\ plans = IF pointer = 1 THEN {r} \cap Routes ELSE {}
          /\ cache = [q \in Routes |-> [c \in Chunks |->
                        CASE pointer = 0 -> "legacy"
                          [] pointer = 1 /\ q = r -> "qualified"
                          [] OTHER -> "none"]]
          /\ snapshots = [id \in Ids |-> CASE id = 0 /\ pointer = 0 -> Legacy
                                           [] id = 1 /\ pointer = 1 -> Earlier(r)
                                           [] OTHER -> Unwritten]
    /\ bases = [id \in Ids |-> IF id = 1 /\ pointer = 1 THEN "whole" ELSE "none"]
    /\ record = "none"
    /\ op = 1 /\ before = pointer /\ damage = 0

Next == \/ Update
        \/ Worker /\ UNCHANGED <<disk, update, damage>>
        \/ Time \/ Crash \/ OtherView \/ Damage

Spec == Init /\ [][Next]_vars

\* Within an update time passes or its thread goes on; no model has to answer.
Moves == \/ Tick /\ UNCHANGED <<disk, update, damage>>
         \/ pc # "idle" /\ Update
LiveSpec == Spec /\ WF_vars(Moves)

-----------------------------------------------------------------------------
(* Properties *)

\* A snapshot whose documents are all covered is never replaced by one with less, as long as
\* semantics stay configured: not by an update that was cut short, lost its route, or ran into
\* the damage of its base (snapshots.py, the retained outcome).
CompleteIsKept ==
    [][ (pointer' # pointer /\ pointer # None /\ pointer # 0)
        => \/ Snapshot(pointer).state # "complete"
           \/ ~Readable(pointer) \/ ~Trusted(pointer)
           \/ ~enabled
           \/ snapshots'[pointer'].state = "complete" ]_vars

\* What readers reach through the pointer is one update's whole work: a manifest with its
\* graph and base, and the overlay of exactly the chunks its receipt composed.  Where it composed
\* none, the overlay is empty if the documents are disabled or unavailable; if they are pending or
\* partial it may be what a composition wrote that failed afterwards, though the coverage may say
\* structural_only: then too it is of validated fragments of the receipt's route.  Only damage
\* from outside changes that.
PublishedIsWhole ==
    LET s == Snapshot(pointer)
    IN  pointer \notin {None, 0} /\ damage = 0
        => /\ s.written /\ Readable(pointer) /\ BaseIsValid(pointer)
           /\ s.composed # {} => s.graph = s.composed
           /\ s.state = "complete" => s.composed = Chunks /\ s.route # "none"
           /\ s.state \in {"disabled", "unavailable"} => s.graph = {}
           /\ s.graph # {} => s.route # "none"
           /\ s.route \in Routes => s.graph \subseteq QualifiedOn(s.route)

\* The record of an update that has ended tells whether the view shows its snapshot.
EndedAsRecorded ==
    pc = "idle"
    => /\ record = "published" => pointer = op
       /\ record \in {"cancelled", "deadline", "unchanged", "retained"} => pointer = before

\* Every chunk of a receipt is composed, failed or pending, also of one that composed nothing
\* because the drain gave up on a worker: none is lost between a worker that finds the time used
\* up and does not mark it, the drain and the composition.  What is composed is neither failed
\* nor pending, has its fragment in the cache, and is all there is in the overlay.
Accounted ==
    pc = "judge" /\ receipt.route # "none"
    => /\ receipt.composed = composed
       /\ Chunks = composed \cup failed \cup pending
       /\ composed \cap (failed \cup pending) = {}
       /\ composed # {} => graph = composed
       /\ composed \subseteq Qualified

\* An update ends, though no model ever answers and no worker is waited for: the drain and the
\* deadlines bound it.
UpdateEnds == pc # "idle" ~> pc = "idle"

(* The view shows one update's whole work, and the record of the update says whether it is the
   last one's (snapshots.py, the end of update). *)
ViewIsWhole == PublishedIsWhole /\ EndedAsRecorded
=============================================================================
