----------------------------- MODULE MCRecords -----------------------------
(* What is written down, handed over or put in place by one actor at a time: the work notes, the *)
(* overlay of semantic fragments, a contract with its handoff, the making of a release, and the  *)
(* reconciliation of editable mappings.  They share no state: a behaviour is of one of the five, *)
(* so that the run does not interleave them.  The second edition of a source tree adds a module, *)
(* the third drops the first one.                                                                *)
EXTENDS Notes, Overlay, Contracts, Release, Editable, TLC
CONSTANTS module1, module2
VARIABLE side

MCExports == <<{module1}, {module1, module2}, {module2}>>
MCHermeses == Permutations(Hermeses)

MCInit ==
    /\ NotesInit /\ OverlayInit /\ ContractsInit /\ ReleaseInit /\ EditableInit
    /\ side \in {"notes", "overlay", "contract", "release", "editable"}
    /\ side # "overlay" => base = [anchor |-> [b \in BaseIds |-> NoAnchor], edges |-> {},
                                   hyperedges |-> {}, directed |-> TRUE]
    /\ side # "editable" => \A i \in Position : installed[i] = Plain
Noting == side = "notes" /\ NotesNext
          /\ UNCHANGED <<side, overlayVars, contractsVars, releaseVars, editableVars>>
Composing == side = "overlay" /\ OverlayNext
             /\ UNCHANGED <<side, notesVars, contractsVars, releaseVars, editableVars>>
Handing == side = "contract" /\ ContractsNext
           /\ UNCHANGED <<side, notesVars, overlayVars, releaseVars, editableVars>>
Staging == side = "release" /\ ReleaseNext
           /\ UNCHANGED <<side, notesVars, overlayVars, contractsVars, editableVars>>
Reconciling == side = "editable" /\ EditableNext
               /\ UNCHANGED <<side, notesVars, overlayVars, contractsVars, releaseVars>>
MCSpec ==
    MCInit /\ [][Noting \/ Composing \/ Handing \/ Staging \/ Reconciling]_
                <<side, notesVars, overlayVars, contractsVars, releaseVars, editableVars>>
=============================================================================
