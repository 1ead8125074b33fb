----------------------------- MODULE MCJournal -----------------------------
(* Small instances of Journal for TLC, and of the checkpoint sink, which reads what the journal  *)
(* has made durable.  The two share no state: a behaviour is of one of them, so that the run     *)
(* does not interleave them.                                                                     *)
EXTENDS Journal, Checkpoint, TLC
CONSTANTS sink1, sink2, ref
VARIABLE side

\* The task is bound to its reviewer, again to another one as a required review, or unbound.
MCNativeFacts ==
    {[type |-> "bound", by |-> "supervisor", binding |-> ref, says |-> "unsaid"],
     [type |-> "bound", by |-> "morfeo", binding |-> ref, says |-> "required"],
     [type |-> "unbound", by |-> "supervisor", binding |-> ref, says |-> "unsaid"]}
MCSinks == Permutations(Sinks)

\* The active release is readable at first; a process that starts anew may find it unreadable.
MCInit ==
    /\ Init /\ CheckpointInit
    /\ side \in {"journal", "checkpoint"}
    /\ authority = [p \in Sinks |-> side = "checkpoint"]
Writing == side = "journal" /\ Next /\ UNCHANGED <<side, checkpointVars>>
Checkpointing == side = "checkpoint" /\ CheckpointNext /\ UNCHANGED <<side, vars>>
MCSpec == MCInit /\ [][Writing \/ Checkpointing]_<<side, vars, checkpointVars>>
=============================================================================
