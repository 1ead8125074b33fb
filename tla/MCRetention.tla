---------------------------- MODULE MCRetention ----------------------------
(* Retention over two segments; the projection with its rebuild; an attempt of a task.  They     *)
(* share no state: a behaviour of MCSpec is of one of the three, so that the run does not        *)
(* interleave them.                                                                              *)
EXTENDS Retention, Projection, Attempt
VARIABLE side

MCInit == Init /\ ProjectionInit /\ AttemptInit /\ side \in {"retention", "projection", "attempt"}
Retain == side = "retention" /\ Next /\ UNCHANGED <<side, projectionVars, attemptVars>>
Project == side = "projection" /\ ProjectionNext /\ UNCHANGED <<side, vars, attemptVars>>
Try == side = "attempt" /\ AttemptNext /\ UNCHANGED <<side, vars, projectionVars>>
MCSpec ==
    /\ MCInit /\ [][Retain \/ Project \/ Try]_<<side, vars, projectionVars, attemptVars>>
    /\ WF_vars(side = "retention" /\ Step) /\ SF_vars(side = "retention" /\ RecoverBegin)
    /\ \A p \in Procs : WF_projectionVars(side = "projection" /\ GoesOn(p))
    /\ WF_attemptVars(side = "attempt" /\ Launcher)
    /\ SF_attemptVars(side = "attempt" /\ OutputEnds)
    /\ WF_attemptVars(side = "attempt" /\ ~input /\ ClaudeEnds)
=============================================================================
