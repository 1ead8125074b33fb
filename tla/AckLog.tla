------------------------------- MODULE AckLog -------------------------------
(***************************************************************************)
(* What the observation journal promises to whoever appends to it: an      *)
(* event that was accepted can be lost, but never one that the log         *)
(* acknowledged as durable, and an acknowledgement covers every critical   *)
(* event accepted before it.                                               *)
(***************************************************************************)
CONSTANT Event

VARIABLES log,       \* the events a reader finds
          critical,  \* the contract-critical events ever accepted
          acked      \* the critical events acknowledged as durable

logVars == <<log, critical, acked>>

LogInit == log = {} /\ critical = {} /\ acked = {}

\* A callback appends a new event.
Accept(e, isCritical) ==
    /\ e \notin log
    /\ log' = log \union {e}
    /\ critical' = IF isCritical THEN critical \union {e} ELSE critical
    /\ UNCHANGED acked

\* The log answers that no critical event is pending any more.
Acknowledge ==
    /\ critical \subseteq log
    /\ acked' = critical
    /\ UNCHANGED <<log, critical>>

\* The machine loses events, none of them acknowledged.
Lose ==
    /\ log' \subseteq log
    /\ acked \subseteq log'
    /\ UNCHANGED <<critical, acked>>

LogNext ==
    \/ \E e \in Event, isCritical \in BOOLEAN : Accept(e, isCritical)
    \/ Acknowledge
    \/ Lose

LogSpec == LogInit /\ [][LogNext]_logVars
=============================================================================
