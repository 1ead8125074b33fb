------------------------------ MODULE Attempt ------------------------------
(***************************************************************************)
(* One attempt of an implementer's task: the launcher that the kernel       *)
(* supervises (kanban_worker_launcher.py and claude_code_adapter.py), the   *)
(* Claude process it drives and what Claude leaves behind, the kernel's     *)
(* signals, and the task on the board.  When Claude fails the launcher      *)
(* becomes Hermes, in the same worktree and for the same run.               *)
(***************************************************************************)
EXTENDS Naturals

CONSTANT MaxMisfires   \* Unreadable and StdoutCloses

Gates == {"hook", "mode", "mcp"}   \* SessionStart ran, bypassPermissions, the worker tools

VARIABLES step,       \* run_attempt
          exit,       \* of the launcher; "hermes" when it has become Hermes
          forwards,   \* the handlers of SIGTERM and SIGINT are installed
          sigterm,    \* sigterm_received
          claude,     \* none, alive, or how it ended
          group,      \* other writers in Claude's process group
          escaped,    \* and in a session of their own
          chatter,    \* one of them prints so often that no poll of Claude's output finds it quiet
          procfs,     \* there is a /proc
          gate,       \* what readiness_summary has confirmed
          turn, input,      \* of the one user message; Claude's stdin is open
          cause,      \* structured_fallback_cause is set
          task,       \* status and claim, and the latest event of this run
          receipt, transients,
          delivered, misfires

\* A settled writer has had its working directory in the worktree since Claude started it, for the
\* scan of /proc to read; an elusive one works from elsewhere, or moves while the scan goes by.
Stray == {"settled", "elusive"}

procs == <<claude, group, escaped, chatter, procfs>>
talk == <<gate, turn, input, cause>>
launcher == <<step, exit, forwards, receipt, transients>>
attemptVars == <<launcher, sigterm, procs, talk, task, delivered, misfires>>

Over == step = "over"
Misfires == misfires < MaxMisfires /\ misfires' = misfires + 1

-----------------------------------------------------------------------------
(* The launcher *)

Goes(from, to) == step = from /\ step' = to

End(code, outcome) ==
    /\ step' = "over" /\ exit' = code /\ receipt' = outcome
    /\ transients' = FALSE /\ forwards' = FALSE

PassThrough ==   \* not is_eligible_for_claude_code
    /\ step = "route" /\ End("hermes", "none")
    /\ UNCHANGED <<sigterm, procs, talk, task, delivered, misfires>>

\* The context and the settings Claude is given, in a directory of this attempt
WriteTransients == transients' = TRUE

Prepare ==
    /\ Goes("route", "spawn") /\ WriteTransients
    /\ UNCHANGED <<exit, forwards, receipt, sigterm, procs, talk, task, delivered, misfires>>

Spawn ==
    /\ \/ Goes("spawn", "install") /\ claude' = "alive"
       \/ Goes("spawn", "writer") /\ UNCHANGED claude
    /\ UNCHANGED <<exit, forwards, receipt, transients, sigterm, group, escaped, chatter, procfs, talk,
                   task, delivered, misfires>>

Install ==
    /\ Goes("install", "ready") /\ forwards' = TRUE
    /\ UNCHANGED <<exit, receipt, transients, sigterm, procs, talk, task, delivered, misfires>>

GiveTurn == turn' = "given"   \* the one user message

Ready ==
    /\ Goes("ready", "work") /\ gate = Gates
    /\ GiveTurn
    /\ UNCHANGED <<exit, forwards, receipt, transients, sigterm, procs, gate, input, cause, task, delivered, misfires>>

\* _cleanup_process_group: every member of the group is killed
KillGroup == /\ claude' = (IF claude = "alive" THEN "failed" ELSE claude)
             /\ group' = FALSE /\ UNCHANGED <<escaped, chatter, procfs>>

\* The deadline, or the end of Claude or of its output.  The handlers stay.
NotReady ==
    /\ Goes("ready", "writer")
    /\ KillGroup
    /\ UNCHANGED <<exit, forwards, receipt, transients, sigterm, talk, task, delivered, misfires>>

\* A poll finds no line, two seconds after the first such poll since Claude ended: whoever still
\* holds its stdout and is quiet then is not waited for.
OutputEnds_AtEof ==   \* without the bounded drain
    /\ Goes("work", "restore") /\ claude # "alive" /\ ~group
    /\ UNCHANGED <<exit, forwards, receipt, transients, sigterm, procs, talk, task, delivered, misfires>>

OutputEnds ==
    /\ Goes("work", "restore") /\ claude # "alive" /\ ~chatter
    /\ UNCHANGED <<exit, forwards, receipt, transients, sigterm, procs, talk, task, delivered, misfires>>

StdoutCloses ==
    /\ Misfires /\ Goes("work", "restore") /\ claude = "alive"
    /\ UNCHANGED <<exit, forwards, receipt, transients, sigterm, procs, talk, task, delivered>>

Restores ==
    /\ Goes("restore", "kill") /\ forwards' = FALSE
    /\ UNCHANGED <<exit, receipt, transients, sigterm, procs, talk, task, delivered, misfires>>

Kill ==
    /\ Goes("kill", "classify") /\ KillGroup
    /\ UNCHANGED <<exit, forwards, receipt, transients, sigterm, talk, task, delivered, misfires>>

Moved == task.event = "transition" \/ task.status = "moved"

\* The board is read once.
Classify ==
    /\ step = "classify"
    /\ IF Moved THEN End("0", "transition")
       ELSE IF sigterm THEN End("143", "sigterm")
       ELSE IF task.status = "closed" THEN End("claude", "task_terminal")
       ELSE IF task.claim # "mine" THEN End("claude", "claim_lost")
       ELSE IF cause \/ claude # "ok"
            THEN step' = "writer" /\ UNCHANGED <<exit, forwards, receipt, transients>>
       ELSE End("76", "clean_no_transition")
    /\ UNCHANGED <<sigterm, procs, talk, task, delivered, misfires>>

\* The exception of sqlite3 leaves run_attempt.
Unreadable ==
    /\ Misfires /\ step \in {"classify", "claim"}
    /\ step' = "over" /\ exit' = "1" /\ forwards' = FALSE
    /\ UNCHANGED <<receipt, transients, sigterm, procs, talk, task, delivered>>

\* _execute_fallback
CheckWriter_None ==   \* check_single_writer is not asked
    /\ Goes("writer", "claim") /\ UNCHANGED <<exit, forwards, receipt, transients>>
    /\ UNCHANGED <<sigterm, procs, talk, task, delivered, misfires>>

\* check_single_writer looks through /proc, process by process; without it nobody is found.
CheckWriter ==
    /\ step = "writer"
    /\ \/ /\ procfs /\ (claude = "alive" \/ group \/ escaped # {})
          /\ End("1", "fallback_rejected_surviving_writer")
       \/ /\ procfs => claude # "alive" /\ "settled" \notin escaped
          /\ step' = "claim" /\ UNCHANGED <<exit, forwards, receipt, transients>>
    /\ UNCHANGED <<sigterm, procs, talk, task, delivered, misfires>>

CheckClaim ==
    /\ step = "claim"
    /\ IF task.status = "closed" \/ task.claim # "mine"
       THEN End("1", "claim_lost")
       ELSE step' = "exec" /\ receipt' = "fallback" /\ UNCHANGED <<exit, forwards, transients>>
    /\ UNCHANGED <<sigterm, procs, talk, task, delivered, misfires>>

Exec ==
    /\ step = "exec" /\ End("hermes", receipt)
    /\ UNCHANGED <<sigterm, procs, talk, task, delivered, misfires>>

-----------------------------------------------------------------------------
(* Claude, and what it starts *)

\* A reply to a control request, or the nonce of the hook.  mcp_status is asked after the mode is known.
Answer(g) ==
    /\ step = "ready" /\ claude = "alive" /\ g \notin gate /\ (g = "mcp" => "mode" \in gate)
    /\ gate' = gate \cup {g}
    /\ UNCHANGED <<launcher, sigterm, procs, turn, input, cause, task, delivered, misfires>>

Blame(error) == cause' = error
EndInput == input' = FALSE

\* api_retry, or an error before the message is given
ApiRetry ==
    /\ step \in {"ready", "work"} /\ claude = "alive" /\ turn # "answered" /\ ~cause
    /\ Blame(TRUE)
    /\ UNCHANGED <<launcher, sigterm, procs, gate, turn, input, task, delivered, misfires>>

\* The result of the turn: an error, or a success that supersedes what it recovered from.
Result(error) ==
    /\ step = "work" /\ claude = "alive" /\ turn = "given"
    /\ turn' = "answered" /\ EndInput /\ Blame(error)
    /\ UNCHANGED <<launcher, sigterm, procs, gate, task, delivered, misfires>>

\* The worker's tools run in a server of the group, which may outlive Claude.
Deliver ==
    /\ turn # "none" /\ (claude = "alive" \/ group)
    /\ task.status = "running" /\ task.claim = "mine"
    /\ task' = [status |-> "moved", claim |-> "none", event |-> "transition"]
    /\ delivered' = TRUE
    /\ UNCHANGED <<launcher, sigterm, procs, talk, misfires>>

\* A later event of the run
Remark ==
    /\ turn # "none" /\ (claude = "alive" \/ group) /\ task.event = "transition"
    /\ task' = [task EXCEPT !.event = "other"]
    /\ UNCHANGED <<launcher, sigterm, procs, talk, delivered, misfires>>

Fork ==
    /\ claude = "alive"
    /\ \/ ~group /\ group' = TRUE /\ UNCHANGED escaped
       \/ \E k \in Stray \ escaped : escaped' = escaped \cup {k} /\ UNCHANGED group
    /\ UNCHANGED <<launcher, sigterm, claude, chatter, procfs, talk, task, delivered, misfires>>

ClaudeEnds ==
    /\ claude = "alive" /\ claude' \in {"ok", "failed"}
    /\ UNCHANGED <<launcher, sigterm, group, escaped, chatter, procfs, talk, task, delivered, misfires>>

\* One of the others ends, or goes elsewhere.
OtherEnds ==
    /\ \/ group /\ group' = FALSE /\ UNCHANGED escaped
       \/ \E k \in escaped : escaped' = escaped \ {k} /\ UNCHANGED group
       \/ "settled" \in escaped /\ escaped' = {"elusive"} /\ UNCHANGED group
    /\ chatter' \in {FALSE, chatter /\ (group' \/ escaped' # {})}
    /\ UNCHANGED <<launcher, sigterm, claude, procfs, talk, task, delivered, misfires>>

\* What Claude left behind prints on, line after line, or pauses.
Prints ==
    /\ step = "work" /\ claude # "alive" /\ (group \/ escaped # {})
    /\ chatter' = ~chatter
    /\ UNCHANGED <<launcher, sigterm, claude, group, escaped, procfs, talk, task, delivered, misfires>>

-----------------------------------------------------------------------------
(* The kernel, which stops the launcher or takes the task away *)

Terminate ==
    /\ ~Over
    /\ IF forwards THEN sigterm' = TRUE /\ UNCHANGED <<step, exit>>
                   ELSE step' = "over" /\ exit' = "killed" /\ UNCHANGED sigterm
    /\ UNCHANGED <<forwards, receipt, transients, procs, talk, task, delivered, misfires>>

TakeAway ==
    /\ task.claim = "mine"
    /\ \E s \in {"running", "moved", "closed"} :   \* reclaimed, finished by another run, cancelled
          task' = [task EXCEPT !.status = s, !.claim = "other"]
    /\ UNCHANGED <<launcher, sigterm, procs, talk, delivered, misfires>>

Reopen ==
    /\ task.status = "moved" /\ task' = [task EXCEPT !.status = "running", !.claim = "other"]
    /\ UNCHANGED <<launcher, sigterm, procs, talk, delivered, misfires>>

-----------------------------------------------------------------------------
AttemptInit ==
    /\ step = "route" /\ exit = "none" /\ forwards = FALSE /\ sigterm = FALSE
    /\ claude = "none" /\ group = FALSE /\ escaped = {} /\ chatter = FALSE /\ procfs \in BOOLEAN
    /\ gate = {} /\ turn = "none" /\ input = TRUE /\ cause = FALSE
    /\ task = [status |-> "running", claim |-> "mine", event |-> "none"]
    /\ receipt = "none" /\ transients = FALSE /\ delivered = FALSE /\ misfires = 0

Launcher ==
    \/ Prepare \/ Spawn \/ Install \/ Ready \/ NotReady \/ OutputEnds \/ Restores \/ Kill
    \/ Classify \/ CheckWriter \/ CheckClaim \/ Exec

AttemptNext ==
    \/ Launcher \/ PassThrough \/ StdoutCloses \/ Unreadable
    \/ \E g \in Gates : Answer(g)
    \/ \E error \in BOOLEAN : Result(error)
    \/ ApiRetry \/ Deliver \/ Remark \/ Fork \/ ClaudeEnds \/ OtherEnds \/ Prints
    \/ Terminate \/ TakeAway \/ Reopen

\* The launcher runs and polls Claude's output, and Claude ends when its input has: it reads
\* messages until then.
AttemptFairness == /\ WF_attemptVars(Launcher)
                   /\ SF_attemptVars(OutputEnds)
                   /\ WF_attemptVars(~input /\ ClaudeEnds)
AttemptSpec == AttemptInit /\ [][AttemptNext]_attemptVars /\ AttemptFairness

-----------------------------------------------------------------------------
(* Properties *)

\* Hermes starts beside neither Claude nor any process of its group, nor, where there is a /proc,
\* beside one that was in the worktree all the while.
OneWriter == exit = "hermes" => /\ claude # "alive" /\ ~group
                                /\ procfs => "settled" \notin escaped

\* What the run delivered is never done over by Hermes and never reported as anything but a delivery,
\* even when the kernel's signal raced it, unless the task was taken up again meanwhile.
DeliveryCounts ==
    /\ exit = "hermes" => ~delivered
    /\ delivered /\ Moved /\ receipt # "none" => exit = "0"

\* The attempt ends: when Claude has ended, though something it started holds its output open,
\* unless that prints without a pause; when Claude has answered; and when it never became ready.
AttemptEnds ==
    []<>~chatter =>
        /\ step \notin {"route", "work"} ~> step \in {"work", "over"}
        /\ step = "work" /\ (claude # "alive" \/ turn = "answered") ~> Over

(* The task is worked on by one worker at a time, as far as the check sees, and once: Hermes
   starts neither beside what Claude left running in the worktree nor over what Claude delivered
   (run_attempt, _execute_fallback). *)
OneWorker == OneWriter /\ DeliveryCounts
=============================================================================
