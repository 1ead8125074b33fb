# A TLA+ model of Aether Agents

Aether Agents (`src/src/aether_agents`) installs agent roles on a host runtime (Hermes), observes
what they do, and keeps what it observed on disk. This directory models the parts of it where
ordering, crashes and failures decide whether it is correct: TLA+ modules, TLC configurations that
check them on small instances, and proofs, checked by TLAPS, that hold for every value of the
constants. Source paths below are relative to `src/src/aether_agents` unless they start with `src/`.

## 1. The system

| Component | State it keeps | Operations | Hard part | What makes it correct | Modules |
|---|---|---|---|---|---|
| Journal writer, flusher, collector (`observation/capture/journal.py`, `flusher.py`, `collector.py`) | one active segment, an epoch flock, pending-critical flags, durability debts; the supervising loop | append, flush, rotate, close, roll after a failure, durable snapshot; start, tick, stop | short writes, failing fsyncs and renames, power loss between them, reopening after close; a wake-up signal consumed outside the lock | a critical event is pending until it is fsynced, and is fsynced in the end; nothing goes behind a fragment; a reader tells a dead writer from a live one | `AckLog`, `Journal`, `EpochProbe` |
| Checkpoint sink (`observation/checkpoint.py`) | which trace counts as opened | classify, request a review, approve | several processes list and copy segments while others rotate and die | what was granted rests on durable evidence of the assigned reviewer | `Checkpoint` |
| Hermes observer plugin, correlation (`capture/hermes_plugin.py`, `retained_index.py`, `correlation.py`) | traces, pending spans, bindings and intents, an index of everybody's journals | hook callbacks, the worker's round | two processes bind one task; starts refused, evicted or moved to another trace | a task has one attribution; an event hangs on something the journal has | `Binding`, `Capture` |
| Ingestion (`observation/reduce/ingest.py`) | per-segment cursors in SQLite, mirrored events, gaps | ingest pending segments in batches | segments renamed or archived under the reader, a crash between batch and cursor | no line is passed unsettled; a complete report is complete | `Ingest` |
| Retention (`observation/retention.py`) | closed segments, archive pairs, temporaries | compact a segment, recover interrupted compactions | a crash at each step of a two-file publication | an event is in the source or in a verified pair at every moment | `Retention` |
| Read model (`observation/storage.py`, `locking.py`, `projection_transition.py`) | a database, leases, a pointer | open, commit, rebuild, select, compensate | readers connected while a database is replaced; a drain with no deadline | whoever is connected is connected to the database that has the name | `Projection`; the pointer in `Lifecycle` |
| Reducer (`observation/reduce/*`) | none (pure over the events) | deduplicate, order, scan, derive | events in any order under clocks that disagree | the same events give the same summary, completed only on evidence | `Reduction`, `Summary`, `Process` |
| Objective contracts (`objective_contracts/*`) | drafts and finals of each worktree, execution boards | edit, finalize, supersede, hand over | two worktrees with locks of their own; git moves underneath | of each version one text is handed over, committed in the base it names | `Contracts` |
| Knowledge snapshots (`knowledge/snapshots.py`) | snapshots, structural bases, a pointer, an operation record | update | cancellation, two budgets, crashes, damage | readers reach one update's whole work; a complete snapshot is not given up for less | `Knowledge` |
| Semantic extraction (`knowledge/semantic.py`, `graph_worker.py`) | plans, a fragment cache, worker threads | plan, call models, drain, compose, settle | workers that cannot be stopped; partial failure; colliding identities | every chunk is accounted for; edges join what their names were declared to mean | `Semantic`, `Overlay` |
| Work memory (`knowledge/memory.py`) | an index, revision directories, a reflection | save, correct, delete, reflect, read | readers hold no lock; writers die half way | a note is kept and served whole | `Notes` |
| Claude adapter, worker launcher (`claude_code_adapter.py`, `kanban_worker_launcher.py`) | an attempt, Claude's process group, its receipt | launch, watch, classify, fall back | a signal racing a delivery, processes Claude left behind | one worker at a time, as far as `/proc` tells, and nothing done twice; the attempt ends | `Attempt` |
| Lifecycle (`lifecycle.py`) | releases, pointer, transition journal, managed homes, launcher, selector | install, update, rollback, recover, uninstall | a crash or a failure at every step | a transition ends whole, undone, or pending and recoverable | `Lifecycle` |
| Release preparation (`lifecycle.py`) | release directories | stage, verify, record, select | retries over what a failed one left; quiet tool failures; damage | a record is of one build, and what is compared of the selected one was whole | `Release` |
| Editable reconciliation (`hermes_editable.py`) | the mappings of several interpreters, private copies | reconcile | some reinstalled when one fails, the tree edited meanwhile | the receipt is true of every interpreter | `Editable` |
| CLI, queries and briefs, knowledge tools, MCP bridge, privacy guard, policy hook | none of their own | | none beyond what they call | | not modelled |

Interactions. Hermes hooks call the collector, which appends to the journal; the flusher thread
flushes it, and the checkpoint sink appends to it what it grants. `aether observe` and the plugin's
catch-up ingest the segments of every process (their own and others', live or dead) into the read
model; the epoch flock is how they tell a live producer from a dead one. Retention moves closed
segments into archives under the same storage-transition lock as ingestion, and the rebuild of the
database holds that lock too. The plugin's index reads the same segments for bindings. The
reducer reads the read model. A lifecycle transition selects a release, rewrites the managed homes
and moves the projection pointer of every project. A contract that is handed over provisions the
board on which the launcher's tasks are worked on.

## 2. Plan

The order was: what loses data first, then what reads it, then what replaces it.

1. The journal: `AckLog`, `Journal`, `EpochProbe`. *Done, proved.*
2. `Retention` and `Ingest`. *Done, proved.*
3. `Lifecycle`, then `Release` and `Editable`. *Done, proved.*
4. What is written down beside readers: `Projection`, `Notes`, `Contracts`, `Knowledge` with
   `Semantic`, `Overlay`. *Done, proved.*
5. What is attributed: `Binding`, `Capture`, `Checkpoint`, and who works: `Attempt`.
   *Done, proved.*
6. What is derived: `Reduction`, `Summary`, `Process`. *Done, proved.*

Left: the concurrent call of a second process in `Editable`; aggregates of the reducer (economics,
bottlenecks).

### Runs

Every property named here is checked by exactly one run. Components that share no state are checked
in one run, with a variable `side` that says which of them moves: a behaviour is of one component,
so nothing is interleaved that does not meet in the program, and the state graph is the disjoint
union of theirs. Where the parts of a property belong to one claim they are its conjuncts
(`ViewIsWhole`, `NotesAreWhole`, `OneWorker`, `TiedToItsTrace`, ...), each commented where it is
defined.

| Run | Shows | Bounds |
|---|---|---|
| `journal_safety` | Journal: no critical event is reported durable before it is and none that was is lost (`NoObligationLost`, `ImplementsAckLog`); the segments of a living writer hold each accepted event once and without a hole, closed ones are whole, and a durable prefix is not shortened (`SegmentsAreWhole`); no append goes behind a fragment (`NothingBehindFragment`). Checkpoint: an approval rests on durable evidence of its assignment (`CheckpointsRest`) | 2 epochs, 2 events, rotation at 2, 1 fault; 2 sinks (symmetric), 2 reports, 3 checkpoints, 1 segment that ends, is given up or loses its process |
| `probe` | an epoch whose live writer has it open is never judged or recorded unclean, though the record comes after the lock was given back (`LiveWriterNotUnclean`); a dead one always is (`DeathIsDetected`); a critical event becomes durable while the collector runs, though the reducer holds the epoch's lock at times (`CriticalBecomesDurable`) | 1 epoch, 2 events, rotation at 2, 2 faults |
| `lifecycle` | what is reported committed, failed or recovered is so in every part (`CommittedIsWhole`, `FailedIsUndone`, `RecoveredIsWhole`); there is one pending transition at most and its homes belong to its two ends (`PendingIsRecoverable`); it is settled once nothing interrupts (`PendingIsSettled`) | 2 releases, 2 roles, 2 skills, 1 project, 3 commands, 2 interruptions |
| `retention` | Retention: each segment survives every crash as its source or its pair (`NothingLost`), a recovery with nothing left for review leaves one form (`RecoveredIsSettled`), and recovery run again settles everything (`Settles`). Projection: `OneDatabase`; a drain of readers ends (`DrainEnds`). Attempt: `OneWorker`, `AttemptEnds` | 2 segments, 2 faults, 2 crashes; 3 processes, 4 openings, 1 row, 1 casualty; 1 misfire |
| `ingest` | no cursor stands behind a line that is neither a row nor indexed (`CursorCovers`); a complete report is complete (`CompleteIsSettled`); a bad line leaves a gap (`BadLineReported`); what is readable comes in (`CatchesUp`) | 2 segments, 2 lines, 1 odd line, batches of 2, 1 fault |
| `knowledge` | `ViewIsWhole`, `Accounted`, `CompleteIsKept`; an update ends though no model answers (`UpdateEnds`) | 2 chunks, 1 route and a former one, 2 in flight, 2 updates, 1 damage |
| `records` | `NotesAreWhole`; `ComposedAsMeant` (overlay); `OneCommittedHandoff` (contracts); `ReleaseIsWhole`; `ReceiptIsTrue` (editable) | 1 note, 2 texts, 2 revisions, 2 deaths; 2 base nodes, 2 local names, 2 fragments; 2 worktrees, 2 versions, 1 checkout, 1 crash; 2 wheels, 2 Hermes commits (symmetric), 3 commands, 1 damage, 1 crash; 2 interpreters, 2 sources, 3 editions, 3 edits, 2 calls, 1 harm |
| `binding` | a task never has two contradictory claims (`OneAttribution`); every intent is published or given up (`IntentSettles`) | 2 processes, 2 tasks (one the parent of the other), 2 tokens, 1 trouble |
| `events` | the reducer: `OrderFree`, `CompletedIsProven`, `CountedOnce`, `RoundsAreReal`. The hooks: `TiedToItsTrace` | 6 scenarios of up to 15 events, 4 skews of two clocks; 4 spans of which 3 begin, 2 traces (symmetric), tables of 1, 1 refused event |
| `journal_lockout`, `lifecycle_partial`, `events_path` | three claims of the documentation that the code does not keep (section 14) | smallest that shows it |

Why these bounds. Two events and a threshold of two give segments that are empty, partly filled and
full; two epochs give one failure roll, after which a segment of the dead epoch still owes its
events; in `probe` two faults make a debt whose first retry fails. Three commands and two
interruptions give every pair of a transition with the one that follows its failure, a recovery
that is itself interrupted, and a compensation that is. Two segments show that one directory fsync
settles both, and that a segment can be in two directories while another is being listed. Three
processes are a rebuilder, a reader that keeps it waiting and one that comes later. Two chunks are
one that is composed and one that is not. A second version and a second worktree are what it takes
to finalize a version twice. Two interpreters are the one that fails and one before or behind it; three edits suffice to change a
tree, put the edit back and change it again. In `events` the tool table is exercised by a creation
and a contract call, and a tool call ends by the same hook as a model request.
In `binding` the two processes know the board by different traces (`BoardTrace`), and one of them
alone is in trouble (`Troubled`): the other's view is what the trouble could contradict; a root
without a token falls under the trace its process knows.

Every counter that only bounds the model is a constant with `Max` in its name and a guard; the
models stop when it is used up, and the programs they are of may stop for good. Deadlock is
therefore not checked, and the liveness properties say what must not get stuck.

### Fairness

* `ProbeLiveSpec`: the flusher is a daemon thread or a task of a running event loop, so its loop
  and its wake-up are weakly fair, a method that holds the writer's lock returns, and a reducer
  that runs repeatedly takes each of its steps, the recording of what it judged included. Hooks, faults, stops and deaths are not fair.
* `Lifecycle!LiveSpec`: a command that runs takes its next step (the code has no wait in it that
  another command must end), and an operator whose command failed runs `recover`, which is what the
  error messages tell him. Commands, interruptions and new projects are not fair.
* Retention: an operation that holds the lock goes on (weak), and recovery is begun again and again
  (strong, because it must compete with compactions for the lock). Nothing in `src/src` runs either
  operation yet (only tests do), so `Settles` says what a scheduler would get.
* Projection: a process that was started goes on (`GoesOn`). A flock is not fair: a rebuild that
  waits for the readers can be passed by new readers for ever. `MaxOpenings` bounds how often, so
  `DrainEnds` says that nobody who holds a lease waits for the rebuild, and not that readers cannot
  starve it.
* Attempt: the launcher takes its next step, and Claude ends when its input has ended. Claude need
  not answer, deliver or end before that. The launcher polls Claude's output over and over, so a
  poll that can end it is strongly fair; what Claude left behind may print for ever, and then the
  attempt need not end (`[]<>~chatter` is a premise of `AttemptEnds`).
* `Ingest!LiveSpec`: every query starts a pass, so passes are weakly fair, and a pass that runs
  takes its next step. Writers, retention, deadlines and faults are not fair.
* `Knowledge!LiveSpec`: within an update time passes or its thread goes on. No model has to
  answer.
* Binding: each process's worker wakes at an interval, so its round is weakly fair, per process.

## 3. The journal

### Model and code

`Journal.tla` is one process: `JournalWriter`, `Flusher` and `Collector.start`/`stop`, over a file
system that may lose whatever was not fsynced.

* Every method of the writer runs under `self._lock` (a thread lock), so `pc = "idle"` means the
  lock is free. An append is one step, except that reopening a segment leaves `pc = "write"`
  between the open and the write. `flush` and `close` are split at each system call that a crash
  can separate: file and directory fsync (`SyncSegment`), `os.replace` or `os.unlink`
  (`RenameSegment`), fsync of both directories (`SyncDirectories`), the open of the next segment
  (`Reopen`), the retry of debts (`RetryDebts`), the release of the flock (`Unlock`). Each has its
  failing twin (`SyncFails`, ...), which models the `except OSError` path.
* The writer's fields keep their names: `seg` is `_active_path`/`_fd`, `currentCritical` is
  `_current_segment_critical`, `criticalPending` is `_critical_pending`, `rotationPending`,
  `flushSignal`, `debts` is `_critical_debts`, `debtSnapshot` the tuple `flush` takes of it, `snap`
  is `_durable_snapshot_state`, `lockHeld` is `_lock_fd`.
* The file system: `where` is what a lookup finds, `maybe` the places a power loss may leave the
  file at (a directory fsync reduces it to one), `lines` and `torn` the content, `synced` the
  lines an fsync covered.
* `accepted`, `critical` and `acked` are observations: what a reader finds, the critical events
  ever accepted, the critical events covered when `critical_pending` last fell.
* `Crash` ends the process; `PowerLoss` ends the machine as well. A process is modelled once: a
  restarted process has a fresh random epoch, so its segments, its lock file and its debts share
  nothing with those of the dead one.

`AckLog.tla` is what the journal promises: accept, acknowledge, and lose only what was not
acknowledged; `ImplementsAckLog` is the refinement. `EpochProbe.tla` adds a reducer in another
process that runs `epoch_is_unclean` step by step: list the segments, try the flock
(`ProbeLock`), give it back and answer (`ProbeVerdict`), and, in its caller, record the gap
(`ProbeRecord`), with the writer free to open, append, close or die between any two.

`NoObligationLost` has a second part for the hand-over of the flusher: a pending critical event
never meets a flusher that goes to sleep for its ordinary interval without the signal that wakes it
(`NotSleptOn`).

Abstractions: `fstat` on an open descriptor succeeds; `JOURNAL_BUSY` (the writer lock taken within
its timeout) and a refused flock change nothing and are stutters; a rename is atomic; an fsync
that returned makes the bytes durable; of an unsynced tail either all or nothing survives, with or
without a fragment; one fault per call.

### The checkpoint sink

`Checkpoint.tla` is `observation/checkpoint.py` in several processes (`Sinks`), over one trace and
one task. A sink lists the closed and archived segments first (`Emit`), copies the fsynced prefix
of its own afterwards (`Readings`), judges (`Classify`, `Review`, `Approve`) and appends
(`Record`), the opening of the trace first if this process has not written one. Either append may be
refused, and a refused one may be a short write: the segment is then given up where it stands and the
next is of a new epoch (`LeftBehind`), so that what one process wrote has no order across segments.
Other processes report native facts, flush, rotate and die between any two of these steps. `ReviewAuthority` is `_durable_review_principal`: one assignee, and one
classification that follows a native binding. An event is what it says, so a repeated checkpoint is
the same event; references and the privacy check of a block are reduced to what a grant depends on.
A segment whose process died, or that was given up, is kept in part and never read
again (`abandoned`). What a checkpoint follows was durable before it was written, and so outlives
it (`EvidenceOutlives`). The opening of the trace is not among that: it is not critical and is not
written again, so a checkpoint may outlive it, and nothing is claimed of it.

## 4. The lifecycle

### Transitions

`Lifecycle.tla` is `LifecycleManager` with its `ReleaseStore` (`lifecycle.py`) and
`projection_transition.py`: install, update, rollback, recover and uninstall, from the mutation
lock to its release.

* Every command takes the mutation lock (a file lock and a thread lock) first and keeps it, so one
  command runs at a time and `pc` is its program counter: `store_recover` and `finish_recovered`
  are `ReleaseStore._recover_locked`, `profiles` to `project` the rest of
  `LifecycleManager._recover_locked`, `register` and `authorize` the checks of
  `_register_locked` and `_activate_existing_locked`, `prepare` to `finish` the transition,
  `compensate` to `fail` its compensation, `unselect` to `unjournal` the uninstall. `part` says
  which of the four owns the step, where they share one method.
* On disk: `pointer` is `active.json`, `registered` and `recorded` the release records,
  `pending` the unfinished entries of the transition journal, `homes` the managed files of the
  profile homes, `projection` the projection pointer of each observed project, `launcher` and
  `selector` the launcher files and `runtime/current`, `service` what the gateway runs.
* A step is one durable write (`_atomic_bytes`, a pointer compare-and-swap, a symlink
  replacement): `WriteHome` writes or removes one managed file, in the order of the code
  (`MaterializeWrites`, `DeactivationWrites`, `RestoreWrites`).
* `Interrupt` is the death of the process, or an exception in a step that nothing compensates:
  both free the lock and leave the disk as it is. `StepFails`, `ProjectFails` and
  `TransitionRefused` are exceptions inside the transition, which compensates.
* `NewProject` is the rest of the system: a project begins to be observed.

The instance has two releases (the second ships one more skill to one role and has a newer schema).

Abstractions: the bytes of a managed file are known by the release they come from, so two releases
never ship equal files; `config.yaml` is the operator's and left out; building and validating a
release, purging old ones, `doctor` and the cleaning of staging directories change none of this
state; removing all releases is one step; a failing validation is a failing step; the launcher
dispatches a command to the active release's manager, so the executing-manager check holds. A
restart of the service may fail without an error (`RestartService`): `project_release` records what
the controller answered and goes on. So a committed transition may leave the service on what it ran
before, or down, and a failed one on its target, and that is all `ServiceIsKnown` says.

### Releases

`Release.tla` is how a release comes into being (`prepare_release`, `install`, `update`,
`update_local`, `activate`, `rollback`). A release directory is the function from its parts to the
build they come from; it is named by the wheel alone, so two Hermes commits compete for one name.
A command stages in a directory that was not there (`Stage`), puts the parts in place one by one
(`CopyWheel` to `WriteManifest`), each of which a tool may fail to produce or produce wrong, records
last (`Record`), proves the target and the release it replaces (`Validate`), switches, and proves
again (`Prove`, `SelectPrior`). A part may be damaged at any later time. `Parts` are what the proof
compares: record, manifest, lock, wheel, markers, the Hermes source, profile, assets, and of each
environment the files of Aether, which the wheel alone determines (`OfWheel`). The packages of an
environment are not compared, and of Hermes only its version; `InstallHermes` therefore leaves
nothing a later step could tell right from wrong, and no property speaks of it. (Hermes runs in
place from the release's source, and that is compared.) What else moves with a selection is in
`Lifecycle`.

### Editable mappings

`Editable.tla` is `hermes_editable.py`: classify all interpreters (`Inspect`), copy each (`Copy`),
reinstall each (`Reinstall`), compare the tree (`CompareTree`), ask each (`Canary`), and on a
failure put every copy back (`Restore`). Somebody edits the tree meanwhile (`Edit`), uv fails after
it has uninstalled (`ReinstallFails`), a restore fails (`RestoreFails`), or the user interrupts,
which no handler catches (`UserInterrupts`). A mapping is its source and the edition of the tree it
was built from. The trees are compared by content, so an edit that is put back before the comparison
is not noticed: `unquiet` observes during whose installation the tree was edited, and the receipt
vouches for the edition of the others. The private copies hold the metadata and the mapping files
and no console scripts, so a rollback leaves `scripts` as uv left them. The concurrent call of a
second process is left out.

## 5. Retention

`Retention.tla` is `compact_segment` and `recover_interrupted` (`observation/retention.py`).

* Both hold the storage-transition lock of the project from start to end, and so does ingestion:
  one operation runs at a time, `op`, `pc` and `seg` say which, where it is and on what segment.
* On disk, per segment: `present` is what a lookup finds (the source in `closed/`; the archive,
  the manifest and leftover temporaries in `archive/`), `unsettled` the entries no directory
  fsync has covered since they changed. One fsync settles its directory for all segments, which
  is why the instance has two. The temporaries of the running attempt are implied by `pc`;
  `"temp"` stands for those an attempt left behind.
* A compaction writes and verifies its temporaries (`WriteTemporaries`), renames both, fsyncs the
  directory, verifies and fsyncs again, and removes the source (`Unlink`, `SyncClosed`). When the
  fsync of the removal fails it puts the bytes back (`RestoreSource`, `SyncRestored`) and still
  raises. A pair found complete is verified and its directory fsynced (`ProvePair`) first.
* A recovery has three stages, each over a fresh listing (`NextStage`): temporaries, halves of
  pairs whose source is there, sources of whole pairs. A segment it fails on goes to `manual` and
  the recovery goes on (`Raise`, `Discard`, `PairUnverified`).
* `Interrupt` is the death of the process, or an exception out of a compaction; `PowerLoss`
  decides each unsettled entry on its own, which allows more outcomes than a journalled file
  system has.

Abstractions: a file is fsynced before it gets its final name, so a name that survives has its
bytes, and a pair verifies exactly when both halves are there (bytes do not rot); every segment
starts eligible, whole and settled in `closed/`; a refused call changes nothing. The checks
against directories replaced and files planted under a running operation are left out. So is the
`.restore-*.tmp` an interrupted restoration leaves in `closed/`: nothing reads it, and no recovery
removes it.

## 6. Ingestion

`Ingest.tla` is `ingest_pending` (`observation/reduce/ingest.py`) with the transactions of
`ReadModel` (`observation/storage.py`), beside the process that writes the segments and beside
retention, both reduced to what a pass sees of them (`Environment`).

* A pass holds the storage-transition lock from `Begin` to `EndPass`, so `pc` is its program
  counter, and `Retain` runs only between passes. The writer takes no part in that lock and moves
  at any time: `list_segments` therefore is two steps (`List`), active directory first.
* A representation is a segment in a directory; each has its own cursor, so a segment that was
  closed or archived is read again from its start, as duplicates. `snap` is what `read_segment`
  returned, `pos` the lines passed.
* `batch` and `count` are the open SQLite transaction. `Commit` and `Checkpoint` are the two
  transactions of `flush_batch`; `after` is where the code goes on from it. Indexing a line of
  unknown schema, the cursor past it and its gap are three more (`Quarantine`, `PassQuarantined`,
  `ReportQuarantined`).
* A line that cannot be parsed, upcast or validated is `"bad"`; an event the storage refuses
  (identity, derivation, I/O) is `ProjectionFails`, which the next pass may not meet again. Both
  leave the cursor before the line (`Stop`).
* The database may be one of a release that recorded no derivation proofs (`Init`): such a row,
  met again, has the database replaced by an empty one (`Rebuild`) and the pass start over.
* `Deadline` is `check_deadline` finding the time of the query expired; `Interrupt` the death of
  the process or an exception, after which the code tries to save what it projected; `PowerLoss`
  also ends the writer and truncates its active segment.

Abstractions: one epoch and one trace, because epochs share nothing but the pass; a row and
everything derived from it are one thing (one savepoint); digests tell a prefix from a
truncation, the only change the journal makes to written bytes; fragments without a line end are
no lines; rotation is one step and durable; `epoch_is_unclean` is one step here (`EpochProbe` has
its interleavings); a lock that is not obtained in time changes nothing.

## 7. The read model

`Projection.tla` is the database beside its readers. A process leases (`Lease`), connects, commits
and closes; a pass over the journal takes the storage-transition lock first, and when the database
lacks a derivation proof it rebuilds: an empty candidate (`Build`), all leases drained (`Upgrade`,
where converting a flock gives up the old lock first), a checkpoint, the sidecars removed, the
rename (`Replace`), and the pass begun anew. A step of the rebuild may fail (`RebuildFails`,
`FallBack`, `Raised`) and a process may die at each. `live` and `candidate` are names, `conn` the
inode a process is connected to; rows are in an inode's file or its write-ahead log, which goes into
the file when the last connection closes (`Folded`). What an event derives is left out.

## 8. Knowledge

### Snapshots and extraction

`Knowledge.tla` is an update of a view (`KnowledgeStore.update`): `Begin`, the component's probe,
the existing snapshot and the sources (`Load`), the fast paths (`Decide`), the fingerprint, the
structural base (`Build`, `WriteBase`), the extraction, and then `Judge` (is there a candidate at
all, and may a complete snapshot be given up for it), the manifest, its validation, the pointer, the
record. `Ends` is `_operation_scope`: the record of an update, however it ends. Updates of a view
are serialised by its lock; `OtherView` is what updates of other views put into the shared cache and
plans, `Damage` a snapshot or base changed behind the program's back.

`Semantic.tla`, which `Knowledge` extends, is `run_semantic_extraction`: the plan, the lookup in the
cache, the scheduler (`Submit`, `Reap`, `EndSchedule`), a worker per chunk, the bounded drain
(`EndDrain`), one composition and the receipt (`Settle`). Time is what the code compares it with
(`Reserve`, `SemanticEnd`, `OperationReserve`, `OperationEnd`); a cancellation of the host and the
budget's own abort share one event, as in the code, and are told apart by `abort`. A worker that the
scheduler has given up on works on until it next looks at the event, so it can still put its
fragment into the cache while the receipt is made up (`Accounted`). It never does so beside a
composition: the drain that gives up on a worker has set the event, and then nothing is composed.

A composition that wrote its graph and then failed leaves it with the candidate. The base is restored
only where the receipt says "unavailable", so a pending or partial receipt, which may even be summed
up as "structural_only", can be published with that overlay: `ViewIsWhole` then asks that it be of
validated fragments of the receipt's route, and that a receipt which composed something shows
exactly that.

Abstractions: the sources of a revision do not change; a graph is told apart by its overlay; the
component's structural extraction and its queries are outcomes; `OtherView` and `Damage` are steps
only where an update is about to look, since they commute with the others.

`Overlay.tla` is the composition (`graph_worker.py`): fragments in order, in each the nodes, the
edges, the hyperedges; a member is added or left out; a node that is proven to be one of the base
stands for it (`Remaps`); a name may be declared again, with another anchor, and then is both added and
remapped (`declared` observes the declarations), so that an edge of that name joins what one of its
declarations means and nothing says which; the candidate is refused when the base read back is not the base
(`Publish`). Every base over the identities of the instance is an initial state.

### Work memory

`Notes.tla` is `memory.py` with one writer (they share a lock) and one reader, who goes from the
index to the record to the text without it. A publication is clear, text, record, index, unlink; a
deletion is the index first, then the reflection, then the files one by one. A writer may die
between any two. A digest is the text it is of. Searching and exporting read as the reader does.

## 9. Contracts and attempts

`Contracts.tla` is one Objective Contract in several worktrees, each with its own drafts, locks and
finals, so that only git and the board of a version relate them. `Link` and `Unlink` are the two
steps of finalizing; `CommitFinals` and `Checkout` are git, which owner and agents use as they like;
`Parse` to `Compare` is `prepare_handoff`, which takes no lock; `Provision` to `InitDatabase` is
`_provision_execution_board` under the board's lock. The bytes of a final version are its trace,
which is drawn for each rendering.

`Attempt.tla` is one attempt of a task: the launcher (`run_attempt`) from `route` to `over`, Claude
and its process group, processes that have left the group (`escaped`), the kernel's SIGTERM and the
board. Of those that left, the scan of `/proc` cannot miss a `"settled"` one, whose working directory
is in the worktree all the while; an `"elusive"` one works from elsewhere or moves while the scan goes
by, and where there is no `/proc` (`procfs`) nobody is found. What is left may print so often that no
poll of the output is empty (`chatter`), and only an empty poll looks at the two seconds the drain has. `Answer` is readiness, `Result` the end of the turn, `Deliver` a transition made through the
worker's tools, whose server may outlive Claude. `Terminate` is the signal: before the handlers are
installed it kills, after that it is a flag. Prompt, plugin and policy hook are data.

## 10. What the observer sees

`Binding.tla` is how tasks come to belong to a trace: each process binds in memory what its hooks
see (`Hook`), keeps the binding as an intent, and its worker publishes intents as claims (`Lock`,
`Emit`, `Unlock`) when its index of everybody's journals is current (`Stat`, `Read`, `Covers`). It
also reads the board (`WorkerRoot`, `WorkerInherit`) and restores what others claimed (`Restore`).
`log` is the union of the journals in the order of their appends, each entry with the epoch it is
of. Processes crash, appends fail, segments cannot be read, other events make a snapshot old
(`Noise`).

`Capture.tla` is the spans of one process: a hook opens one (`Pre`, `PreCreate`), another closes it
(`Post`, `Answered`, `Contract`, `Created`, `CreateUnbound`); each append may be refused, each table
forgets its oldest span (`Put`), and the binder may decide after the start which trace the call is
in (`Restarts`). After the start of a model request come its settings (`Settings`: configuration, tool
surface or a gap in their place), which name the start even if it was refused; `refused` is the set of
events the journal refused, so that the property can tell. The projection of payload fields, sub-agents, skills and dispatch ticks are data
and left out.

## 11. The reducer

Pure functions over the events of a trace, evaluated in every state of `Summary`, whose only step is
that an event arrives. `Reduction.tla` deduplicates (`Dedupe`), orders (`CausalOrder`) and scans
(`Scan`, one operator per handler of `reducer.py`); `Summary.tla` derives durations, the work graph,
acceptance and the completion state; `Process.tla` derives steps, links, rounds, waves and the
critical path.

`MCEvents` gives six scenarios: a run that is verified while others tell of it late; a reviewer who
is reclassified; one fact told by four captures, one of them differently; waits that overlap and
nest, of as many milliseconds as are reported one short; a wait for a review, a call whose start may
be missing and requests that only say how long they took; attempts of tasks split and dispatched by
two processes. Every subset of the late events under
every skew of two clocks is a state, so each is read in the order of those clocks. `OrderFree` asks
that deduplication give what it gives in the order of the producers' own numbers.
`CompletedIsProven` restates what completion promises without the scan, from the set of the events
and what is known to precede what: one accepted verification that all material progress precedes,
and of each bound task (`TaskShown`) a description without contradiction, a last word "done" before
the verification and, for a review, an approval by the bound reviewer who had been asked. It is
asked of traces whose producers do not contradict themselves (`Consistent`). `CountedOnce`
compares the interval arithmetic with sets of points. The code turns every total into milliseconds
by `int(total_seconds() * 1000)`, which loses one for some (1001, 1003, 1005, ...): `Short` is the
set of those, any set for the proofs and the real one below 4000 that the scenarios reach in the
run. So a figure may be one less than what it covers, and the property says by how much the
figures and the unclassified rest may be off. `RoundsAreReal` says of the rounds and waves
that what they claim is there: between any two steps of a round there is a path of events joined by
parent, span or task (`Joined`), no round comes before itself (`Later`), and the peak the sweep
returns is the definition of a maximum (`PeakIsReal`).

The cache of `_event_owner` (`process.py:841`) is left out: it changes an answer only where the
parents and spans that events claim go in a circle, and is then a matter of who asks first.

Left out: flow bottlenecks, model economics, coverage tables and improvement cues, which aggregate
what is modelled.

## 12. Proofs

All theorems are proved for every value of the constants, under the named assumptions of the modules
(bounds are naturals, markers such as `None` are not values, skills are not named like the other
files of a home, schemas are positive). TLC evaluates them on every run. `MaxSegmentEvents`,
`BatchSize`, `NChunks`, `MaxInFlight`, `MaxUpdates` and `MaxRevision` are positive, as their
configuration or the code has it; `SemanticAssumption` also says that "none" and "unresolved" are not routes. Each safety
invariant below is not inductive as it stands; what it needs is said here.

### `JournalProofs`

`JournalInv` carries the types, `NoObligationLost` and the refinement of `AckLog`. It adds, in the
order the parts are proved:

* `InHand`: the open segment is the newest of the current epoch and ends at `nextSeq`; its content
  is fsynced, and its entry cannot vanish, before it is renamed. Without it the type of `lines`
  is not preserved.
* `Frontier`: no event lies beyond `nextSeq`, so a segment opened there has a fresh name.
* `DebtsSettled`: a debt is on a segment that was given up and still is where the debt says, so the
  fsync of a retry settles it.
* `CriticalAccounted`: every critical event is durable or owed by the open segment or a debt, what
  is owed is pending, and what was acknowledged is durable.

`Kept` (no step makes a fsynced line or a settled directory entry uncertain again) carries
`Durable` across every step.

On top of it `SegmentsInv` (`Held`, `Numbered`, `ClosedWhole`, `Prefix`) gives `SegmentsAreWhole`:
an accepted event is in exactly one segment, those of the epoch are the numbers below the next one,
and what may be found in `closed/` after a power loss is whole already. `NothingBehindFragment` is
an action property: the step that appends has a segment in hand, and `InHand` says that one has no
fragment. `Exclusive` (the writer has its epoch's lock as long as it has a segment open) gives
`LiveWriterNotUnclean` of `EpochProbe`, with `Asked`: a reducer that asks after the epoch of a running
writer found a segment of it, so that writer has its lock and the reducer comes no further.
`NotSleptOn` rests on `Turns`: while the writer runs only its flusher flushes, and it is awake then.

`CheckpointInv` gives `CheckpointsRest`. A checkpoint is granted between the reading that justifies
it and the append that writes it, so the invariant speaks of granted checkpoints and of the listing
a sink still holds as well as of written ones: what was listed is shelved for good. A segment that
ends, is given up or dies with its process leaves a prefix (`Ends`), and nothing a checkpoint rests on
is looked for in a segment that is not durable.

### `IngestProofs`

`TypeOK`, `CursorCovers`, `PrefixMirrored`, `CompleteIsSettled` and `BadLineReported` from
`IngestInv`, in four parts, each preserved given those before it:

* `Types`: the types, and the bookkeeping of a pass: a transaction is counted and flushed before
  the next is begun (`Counting`), what is stopped at or indexed is a line that was read
  (`AtNextLine`).
* `Durable`: besides the two properties, the open transaction holds only lines already passed
  (`BatchOpen`), every line passed is settled or in it (`Reached`), and a line of unknown schema is
  indexed before it is passed (`Indexed`). This is what makes any of the three transactions of a
  flush a safe place to stop.
* `Covered`: why the order of the listing matters. Nothing lies behind the active segment
  (`Newest`); what was there when the pass began still has a file (`InJournal`); a segment that the
  listing of `active/` missed is not active any more (`HalfListed`), so the second half finds it;
  and then each segment is settled, counted corrupt or still to be read, unless the pass knows that
  it is incomplete (`Accounted`).

* `Reports`: a line that stops a segment is noted by the pass that stops there. Of what is stored it
  needs that an archive holds events alone, that the half that is written is the only file of its
  segment and has the only cursor, and that what is indexed is of unknown schema and not bad
  (`ActiveAlone`, `ArchivedEvents`, `SettledWritten`, `IndexedUnknown`). Within a pass each file
  that stands at a bad line has its gap, is still on the list, or is the one being read (`AllNoted`);
  a file that is listed stays until it is read (`ListedStays`), one that had moved when the first
  half was listed is in the second (`HalfAwaited`), and the pass knows the trace when it has passed
  an event (`KnownOfRead`), without which it would write no gap.

That the next segment is one of those listed (`FirstIsOne`) needs the least element of a set of
naturals, which the library's well-founded orders provide, and that a line fits its bound
(`Room`) needs cardinalities.

### `LifecycleProofs`

`LifecycleInv` gives all four safety properties of the transitions:

* `ControlInv`: what a command may be about at each step (which `part`, which verb, what it has
  proven when it comes there).
* `DiskInv`, `PendingInv`: one pending transition at most, none once recovery has dealt with it, and
  the markers of the homes name its two ends: this is `PendingIsRecoverable`, and it survives an
  interruption because it does not speak of the command.
* `TransitionInv`: what has been replaced so far, in the order of the steps, and what the
  compensation still has to put back.
* `TodoInv`: the writes that are left would make the homes whole. The writes are a sequence
  (`FlattenSeq`, `InOrder`), so what it contains is shown by induction over the numbers, stated of a
  set of numbers instead of a predicate (`WellFoundedInduction`).

`EditableInv` gives `ReceiptIsTrue`: the copies are of the distributions the call began with,
because nothing is installed before the last one is taken (`CopiesInv`); uv has changed scripts only
of interpreters it came to, in turn (`ScriptsInv`); and each mapping made is of the edition with the
receipt's digest unless the tree was edited while it was made, because the comparison before it found
the tree as it was (`MadeInv`).

`ReleaseInv` gives `ReleaseIsWhole`: a command that stages holds a directory that nobody had before,
so what it makes there can spoil neither the selected release nor a recorded one (`DirectoriesInv`),
and the record is written last, over parts each of which is the build's or was damaged after it was
made (`StagingInv`); an environment counts as made once it has been compared (`Uncompared`).

### `StoreProofs`

`ProjectionInv` gives `OneDatabase`. What a process holds at each step is a table (`Holds`); the
transition lock makes the rebuilding process one, and its exclusive lease leaves nobody else a lease
(`Alone`); a connection without a lease is the rebuilding process's own. So whoever replaces the
name has closed the last connection to the old inode (`Connects`), and no row is in what is replaced
(`RowsInv`).

`NotesInv` gives `NotesAreWhole`. A publication works on the revision after the current one and a
deletion on a note that has left the index (`WriterInv`), so only the step of the index changes what
the index names; each such step is a new generation, which the reflection kept is not of; and a
reader's text is checked against the record, which is of one recorded text (`RecordsInv`,
`ReaderInv`).

`OverlayInv` gives `ComposedAsMeant`. What a name is remapped to, and the node added for it, are each
what one of its declarations means (`Meanings`), an edge binds to one of the two or to the base, and
nothing added is where the base already has something (`Apart`).

`AttemptInv` gives `OneWorker`. What Claude delivers it delivers while it or its group lives, so
`AttemptActors` says who is alive at each step of the launcher: from `_cleanup_process_group` on nobody
can deliver any more, and whom the scan cannot miss has been found (`NoneSettled`). What the board said when it was read stays what it says about a delivery of
this run, because a delivery gives up the claim (`DeliveryInv`).

`ContractsInv` gives `OneCommittedHandoff`. `prepare_handoff` takes no lock, so `ReadsInv` says of
what was read only what a checkout cannot change: commits are only ever added, and `Compare` looked
at the commit itself. That a version is handed over once rests on the lock of the board: whoever
writes the metadata is alone at the version (`HoldersApart`), and metadata that is whole is never
written again.

### `ObserverProofs`

`BindingInv` gives `OneAttribution`. A process publishes a claim only while every journal entry
since its snapshot is its own (`Covers`), and nothing in the snapshot is about the task; what it has
itself written since then it remembers (`Remembers`), because the intent is marked or the task is in
conflict. So nothing is written about the task (`Unsaid`), and as long as the process holds the lock
nobody else writes a claim (`Alone`).

`CaptureInv` gives `TiedToItsTrace`: a pending span whose start was accepted names the trace the
start is in (`HeldHasStarted`), and the traces a process takes for opened are opened by the journals
(`KnownIsOpened`). Nothing is taken back from the journals, so both stay true whatever is refused,
evicted or bound in between; what the journal refused stays refused, which is what the settings of a
request need (`Rests`).

`RetentionInv` gives all safety properties of `Retention`. It adds to `NothingLost` what each step relies on:

* `SourceKept`: while the pair is being published, the source is in place whatever a power loss
  does.
* `ArchiveNamed`, `PairNamed`, `PairProved`: which halves have their names at which step, and that
  both are durable from the last fsync before the removal to the end of the restoration.
* `OrphansListed`: what recovery's second stage has on its list still is half a pair.

`ProgressInv` (`SourceGone`, `SourceToGo`, `StagesDone`, `OpStages`) adds what a recovery has
established so far in each stage, and gives `RecoveredIsSettled` and `ReturnedIsDurable`.

### `KnowledgeProofs`

`KnowledgeInv` is `SemanticInv` (the extraction) and `StoreInv` (the snapshots).

* Every chunk is in the cache's part, queued, or with a worker that the scheduler knows or, having
  given up on it, has told to stop (`Apart`, `Busy`, `PendingApart`): therefore none fails after the
  composition that holds it, and the receipt accounts for every chunk (`Accounted`). A validated
  fragment stays in the cache (`CacheGrows`).
* Until it composes, the overlay of the candidate is empty (`Plain`); the receipt says what the
  overlay is and the candidate says what the receipt said (`Says`, `ManifestsTrue`), and its
  validation makes it readable with its base (`Checked`, `OwnBases`): `ViewIsWhole`.
* A complete snapshot that is good when it would be replaced was good when the update looked, since
  nothing mends one (`Noticed`, `Complete`): `CompleteIsKept`. It is an action property, proved of
  the step that publishes.

### `FoldFacts` and `ReducerProofs`

The reducer is folds over sequences, and what a fold returns is shown by induction over the
elements. The provers cannot instantiate an operator that is the parameter of a theorem, but an
operator that is a constant of a module they can: `FoldFacts` proves, for a constant `Op`, that a
fold goes through a sequence of accumulators, each `Op` of the one before (`FoldGoes`), and that a
set of numbers that has 0 and the successor of each of its members has all of them (`Induction`).
`ReducerProofs` instantiates it once for each fold of the reducer, with the step of that fold, and
shows what the accumulators have in common.

The assumption is `TraceAssumption`: a trace is finitely many events, each with the fields of the
schema, an identifier of its own and a date that stays one when its producer's clock is off, no set of
identifiers is taken for `None`, and the parents of a task are finitely many. The read model's
primary key, the validation of events before they are written and the JSON they are written in
provide that.

* `ReductionIsOrderFree` (`OrderFree`). Which of several captures of one fact is kept is a function
  of the set of them: the ones another event names as its parent, or the one that outranks the
  others, and `Outranks` is a strict order, whose greatest member no order of reading changes. The
  invariant of the fold is that what has been kept is that function of what has been read
  (`DedupeOf`).
* `DurationsCountOnce` (`CountedOnce`). A set of intervals is read as the set of its milliseconds:
  merging keeps it (`UnionCounts`), `Remains` takes away what has precedence (`RemainsRemain`, the
  invariant of that fold), and what is left of the categories are then disjoint sets that together are
  what they were; `Ms` takes at most one from each figure. The scan
  leaves well-formed intervals (`Scanned`, preserved by every handler).
* `CompletionRestsOnEvidence` (`CompletedIsProven`). The order of the reading puts an event after
  everything known to precede it, as long as the producers do not contradict themselves
  (`Consistent`, from which `Rooted`, and `Causal` of what has been taken so far). The invariant of
  the scan (`Knows`) says of the events read so far, and so of a set that is closed under precedence
  (`Down`), what the scan's tables mean: what a task has been described as (`Pictured`), that a
  status "done" is of an event nothing read later contradicts (`DoneIn`), that an approval is of the
  bound reviewer who was asked (`Requested`, `ApprovedIn`), and that all that is material is in
  `deltas`. There is one lemma per handler. `Completion` then asks that the graph is settled, from
  which each bound task is shown (`Classified`, `TaskProven`), and that a verification is fresh,
  which compares it with all of `deltas`.

`CompletedIsProven` is stated of consistent traces only. Where positions are claimed twice or
precedence goes in a circle, "the last word" on a task has no meaning, and the code takes the order
it is presented with.

* `RoundsRestOnEvidence` (`RoundsAreReal`). Whatever grows within a finite set and stands still once
  it does not has stopped after as many steps as the set has members (`Saturates`): so the joining
  of tasks (`ComponentWhole`) and of events (`JoinedClosed`) is closed when it is returned, and being
  joined is mutual (`LinkedMutual`). An event is owned by what it began, or by what owns an event it
  is linked to; so its owner lies on its side of every set of events that parts no two linked ones
  (`Owns`, which `Answer` keeps: `AnswerOwns`). That the search for it ends is shown of the events
  not yet asked for (`FewerLeft`, `Searchable`), whatever parents are claimed, and the set joined to
  a step parts no linked events, so it holds every step of the round (`StepsJoined`). The round
  before is kept only if following it back ends (`Proven`); rounds that come before themselves could
  be followed for ever (`RoundsFollow`).
  The sweep, at a moment, has counted the spans that are under way at it (`SweepCounts`), and no
  more are under way at any moment than at the last at which one began (`DuringBegan`).

### Only model-checked

* Liveness, which the prover does not reach (it has no rule for `ENABLED`):
  `CriticalBecomesDurable`, `DeathIsDetected`, `PendingIsSettled`, `Settles`, `AttemptEnds`,
  `DrainEnds`, `CatchesUp`, `UpdateEnds`, `IntentSettles`.

## 13. Not modelled

`PROJECT.json` lists every component with its status and what is left out of it. Wholly left out are
the privacy guard and event contracts (data shaping), queries, briefs and reports (read-only
formatting), the knowledge tools and the MCP bridge (argument validation and pass-through), the
command line, launcher and paths (parsing and process launch), and the policy hook with `scripts/`,
`patches/`, `website/`, `docs/`. One hazard of the modelled code has no property: a rollback
recovers the journal without the homes and then asks the ownership questions of an ordinary
activation (`lifecycle.py:8603`); no text says what a rollback should own instead.

## 14. Where the code and its documentation disagree

With a run that shows it:

1. When opening a segment fails after the flock was taken, the writer keeps the flock without a
   segment, and its own flock refuses every later append (`journal_lockout`).
2. `_materialize_profile_homes` writes a role's files before the marker that proves they are
   Aether's, so an interruption inside one home, when no journal entry names the target, leaves
   bytes every later command refuses (`lifecycle_partial`).
3. `_critical_path` weighs steps in the order they are presented, so a step may be weighed before
   the one it follows, or after itself: the path reported is not a chain, or following it does not
   end (`events_path`).

Met while modelling; no run is kept for these, and the properties are stated so that they hold of
what the code does:

* `epoch_is_unclean` lists the segments before it tries the flock, so a clean close in between is
  reported as unclean, which the docstring of `close` excludes (`journal.py:521`).
* A rotation between a checkpoint sink's listing and its copy of its own prefix hides its own events
  from that reading; the checkpoint is refused, and granted when repeated.
* Compensation restores every file and does not restart the service, which stays on the failed
  target (FR-919a, `src/specs/r9-state-and-recovery/spec.md:182`); and a restart that fails quietly
  leaves a committed transition with a service of the old release, or none.
* A snapshot may be summed up as "structural_only" and still show what a composition wrote that failed
  afterwards (`src/specs/005-project-knowledge-graphify/contracts/expanded-tools-and-semantic.md:55`).
* `uninstall` removes the releases before the transition journal; stopped in between it leaves an
  entry no recovery can read (the same requirement).
* `prepare_release` says that a failure leaves the candidate below `staging/` (`lifecycle.py:5312`);
  it stays below `releases/`, where a retry of the same wheel is refused.
* A failed restore in `hermes_editable.py` ends the call without restoring the remaining
  interpreters, and the private copies are removed all the same.
* `_ingest_segment` writes the cursor past a line of unknown schema before it records the gap; a
  pass that ends in between hides the line from every later report
  (`src/specs/002-aether-contract-observation/spec.md:254`).
* A budget that runs out during an extraction sets the event that a cancellation sets, so the call
  of the component it interrupts ends as cancelled, where the guide promises a partial receipt
  (`src/docs/guides/project-knowledge.md:182`).
* A SIGTERM that arrives after the attempt was classified does not stop the fallback, where the plan
  says "no fallback" (`src/specs/external-implementer-harness/plan.md:335`).
* That a token matches one task is checked against each process's own memory, so two processes can
  each bind a root under one token (OBS-FR-049,
  `src/specs/002-aether-contract-observation/spec.md:480`).
* A contract call that fails, or does something else than finalize or hand over, has no terminal
  event, though its start was recorded (OBS-D-008, line 87 of that file).
* A heartbeat read after the end of its task sets the status of the task back to running
  ("Heartbeats can change liveness but never progress", line 349 of that file).
