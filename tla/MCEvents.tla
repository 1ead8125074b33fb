------------------------------ MODULE MCEvents ------------------------------
(* The hooks of one process that emit events; and traces of which part is read, the rest arriving
   in any order.  A behaviour is of one of the two. *)
EXTENDS Process, Capture
CONSTANTS x, r, b, doc, i, crit, p, q, m1, c1, k1, w1, unit

MCKind == (m1 :> "request") @@ (c1 :> "create") @@ (k1 :> "contract") @@ (w1 :> "approval")
MCTask == (m1 :> unit) @@ (c1 :> unit) @@ (k1 :> Nothing) @@ (w1 :> Nothing)
MaxBegun == 3   \* Of the spans, those that begin in one behaviour
AnyTrace == Permutations(TraceIds)

E(id, type, at, f) == f @@ [id |-> id, type |-> type, at |-> at, epoch |-> 2, seq |-> id] @@ Blank
Mark(f) == f @@ [src |-> "checkpoint", auth |-> TRUE]
OnTask(t, f) == f @@ [task |-> t]
None0 == [src |-> "hook"]

Given == { E(1, "trace.opened", 1, None0),
            E(2, "work_unit.bound", 2, OnTask(x, [rel |-> "root", req |-> TRUE, binding |-> b, ts |-> "ready", profile |-> p])),
            E(3, "contract.executable", 3, Mark(None0)), E(4, "contract.persisted", 4, None0),
            E(5, "invariant.passed", 4, Mark([ref |-> i])),
            E(6, "acceptance.evaluated", 5, Mark([ref |-> crit, val |-> "passed", refs |-> {doc}])) }

Verified(id) == E(id, "contract.completion_verified", 11, Mark([st |-> "verified"]))
Started == OnTask(x, [run |-> 1, ts |-> "running"])
Finished == OnTask(x, [run |-> 1, ts |-> "done", out |-> "completed"])

\* A run ends and is verified; another process sees its end, its heartbeat or a block; a decision follows.
Closing == [given |-> Given, late |-> {
    E(7, "run.started", 7, Started), E(8, "run.finished", 9, Finished), Verified(9),
    E(10, "decision.recorded", 12, [val |-> "added"]),
    E(11, "run.finished", 9, [epoch |-> 1, seq |-> 2] @@ Finished),
    E(12, "work_unit.status", 8, [epoch |-> 1, seq |-> 1, src |-> "native"] @@ OnTask(x, [ts |-> "running"])),
    E(13, "work_unit.status", 8, [epoch |-> 3] @@ OnTask(x, [ts |-> "blocked"]))}]

\* The task of a reviewer, classified by the product; the reviewer may change.
Reviewer == OnTask(r, [binding |-> doc, ts |-> "ready", profile |-> q, parents |-> {x}])
Review == OnTask(r, Mark([binding |-> doc, profile |-> q]))
Reviewing == [given |-> Given \cup { E(7, "run.started", 7, Started), E(8, "run.finished", 8, Finished),
                                    E(9, "work_unit.bound", 8, Reviewer) },
    late |-> {
    E(10, "work_unit.bound", 9, OnTask(r, Mark([binding |-> doc, rel |-> "review", req |-> TRUE, parent |-> 9]))),
    E(11, "review.requested", 9, [parent |-> 10] @@ Review), E(12, "review.approved", 10, [ts |-> "done"] @@ Review),
    E(13, "review.approved", 10, [epoch |-> 1, parent |-> 11] @@ Review), Verified(14),
    E(15, "work_unit.bound", 9, [profile |-> p, src |-> "native", epoch |-> 3] @@ Reviewer)}]

\* One fact, told by several and by one of them differently
Told(id, f) == E(id, "work_unit.bound", 2, f @@ OnTask(x, [epoch |-> id, binding |-> b]))
Telling == [given |-> {}, late |-> {
    Told(1, None0), Told(2, [src |-> "native"]), Told(3, [src |-> "native"]), Told(4, [rel |-> "root"]),
    E(5, "work_unit.bound", 3, OnTask(x, Mark([binding |-> b, rel |-> "qa", req |-> TRUE, parent |-> 3]))),
    E(6, "decision.recorded", 3, [parent |-> 2, epoch |-> 6])}]

\* Waits and calls that overlap, some of them of as many milliseconds as are reported one short
Span(id, type, at, ref, val) == E(id, type, at, [ref |-> ref, val |-> val, epoch |-> 1])
Waiting == [given |-> {E(1, "trace.opened", 1, None0)}, late |-> {
    Span(2, "wait.started", 2, p, "owner"), Span(3, "wait.ended", 1003, p, None),
    Span(4, "tool.started", 1, q, None), Span(5, "tool.completed", 2007, q, None),
    Span(6, "wait.started", 4, doc, "process"), Span(7, "wait.ended", 1009, doc, None),
    E(8, "trace.cancelled", 1006, Mark([st |-> "cancelled"]))}]

\* A wait for a review; a call whose start may not be seen, and requests that only say how long they took
Lasting == [given |-> {E(1, "trace.opened", 1, None0)}, late |-> {
    Span(2, "wait.started", 5, p, "review"), Span(3, "wait.ended", 1010, p, None),
    Span(4, "tool.started", 700, q, None), E(5, "tool.completed", 1200, [ref |-> q, dur |-> 400]),
    E(6, "model.request_completed", 1190, [dur |-> 300]), E(7, "model.request_failed", 1012, [dur |-> 1005]),
    E(8, "trace.cancelled", 1100, Mark([st |-> "cancelled"]))}]

\* Attempts of a task and of those it was split into, dispatched by two processes
Ran(id, t, at, run, f) == E(id, "run.started", at, f @@ OnTask(t, [run |-> run, ts |-> "running"]))
Ended(id, t, at, run, how, f) == E(id, "run.finished", at, f @@ OnTask(t, [run |-> run, out |-> how]))
Split(f) == [parents |-> {x}] @@ f
Retrying == [given |-> {E(1, "trace.opened", 1, None0), Ran(2, x, 2, 1, None0), Ended(3, x, 4, 1, "crashed", None0)},
    late |-> {
    Ran(4, x, 5, 2, [parent |-> 3, epoch |-> 1]), Ended(5, x, 7, 2, "completed", [epoch |-> 1]),
    Ran(6, r, 6, 3, Split([epoch |-> 1])), Ended(7, r, 8, 3, "completed", Split([epoch |-> 3])),
    Ran(8, p, 6, 4, Split([epoch |-> 3, parent |-> 5])), Ran(9, q, 3, 5, None0), Ended(10, q, 6, 5, "timed_out", None0),
    E(11, "work_unit.bound", 9, OnTask(x, [parents |-> {r}, epoch |-> 1]))}]

MCSkews == {[e \in 0 .. 9 |-> IF e \in late0 THEN 3 ELSE 0] : late0 \in SUBSET {1, 2}}
MCScenarios == {Closing, Reviewing, Telling, Waiting, Lasting, Retrying}
\* Below 4000 milliseconds, by float arithmetic
MCShort == {2 * n + 1 : n \in 500 .. 511} \cup {4 * n + 2 : n \in 500 .. 511}

-----------------------------------------------------------------------------
VARIABLE side   \* "read" or "hooks": the component that moves

MCInit ==
    /\ CaptureInit
    /\ \/ side = "read" /\ SummaryInit
       \/ side = "hooks" /\ stored = {} /\ late = {}
MCNext ==
    /\ UNCHANGED side
    /\ \/ side = "read" /\ SummaryNext /\ UNCHANGED captureVars
       \/ side = "hooks" /\ CaptureNext /\ Cardinality(Begun') <= MaxBegun /\ UNCHANGED <<stored, late>>
MCSpec == MCInit /\ [][MCNext]_<<stored, late, captureVars, side>>
=============================================================================
