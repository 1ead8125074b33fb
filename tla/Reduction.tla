----------------------------- MODULE Reduction -----------------------------
(***************************************************************************)
(* What the events of one trace say: duplicates of a fact collapse and      *)
(* contradictions are kept (reduce/reconciliation.py), what is left is put  *)
(* in causal order (reduce/process.py) and read once (reduce/reducer.py);   *)
(* how far the work has come is derived from what was found.  Identities,   *)
(* epochs and times are numbers; a field that is absent is None.            *)
(***************************************************************************)
EXTENDS Integers, Sequences, SequencesExt, FiniteSets, FiniteSetsExt, Functions, TLC

CONSTANTS None,
          Invariants   \* REQUIRED_EXECUTABLE_INVARIANTS

\* An event.  auth: what the authority context answers for its actor; ref: the call, wait, criterion
\* or invariant it is about; dur: how long it lasted.  The read model holds one event of an identity.
Blank == [id |-> 0, type |-> None, src |-> "hook", epoch |-> 0, seq |-> 0, parent |-> None, at |-> 0,
          task |-> None, env |-> None, binding |-> None, rel |-> "unknown", req |-> None, parents |-> {},
          ts |-> None, run |-> None, out |-> None, profile |-> None, st |-> None, auth |-> FALSE,
          ref |-> None, val |-> None, refs |-> {}, dur |-> None]

RunTypes == {"run.started", "run.finished"}
ReviewTypes == {"review.requested", "review.approved", "review.changes_requested"}
BindingTypes == {"work_unit.bound", "work_unit.unbound"}
UnitTypes == BindingTypes \cup {"work_unit.status"}
TerminalTypes == {"trace.cancelled", "trace.abandoned", "trace.failed"}
InvariantTypes == {"invariant.passed", "invariant.failed"}
Protected == ReviewTypes \cup TerminalTypes \cup InvariantTypes
             \cup {"contract.completion_verified", "acceptance.evaluated"}
ModelTypes == {"model.request_started", "model.request_completed", "model.request_failed",
               "context.compression_observed", "context.overflow_observed"}
Native(e) == e.src \in {"hook", "native"}

-----------------------------------------------------------------------------
(* Duplicates: a fact captured by a hook and again by a scan of the native store *)

NativeKey(e) ==
    CASE e.type \in RunTypes /\ e.run # None -> <<e.type, e.task, e.run>>
      [] e.type = "work_unit.status" -> <<e.type, e.task, e.run, e.at>>
      [] e.type \in BindingTypes /\ e.binding # None -> <<e.type, e.src = "checkpoint", e.task, e.binding>>
      [] e.type \in {"tool.started", "tool.completed"} -> <<e.type, e.ref>>
      [] OTHER -> None

Disposition(e) ==
    CASE e.type \in BindingTypes ->
             <<e.rel, e.req, e.parents, e.ts, e.profile, IF e.src = "checkpoint" THEN e.parent ELSE None>>
      [] e.type = "run.started" -> <<e.ts>>
      [] OTHER -> <<e.st, e.ts, e.out>>

SourceRank(e) == CASE e.src = "hook" -> 0 [] e.src = "native" -> 1 [] OTHER -> 2
Outranks_Never(e, f) == FALSE   \* the first one read stays
Outranks(e, f) == SourceRank(e) < SourceRank(f) \/ (SourceRank(e) = SourceRank(f) /\ e.id < f.id)

\* What a contradiction leaves open
Ambiguities(S) == UNION {
    (IF e.type \in Protected THEN {<<"authority", e.id>>} ELSE {})
    \cup (CASE e.type \in BindingTypes -> {<<"binding", e.task>>}
            [] e.type = "work_unit.status" -> {<<"status", e.task>>}
            [] e.type \in ReviewTypes -> {<<"review", e.task>>}
            [] e.type \in RunTypes -> {<<"run", e.task, e.run>>}
            [] OTHER -> {}) : e \in S}

\* One more event: kept, dropped for an equal one, or put in its place.
Keep(acc, e, named) ==
    LET same == {f \in Range(acc.events) : NativeKey(f) = NativeKey(e) /\ NativeKey(e) # None}
        equal == {f \in same : Disposition(f) = Disposition(e)}
        other == equal = {} /\ same # {}
        old == CHOOSE f \in equal : \A g \in equal : f = g \/ Outranks(f, g)
        addressed == {f \in equal : f.id \in named} # {}
    IN IF equal = {} \/ (e.id \in named /\ addressed)
       THEN [events |-> Append(acc.events, e),
             open |-> acc.open \cup (IF other THEN Ambiguities({f \in same \cup {e} : f.type = "work_unit.status"})
                                     ELSE {}),
             conflicts |-> acc.conflicts \cup (IF other THEN {NativeKey(e)} ELSE {})]
       ELSE IF e.id \in named \/ (~addressed /\ Outranks(e, old))
       THEN [acc EXCEPT !.events = ReplaceAll(@, old, e)] ELSE acc

\* Positions of a producer that two events claim
Twice(S) == {e \in S : \E f \in S : f # e /\ f.epoch = e.epoch /\ f.seq = e.seq}

Dedupe(log) ==
    LET named == {e.parent : e \in Range(log)}
        acc == FoldLeft(LAMBDA a, e : Keep(a, e, named), [events |-> <<>>, open |-> {}, conflicts |-> {}], log)
        S == Range(acc.events)
    IN [events |-> S, conflicts |-> acc.conflicts \cup {<<e.epoch, e.seq>> : e \in Twice(S)},
        open |-> acc.open \cup Ambiguities(Twice(S))]

-----------------------------------------------------------------------------
(* Causal order: parents, and the sequence of one producer where it is not contradictory *)

Before(e, f) == \/ e.epoch < f.epoch
                \/ e.epoch = f.epoch /\ e.seq < f.seq
                \/ e.epoch = f.epoch /\ e.seq = f.seq /\ e.id < f.id

\* The members of S in a strict order, least first
InOrder(S, less(_, _)) ==
    LET Step(acc, i) == Append(acc, CHOOSE e \in S \ Range(acc) : \A f \in S \ Range(acc) : f = e \/ less(e, f))
    IN FoldLeft(Step, <<>>, [i \in 1 .. Cardinality(S) |-> i])

Edge(S, e, f) ==
    \/ f.parent = e.id /\ e # f
    \/ /\ e.epoch = f.epoch /\ e.seq < f.seq /\ {e, f} \cap Twice(S) = {}
       /\ ~\E g \in S : g.epoch = e.epoch /\ e.seq < g.seq /\ g.seq < f.seq

CausalOrder(S) ==
    LET Next(done) == {f \in S \ Range(done) : \A e \in S \ Range(done) : ~Edge(S, e, f)}
        Step(done, i) == IF Next(done) = {} THEN done
                         ELSE Append(done, CHOOSE e \in Next(done) : \A f \in Next(done) : f = e \/ Before(e, f))
        sorted == FoldLeft(Step, <<>>, [i \in 1 .. Cardinality(S) |-> i])
    IN sorted \o InOrder(S \ Range(sorted), Before)   \* a cycle: what is left

\* Whether explicit evidence orders two events
Ancestors(S, e) ==
    LET Up(ids, i) == ids \cup {f.parent : f \in {g \in S : g.id \in ids}}
    IN FoldLeft(Up, {e.parent}, [i \in 1 .. Cardinality(S) |-> i])

Precedes(S, e, f) == IF e.epoch = f.epoch THEN e.seq < f.seq ELSE e.id \in Ancestors(S, f)

-----------------------------------------------------------------------------
(* The scan.  c is what it is done with: the events and what is open about them. *)

Authorized(c, e) == e.auth /\ <<"authority", e.id>> \notin c.open
                    /\ (e.type \in Protected => e.src = "checkpoint")

NewUnit == [status |-> "unknown", out |-> None, review |-> "not_required", bound |-> FALSE,
            bindings |-> {}, profiles |-> {}, natives |-> {}, relations |-> {}, requirements |-> {},
            products |-> {}, classes |-> {}, claimed |-> {}, requests |-> {}, ends |-> {}, beat |-> None]

\* Contradictory descriptions of a task are not a choice between them.
Contradicted(u) ==
    \/ Cardinality(u.products) > 1 \/ Cardinality(u.relations) > 1 \/ Cardinality(u.requirements) > 1
    \/ \E p \in u.products : (\E r \in u.relations : r # p[1]) \/ (\E r \in u.requirements : r # p[2])

Neutral(c, t, u) == Contradicted(u) \/ Cardinality(u.claimed) > 1 \/ Cardinality(u.bindings) > 1
                    \/ <<"binding", t>> \in c.open
Sole(S, otherwise) == IF Cardinality(S) = 1 THEN CHOOSE x \in S : TRUE ELSE otherwise
RelationOf(c, t, u) == IF Neutral(c, t, u) THEN "unknown"
                       ELSE IF u.products # {} THEN Sole(u.products, None)[1] ELSE Sole(u.relations, "unknown")
RequiredOf(c, t, u) == IF Neutral(c, t, u) THEN None
                       ELSE IF u.products # {} THEN Sole(u.products, None)[2] ELSE Sole(u.requirements, None)
ParentsOf(c, t, u) == IF Neutral(c, t, u) THEN {} ELSE Sole(u.claimed, {})

Exact(e) == e.rel # "unknown" /\ e.req # None
Described(c, u, e) == Authorized(c, e) /\ \E b \in u.natives : b.binding = e.binding /\ Precedes(c.events, b, e)

\* A binding says what a task is: native facts, or a product classification of one.
Classify(c, u, e) ==
    IF e.type # "work_unit.bound" THEN u
    ELSE IF Native(e)
    THEN [u EXCEPT !.relations = @ \cup ({e.rel} \ {"unknown"}), !.requirements = @ \cup ({e.req} \ {None}),
                   !.classes = IF Exact(e) THEN @ \cup {e} ELSE @, !.claimed = @ \cup ({e.parents} \ {{}})]
    ELSE IF Described(c, u, e) /\ Exact(e)
    THEN [u EXCEPT !.products = @ \cup {<<e.rel, e.req>>}, !.classes = @ \cup {e},
                   !.claimed = @ \cup ({e.parents} \ {{}})]
    ELSE u

Bind(u, e) ==
    LET v == [u EXCEPT !.bindings = @ \cup ({e.binding} \ {None})]
        profiles == u.profiles \cup ({e.profile} \ {None})
    IN IF ~(e.type \in BindingTypes /\ Native(e)) THEN v
       ELSE IF e.type = "work_unit.unbound" THEN [v EXCEPT !.bound = FALSE, !.natives = @ \cup {e}]
       ELSE [v EXCEPT !.bound = TRUE, !.natives = @ \cup {e}, !.profiles = profiles,
                      !.review = IF Cardinality(profiles) > 1 /\ @ = "approved" THEN "pending" ELSE @]

RunsContradict(u) == \E x, y \in u.ends : x[1] = y[1] /\ x # y

Status(c, t, u, e) ==
    LET lost == RunsContradict(u) \/ <<"run", t, e.run>> \in c.open \/ <<"status", t>> \in c.open
        v == [u EXCEPT !.status = IF lost THEN "unknown" ELSE IF e.ts # None THEN e.ts ELSE @,
                       !.out = IF lost THEN "unknown" ELSE IF e.out # None THEN e.out ELSE @,
                       !.review = IF @ = "not_required" /\ RelationOf(c, t, u) = "review" THEN "pending" ELSE @]
    IN [v EXCEPT !.beat = IF e.type = "work_unit.status" /\ e.src = "native" /\ v.status = "running" THEN e.at ELSE @]

UnitOf(s, t) == IF t \in DOMAIN s.units THEN s.units[t] ELSE NewUnit
With(f, k, v) == [x \in DOMAIN f \cup {k} |-> IF x = k THEN v ELSE f[x]]
Gap(s, reason, e) == [s EXCEPT !.gaps = @ \cup {<<reason, e.id>>}]

\* Only a lifecycle delta is progress.
Progress(s, e) ==
    [s EXCEPT !.deltas = IF e.type = "contract.completion_verified" THEN @ ELSE @ \cup {e},
              !.progress = IF @ = None \/ e.at > @ THEN e.at ELSE @]

\* Spans of a category: owner, other, review or active.  A wait for a review (asked) is one of others
\* while it lasts and of a review when it has ended.
WhileOpen(cat) == IF cat = "asked" THEN "other" ELSE cat
OnceEnded(cat) == IF cat = "asked" THEN "review" ELSE cat

Opens(s, key, cat, at) == [s EXCEPT !.open = With(@, key, [cat |-> cat, at |-> at])]

Ends(s, key, at) ==
    IF key \notin DOMAIN s.open THEN s
    ELSE LET span == s.open[key]
         IN [s EXCEPT !.open = Restrict(@, DOMAIN @ \ {key}),
                      !.spans[OnceEnded(span.cat)] = IF at >= span.at THEN @ \cup {<<span.at, at>>} ELSE @]

Heartbeat(e, u) == e.type = "work_unit.status" /\ e.src = "native" /\ u.status = "running"

\* The task of e was old and is u.
OnUnit(c, s, e, old, u) ==
    LET block == <<"blocked", e.task>>
        unbound == IF e.type = "work_unit.unbound" /\ Native(e) THEN {"UNBOUND_WORK_UNIT_OBSERVED"} ELSE {}
        unproven == IF e.type = "work_unit.bound" /\ e.src = "checkpoint" /\ ~Described(c, old, e)
                    THEN {"WORK_UNIT_CLASSIFICATION_UNVERIFIED"} ELSE {}
        begins == s.execution = None /\ u.bound /\ RequiredOf(c, e.task, u) = TRUE /\ u.status = "running"
                  /\ ~Heartbeat(e, u)
        s1 == [s EXCEPT !.units = With(@, e.task, u), !.execution = IF begins THEN e.at ELSE @,
                        !.gaps = @ \cup {<<r, e.id>> : r \in unbound \cup unproven}]
        s2 == CASE u.status # "blocked" -> Ends(s1, block, e.at)
                [] block \in DOMAIN s.open -> s1
                [] OTHER -> Opens(s1, block, "other", e.at)
    IN IF u.status # old.status /\ ~Heartbeat(e, u) THEN Progress(s2, e) ELSE s2

OnWorkUnit(c, s, e) ==
    LET t == e.task IN OnUnit(c, s, e, UnitOf(s, t), Status(c, t, Bind(Classify(c, UnitOf(s, t), e), e), e))

\* s1: what it says of its task has been read.
RunRead(c, s1, e) ==
    LET key == <<e.task, e.run>>
        u == [s1.units[e.task] EXCEPT !.ends = @ \cup {<<e.run, e.st, e.ts, e.out>>}]
        lost == RunsContradict(u) \/ <<"run", e.task, e.run>> \in c.open
        v == [u EXCEPT !.status = IF lost THEN "unknown" ELSE @,
                       !.out = IF lost THEN "unknown" ELSE IF e.out = None THEN "unknown" ELSE e.out]
        s2 == [s1 EXCEPT !.units = With(@, e.task, v), !.runs = @ \ {key}]
    IN IF e.type = "run.started"
       THEN [s1 EXCEPT !.runs = @ \cup {key},
                       !.execution = IF @ = None /\ RequiredOf(c, e.task, s1.units[e.task]) = TRUE THEN e.at ELSE @]
       ELSE IF key \in s1.runs THEN s2 ELSE Gap(s2, "RUN_TERMINAL_WITHOUT_START", e)

OnRun(c, s, e) == RunRead(c, OnWorkUnit(c, s, e), e)

\* A review counts on the binding of the reviewer, its classification and a request, each before it.
Asked(c, u, e) == e.type = "review.requested"
                  \/ \E r \in u.requests : r.binding = e.binding /\ Precedes(c.events, r, e)

Assigned(c, u, e) ==
    /\ u.bound /\ u.profiles = {e.profile}
    /\ \E b \in u.natives : /\ b.type = "work_unit.bound" /\ b.profile = e.profile
                            /\ b.binding = e.binding /\ Precedes(c.events, b, e)
    /\ RelationOf(c, e.task, u) = "review" /\ RequiredOf(c, e.task, u) # None
    /\ \E k \in u.classes : k.binding = e.binding /\ Precedes(c.events, k, e)

ReviewRead(c, s1, e) ==
    LET state == CASE <<"review", e.task>> \in c.open -> "pending"
                   [] e.type = "review.requested" -> "pending"
                   [] e.type = "review.approved" -> "approved"
                   [] OTHER -> "changes_requested"
        v == [s1.units[e.task] EXCEPT !.review = state,
                                      !.requests = IF e.type = "review.requested" THEN @ \cup {e} ELSE @]
        s2 == [s1 EXCEPT !.units = With(@, e.task, v), !.verified = @ \cup {e.id}]
    IN IF e.type = "review.requested" THEN Opens(s2, <<"review", e.task>>, "review", e.at)
       ELSE Progress(Ends(s2, <<"review", e.task>>, e.at), e)

OnReview(c, s, e) ==
    IF ~Authorized(c, e) THEN Gap(s, "REVIEW_AUTHORITY_UNVERIFIED", e)
    ELSE IF ~(Assigned(c, UnitOf(s, e.task), e) /\ Asked(c, UnitOf(s, e.task), e))
    THEN Gap(s, "REVIEW_ASSIGNMENT_UNVERIFIED", e)
    ELSE ReviewRead(c, OnWorkUnit(c, s, e), e)

OnContract(c, s, e) ==
    CASE e.type = "contract.executable" -> [s EXCEPT !.executable = TRUE]
      [] e.type = "contract.persisted" -> Progress([s EXCEPT !.persisted = e.at], e)
      [] e.type = "contract.execution_started" -> [s EXCEPT !.execution = IF @ = None THEN e.at ELSE @]
      [] e.type = "contract.completion_verified" ->
             IF e.st = "verified" /\ Authorized(c, e) THEN Progress([s EXCEPT !.verifications = @ \cup {e}], e)
             ELSE Gap(s, "COMPLETION_AUTHORITY_UNVERIFIED", e)
      [] OTHER -> IF e.val \notin {None, "none"} THEN Progress(s, e) ELSE s   \* its semantic delta

OnTrace(c, s, e) ==
    IF e.type = "trace.opened" THEN [s EXCEPT !.origin = IF @ = None THEN e.at ELSE @]
    ELSE IF e.type \in TerminalTypes /\ Authorized(c, e) THEN [s EXCEPT !.terminal = e.type, !.ended = e.at]
    ELSE IF e.type \in TerminalTypes THEN Gap(s, "TERMINAL_AUTHORITY_UNVERIFIED", e) ELSE s

OnAcceptance(c, s, e) ==
    LET new == [state |-> e.val, refs |-> e.refs]
        s1 == [s EXCEPT !.criteria = With(@, e.ref, new)]
        same == IF e.ref \in DOMAIN s.criteria THEN s.criteria[e.ref] = new ELSE new = [state |-> "pending", refs |-> {}]
    IN IF ~Authorized(c, e) THEN Gap(s, "ACCEPTANCE_AUTHORITY_UNVERIFIED", e)
       ELSE IF same THEN s1 ELSE Progress(s1, e)

OnInvariant(c, s, e) ==
    IF ~Authorized(c, e) THEN Gap(s, "INVARIANT_AUTHORITY_UNVERIFIED", e)
    ELSE Progress([s EXCEPT !.invariants = With(@, e.ref, IF e.type = "invariant.passed" THEN "passed" ELSE "failed")], e)

\* What was under way for as long as e says
Lasted(s, e) == IF e.dur = None THEN s ELSE [s EXCEPT !.spans["active"] = @ \cup {<<e.at - e.dur, e.at>>}]

\* _on_wait, _on_clarification, _on_tool; val: what is waited for.  How long a tool says it took counts
\* only when its start was not seen, or was later.
OnSpan(s, e) ==
    LET key == <<"span", e.ref>>
        cat == CASE e.type = "clarification.requested" -> "owner"
                 [] e.type = "tool.started" -> "active"
                 [] e.val = "owner" -> "owner"
                 [] e.val = "review" -> "asked"
                 [] OTHER -> "other"
        paired == IF key \in DOMAIN s.open THEN s.open[key].at <= e.at ELSE FALSE
        s1 == Ends(s, key, e.at)
    IN CASE e.type \in {"wait.started", "clarification.requested", "tool.started"} -> Opens(s, key, cat, e.at)
         [] e.type = "clarification.resolved" -> Progress(s1, e)
         [] e.type = "tool.completed" -> IF paired THEN s1 ELSE Lasted(s1, e)
         [] OTHER -> IF key \in DOMAIN s.open THEN s1 ELSE Gap(s, "WAIT_TERMINAL_WITHOUT_START", e)

OnHandoff(s, e) == IF e.type = "handoff.completed" THEN Progress([s EXCEPT !.handed = e.at], e) ELSE s

Found == [units |-> <<>>, gaps |-> {}, deltas |-> {}, progress |-> None, verifications |-> {}, verified |-> {},
          executable |-> FALSE, persisted |-> None, handed |-> None, execution |-> None, origin |-> None,
          terminal |-> None, ended |-> None, criteria |-> <<>>, invariants |-> <<>>, runs |-> {},
          open |-> <<>>, spans |-> [cat \in {"owner", "other", "review", "active"} |-> {}]]

Dispatch(c, s, e) ==
    IF e.env # None /\ e.task # None /\ e.env # e.task THEN Gap(s, "TASK_WORK_UNIT_MISMATCH", e)
    ELSE CASE e.type \in UnitTypes -> OnWorkUnit(c, s, e)
           [] e.type \in RunTypes -> OnRun(c, s, e)
           [] e.type \in ReviewTypes -> OnReview(c, s, e)
           [] e.type \in InvariantTypes -> OnInvariant(c, s, e)
           [] e.type = "acceptance.evaluated" -> OnAcceptance(c, s, e)
           [] e.type \in TerminalTypes \cup {"trace.opened"} -> OnTrace(c, s, e)
           [] e.type \in {"handoff.started", "handoff.completed"} -> OnHandoff(s, e)
           [] e.type \in {"wait.started", "wait.ended", "clarification.requested", "clarification.resolved",
                          "tool.started", "tool.completed"} -> OnSpan(s, e)
           [] e.type \in ModelTypes -> Lasted(s, e)   \* what else it says of a request is left out
           [] e.type = "coverage.gap" -> Gap(s, e.val, e)
           [] OTHER -> OnContract(c, s, e)

Scan(log) ==
    LET c == Dedupe(log)
    IN With(FoldLeft(LAMBDA s, e : Dispatch(c, s, e), Found, CausalOrder(c.events)), "c", c)
=============================================================================
