------------------------------ MODULE Summary ------------------------------
(***************************************************************************)
(* What is derived from the scan of a trace (reduce/reducer.py): durations, *)
(* the work graph, acceptance and the completion state, which review.py     *)
(* turns into one verdict; and what a summary promises while events arrive  *)
(* in any order and are read in that of their clocks.                       *)
(***************************************************************************)
EXTENDS Reduction

CONSTANTS Scenarios,  \* [given, late]: events and those that may follow
          Skews,       \* how far the clocks of the producers (epochs) may be off
          Short        \* numbers of milliseconds that are one less when they are reported (1001, 1003, ...)

\* The read model holds one event of an identity, which its producer numbered and dated.
IsEvent(e) == /\ DOMAIN e = DOMAIN Blank /\ e = [f \in DOMAIN Blank |-> e[f]]
              /\ e.id \in Nat /\ e.epoch \in Nat /\ e.seq \in Nat /\ e.at \in Nat
              /\ e.dur = None \/ e.dur \in 0 .. e.at
Identified(S) == /\ IsFiniteSet(S) /\ \A e \in S : IsEvent(e)
                 /\ \A e, f \in S : e.id = f.id => e = f

ASSUME TraceAssumption ==
    /\ None \notin Nat /\ Short \subseteq Nat \ {0, 1}
    /\ \A sc \in Scenarios : /\ Identified(sc.given \cup sc.late)
                             /\ \A ids \in SUBSET {e.id : e \in sc.given \cup sc.late} : ids # None
                             /\ \A e \in sc.given \cup sc.late : IsFiniteSet(e.parents)
                             /\ \A skew \in Skews : \A e \in sc.given \cup sc.late :
                                  LET at == e.at + skew[e.epoch]
                                  IN at \in Nat /\ (e.dur = None \/ e.dur <= at)

VARIABLES stored, late   \* the events of the trace in the read model; those to come

\* The reader's order: by time, as far as the clocks agree on it.
Earliest(e, f) == e.at < f.at \/ (e.at = f.at /\ Before(e, f))
Reader(S) == InOrder(S, Earliest)
log == Reader(stored)

-----------------------------------------------------------------------------
(* Interval arithmetic *)

Earlier(a, b) == a[1] < b[1] \/ (a[1] = b[1] /\ a[2] < b[2])

\* int(total_seconds() * 1000), which cuts the fraction off a product of floats
Ms(n) == IF n \in Short THEN n - 1 ELSE n

\* _union_ms, before and after that
Covered(S) ==
    LET Step(acc, i) == IF i[1] > acc.to THEN [sum |-> acc.sum + acc.to - acc.from, from |-> i[1], to |-> i[2]]
                        ELSE [acc EXCEPT !.to = Max({@, i[2]})]
        end == FoldLeft(Step, [sum |-> 0, from |-> 0, to |-> 0], InOrder(S, Earlier))
    IN end.sum + end.to - end.from
UnionMs(S) == Ms(Covered(S))

\* _subtract: what is left of each interval, walking its blockers from the left
Remains_Once(i, higher) ==   \* up to its first blocker
    LET hits == {b \in higher : b[2] > i[1] /\ b[1] < i[2]}
    IN IF hits = {} THEN {i} ELSE {<<i[1], InOrder(hits, Earlier)[1][1]>>}
Remains(i, higher) ==
    LET Step(acc, b) ==
            IF acc.from >= i[2] \/ b[2] <= acc.from \/ b[1] >= i[2] THEN acc
            ELSE [got |-> IF b[1] > acc.from THEN acc.got \cup {<<acc.from, b[1]>>} ELSE acc.got,
                  from |-> Max({acc.from, b[2]})]
        end == FoldLeft(Step, [got |-> {}, from |-> i[1]], InOrder(higher, Earlier))
    IN end.got \cup (IF end.from < i[2] THEN {<<end.from, i[2]>>} ELSE {})

Subtract(S, higher) == IF higher = {} THEN S ELSE UNION {Remains(i, higher) : i \in S}

-----------------------------------------------------------------------------
(* Durations *)

AsOf(s) == Max({0} \cup {e.at : e \in s.c.events})
MsOf(from, to) == IF None \in {from, to} THEN None ELSE IF to < from THEN None ELSE Ms(to - from)

\* The work graph and completion are computed first: completed_at closes the trace.
Durations(s, completedAt) ==
    LET closed == IF completedAt # None THEN completedAt ELSE s.ended
        horizon == IF closed # None THEN closed ELSE AsOf(s)
        still(cat) == {<<s.open[k].at, horizon>> : k \in {j \in DOMAIN s.open : WhileOpen(s.open[j].cat) = cat}}
        origin == IF s.origin = None THEN 0 ELSE s.origin
        clip(S) == {i \in {<<Max({j[1], origin}), Min({j[2], horizon})>> : j \in S} : i[1] <= i[2]}
        raw(cat) == clip(s.spans[cat] \cup {i \in still(cat) : i[1] <= horizon})
        owner == raw("owner")
        other == Subtract(raw("other"), owner)
        review == Subtract(raw("review"), owner \cup other)
        active == Subtract(raw("active"), owner \cup other \cup review)
        wall == MsOf(s.origin, horizon)
        parts == [owner |-> owner, other |-> other, review |-> review, active |-> active]
    IN [to |-> horizon, raw |-> [cat \in DOMAIN parts |-> raw(cat)], parts |-> parts,
        wall |-> wall, ms |-> [cat \in DOMAIN parts |-> UnionMs(parts[cat])],
        unclassified |-> IF wall = None THEN None
                         ELSE Max({0, wall - UnionMs(owner \cup other \cup review \cup active)})]

-----------------------------------------------------------------------------
(* The work graph, acceptance and invariants *)

Units(s) == {t \in DOMAIN s.units : s.units[t].bound}
Relation(s, t) == RelationOf(s.c, t, s.units[t])
Required(s) == {t \in Units(s) : RequiredOf(s.c, t, s.units[t]) = TRUE}
Roots(s) == {t \in Units(s) : Relation(s, t) = "root"}
ParentsIn(s, t) == ParentsOf(s.c, t, s.units[t])

Cyclic(s) == \E C \in SUBSET Units(s) : C # {} /\ \A t \in C : ParentsIn(s, t) \cap C # {}
Orphan(s, t) == \/ ~(ParentsIn(s, t) \subseteq Units(s))
                \/ Relation(s, t) # "root" /\ ParentsIn(s, t) = {} /\ Roots(s) # {}

GraphWhole(s) ==
    /\ ~\E o \in s.c.open : o[1] # "authority"
    /\ \A t \in DOMAIN s.units : LET u == s.units[t]
          IN ~Contradicted(u) /\ ~RunsContradict(u) /\ Cardinality(u.claimed) <= 1 /\ Cardinality(u.bindings) <= 1
    /\ Cardinality(Roots(s)) = 1 /\ ~Cyclic(s) /\ ~\E t \in Units(s) : Orphan(s, t)

GraphSettled(s) ==
    /\ GraphWhole(s) /\ Required(s) # {}
    /\ \A t \in Units(s) : RequiredOf(s.c, t, s.units[t]) # None
    /\ \A t \in Required(s) : s.units[t].status = "done" /\ s.units[t].review \in {"approved", "not_required"}

Accepted(s) == DOMAIN s.criteria # {}
               /\ \A k \in DOMAIN s.criteria : s.criteria[k].state = "passed" /\ s.criteria[k].refs # {}

InvariantsSettled(s) == s.executable /\ Invariants \subseteq DOMAIN s.invariants
                        /\ \A k \in DOMAIN s.invariants : s.invariants[k] = "passed"

\* _finalize_verification_freshness: what has changed since, or may have
Fresh_Known(s) ==   \* only what is known to have changed since counts
    {v \in s.verifications : ~\E d \in s.deltas : Precedes(s.c.events, v, d)}
Fresh(s) ==
    {v \in s.verifications : \A d \in s.deltas : Precedes(s.c.events, d, v) /\ ~Precedes(s.c.events, v, d)}

Completion(s) ==
    CASE s.terminal # None -> s.terminal
      [] GraphSettled(s) /\ Accepted(s) /\ InvariantsSettled(s) ->
             IF Fresh(s) # {} THEN "completed" ELSE "completion_candidate"
      [] \E t \in Required(s) : s.units[t].status = "blocked" -> "blocked"
      [] \/ \E t \in Required(s) : s.units[t].status = "review"
         \/ \E t \in Units(s) : s.units[t].review = "pending" -> "in_review"
      [] GraphSettled(s) /\ ~Accepted(s) -> "awaiting_final_verification"
      [] s.execution # None -> "executing"
      [] s.handed # None -> "handed_off"
      [] s.persisted # None -> "persisted"
      [] OTHER -> "open"

CompletedAt(s) ==
    LET order == CausalOrder(s.c.events)
        last == CHOOSE i \in DOMAIN order : order[i] \in Fresh(s) /\ \A j \in DOMAIN order : order[j] \in Fresh(s) => j <= i
    IN IF Completion(s) = "completed" THEN order[last].at ELSE None

-----------------------------------------------------------------------------
By(skew, S) == {[e EXCEPT !.at = @ + skew[e.epoch]] : e \in S}

SummaryInit == \E sc \in Scenarios, skew \in Skews : stored = By(skew, sc.given) /\ late = By(skew, sc.late)

\* One more event is projected.
Arrive(e) == stored' = stored \cup {e} /\ late' = late \ {e}
SummaryNext == \E e \in late : Arrive(e)
SummarySpec == SummaryInit /\ [][SummaryNext]_<<stored, late>>

-----------------------------------------------------------------------------
(* Properties *)

\* Which duplicate stands for a fact, and what is open, does not depend on the order of the reader,
\* which is that of the clocks.
OrderFree ==
    stored # {} =>
      LET sorted == InOrder(stored, Before)
      IN Dedupe(log).events = Dedupe(sorted).events /\ Dedupe(log).open = Dedupe(sorted).open

\* The producers do not contradict themselves: no position is claimed twice and, however often what
\* nothing comes before is taken away, no circle is left.
Consistent(S) ==
    LET Preceded(T, i) == {f \in T : \E e \in T : Edge(S, e, f)}
    IN Twice(S) = {} /\ FoldLeft(Preceded, S, [i \in 1 .. Cardinality(S) |-> i]) = {}

\* What can be said of a task from the set of its events
Reads(e) == None \in {e.env, e.task} \/ e.env = e.task
Bindings(S, t) == {b \in S : b.type \in BindingTypes /\ Native(b) /\ b.task = t /\ Reads(b)}
IsBound(S, t) ==
    \E b \in Bindings(S, t) : /\ b.type = "work_unit.bound"
                              /\ \A f \in Bindings(S, t) : f.type = "work_unit.unbound" => Precedes(S, f, b)
Describes(S, t, e) ==
    /\ e.type = "work_unit.bound" /\ e.task = t /\ Reads(e)
    /\ Native(e) \/ (e.auth /\ Exact(e) /\ \E b \in Bindings(S, t) : b.binding = e.binding /\ Precedes(S, b, e))
Speaks(s, t, e) ==
    /\ e.task = t /\ Reads(e)
    /\ e.type \in UnitTypes \cup RunTypes \/ (e.type \in ReviewTypes /\ e.id \in s.verified)

\* Progress, whatever was read before it
Material(s, d) ==
    Reads(d) /\ \/ d.type \in {"contract.persisted", "handoff.completed", "clarification.resolved"}
                \/ d.type = "decision.recorded" /\ d.val \notin {None, "none"}
                \/ d.type \in {"review.approved", "review.changes_requested"} /\ d.id \in s.verified
                \/ d.type \in InvariantTypes /\ d.auth /\ d.src = "checkpoint"

DoneBefore(s, t, v) ==
    LET S == s.c.events
    IN \E e \in S : /\ Speaks(s, t, e) /\ e.ts = "done" /\ Precedes(S, e, v)
                    /\ ~\E f \in S : Speaks(s, t, f) /\ f.ts \notin {None, "done"} /\ Precedes(S, e, f)

\* By the one bound as its reviewer, who was asked
ReviewedBefore(s, t, v) ==
    LET S == s.c.events
        Of(type) == {e \in S : e.type = type /\ e.auth /\ Speaks(s, t, e)}
    IN \E a \in Of("review.approved") :
         /\ \E r \in Of("review.requested") : r.binding = a.binding /\ Precedes(S, r, a)
         /\ \E b \in Bindings(S, t) : /\ b.type = "work_unit.bound" /\ b.profile = a.profile
                                       /\ b.binding = a.binding /\ Precedes(S, b, a)
         /\ Precedes(S, a, v)
         /\ ~\E f \in Of("review.requested") \cup Of("review.changes_requested") : Precedes(S, a, f)

\* What describes the task agrees and says whether it is required; if it is, it was done, and approved
\* if it is a review.
TaskShown(s, t, v) ==
    LET about == {e \in s.c.events : Describes(s.c.events, t, e)}
        required == {e.req : e \in about} \ {None}
        related == {e.rel : e \in about} \ {"unknown"}
    IN /\ Cardinality(required) = 1 /\ Cardinality(related) <= 1
       /\ TRUE \in required => DoneBefore(s, t, v)
       /\ TRUE \in required /\ "review" \in related => ReviewedBefore(s, t, v)

\* A trace is completed only on evidence that does not depend on the scan.  All progress is known to
\* precede a verification; what describes a bound task agrees and says whether it is required; a
\* required one was done before the verification, with nothing known to say otherwise later, and was
\* approved, if it is a review, by the reviewer who was asked.
CompletedIsProven ==
    stored # {} =>
    \A s \in {Scan(log)} :
      LET S == s.c.events
      IN Completion(s) = "completed" /\ Consistent(S) =>
           \E v \in S : /\ v.type = "contract.completion_verified" /\ v.st = "verified"
                        /\ v.auth /\ v.src = "checkpoint"
                        /\ \A d \in S : Material(s, d) => Precedes(S, d, v)
                        /\ \A t \in {e.task : e \in S} : IsBound(S, t) => TaskShown(s, t, v)

Points(S) == UNION {i[1] .. i[2] - 1 : i \in S}

\* Those that come before a category
Above(cat) == CASE cat = "owner" -> {} [] cat = "other" -> {"owner"} [] cat = "review" -> {"owner", "other"}
                [] cat = "active" -> {"owner", "other", "review"}

\* What took m milliseconds is reported as n.
Reports(n, m) == n \in Nat /\ n <= m /\ m <= n + 1

\* Each millisecond that was waited or worked is charged once, to the first of the categories it was
\* seen in, and none is lost; a figure that is reported is at most one short, time is unclassified
\* only by that much more or less than nothing was seen in, and not at all if there is none.
CountedOnce ==
    stored # {} =>
    \A s \in {Scan(log)} : \A d \in {Durations(s, CompletedAt(s))} :
      LET Part(cat) == Points(d.parts[cat])
          rest == d.to - s.origin - Cardinality(UNION {Part(cat) : cat \in DOMAIN d.parts})
      IN /\ \A cat \in DOMAIN d.parts :
              /\ Part(cat) = Points(d.raw[cat]) \ UNION {Points(d.raw[c]) : c \in Above(cat)}
              /\ Reports(d.ms[cat], Cardinality(Part(cat)))
         /\ d.wall # None => /\ Reports(d.wall, d.to - s.origin)
                             /\ d.unclassified \in Nat /\ d.unclassified \in rest - 1 .. rest + 1
                             /\ rest = 0 => d.unclassified = 0

=============================================================================
