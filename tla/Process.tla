------------------------------ MODULE Process ------------------------------
(***************************************************************************)
(* How the work of a trace went (reduce/process.py): steps, linked by       *)
(* explicit evidence alone, the rounds and waves they belong to, and the    *)
(* critical path through them.                                              *)
(***************************************************************************)
EXTENDS Summary

-----------------------------------------------------------------------------
(* Steps *)

Instants == {"contract.executable", "contract.persisted", "contract.completion_verified",
             "decision.recorded", "decision.superseded", "clarification.requested", "clarification.resolved"}
            \cup InvariantTypes \cup TerminalTypes
Starts == {"handoff.started", "run.started", "review.requested", "wait.started"}
Stops == {"handoff.completed", "run.finished", "review.approved", "review.changes_requested", "wait.ended"}
Anomalous == {"crashed", "timed_out", "protocol_violation"}

\* (SelectSeq, written out: the prover does not know it.)
Ordered(S) == FoldLeft(LAMBDA acc, e : IF Reads(e) THEN Append(acc, e) ELSE acc, <<>>, CausalOrder(S))

SpanOf(e) == CASE e.type \in RunTypes -> <<"run", e.task, e.run>>
               [] e.type \in ReviewTypes -> <<"review", e.task>>
               [] e.type \in {"wait.started", "wait.ended"} -> <<"wait", e.ref>>
               [] OTHER -> <<"handoff">>

StepOf(e, from, to) == [evidence |-> {e.id}, anchor |-> e.id, from |-> from, to |-> to,
                        task |-> IF e.type \in RunTypes \cup ReviewTypes THEN e.task ELSE None]

\* A terminal without its start is a step of its own, or nothing.
Steps(events) ==
    LET Read(acc, e) ==
            LET key == SpanOf(e)
                add(s) == Append(acc.steps, s)
            IN IF e.type \in RunTypes \cup ReviewTypes /\ e.task = None THEN acc
               ELSE CASE e.type \in Instants -> [acc EXCEPT !.steps = add(StepOf(e, e.at, e.at))]
                      [] e.type \in Starts -> [steps |-> add(StepOf(e, e.at, None)),
                                               open |-> With(acc.open, key, Len(acc.steps) + 1)]
                      [] e.type \in Stops /\ key \in DOMAIN acc.open ->
                             LET k == acc.open[key]
                             IN [steps |-> [acc.steps EXCEPT ![k].to = e.at, ![k].evidence = @ \cup {e.id}],
                                 open |-> Restrict(acc.open, DOMAIN acc.open \ {key})]
                      [] e.type \in Stops /\ key \notin DOMAIN acc.open /\ key[1] \in {"run", "review"} ->
                             [acc EXCEPT !.steps = add(StepOf(e, IF key[1] = "run" THEN None ELSE e.at, e.at))]
                      [] OTHER -> acc
    IN FoldLeft(Read, [steps |-> <<>>, open |-> <<>>], events).steps

\* The parents of a task, where they are claimed in one way only
TaskParents(S, t) == Sole({e.parents : e \in {f \in S : f.task = t}} \ {{}}, {})

StepsOn(steps, t) == {k \in DOMAIN steps : steps[k].task = t}

Tasks(S) == ({e.task : e \in S} \cup UNION {e.parents : e \in S}) \ {None}

\* f itself, as a table: TLC evaluates a function as a whole only when it has to compare it.
Tabled(f) == CHOOSE g \in {f} : g = f

Upto(n) == [i \in 1 .. n |-> i]

\* The tasks joined to a task by their parents
Component(parents, t) ==
    LET Near(T, i) == T \cup {u \in DOMAIN parents : parents[u] \cap T # {} \/ \E v \in T : u \in parents[v]}
    IN FoldLeft(Near, {t}, Upto(Cardinality(DOMAIN parents)))

\* The only start of the span of a run
SpanStart(S, e) ==
    IF e.type \notin RunTypes \/ None \in {e.task, e.run} THEN None
    ELSE Sole({f.id : f \in {g \in S : g.type = "run.started" /\ g.task = e.task /\ g.run = e.run}}, None)

\* The events of a trace with what their steps and rounds are read from
Work(S) ==
    LET parents == Tabled([t \in Tasks(S) |-> TaskParents(S, t)])
    IN [events |-> S, ids |-> {e.id : e \in S}, parents |-> parents,
        joined |-> Tabled([t \in Tasks(S) |-> Component(parents, t)]),
        span |-> Tabled([i \in {e.id : e \in S} |-> SpanStart(S, CHOOSE e \in S : e.id = i)])]

\* A parent task that has several steps, or none, leaves it unknown which came before.
Links(w, steps, k) ==
    LET sources == {e.parent : e \in {f \in w.events : f.id \in steps[k].evidence}}
        upstream == IF steps[k].task = None THEN {} ELSE w.parents[steps[k].task]
    IN {j \in DOMAIN steps \ {k} : steps[j].evidence \cap sources # {}}
       \cup {j \in DOMAIN steps : \E t \in upstream : StepsOn(steps, t) \ {k} = {j}}

-----------------------------------------------------------------------------
(* The critical path *)

Elapsed(s) == IF MsOf(s.from, s.to) = None THEN 0 ELSE MsOf(s.from, s.to)

\* Steps are taken in the order they are presented; best: the total at each and the step before it.
Best(w, steps) ==
    LET Weigh(best, k) ==
            LET total(j) == IF j < k THEN best[j].total ELSE 0
                links == Links(w, steps, k)
                via == CHOOSE j \in links : \A i \in links : total(i) < total(j) \/ (total(i) = total(j) /\ i <= j)
            IN Append(best, [total |-> Elapsed(steps[k]) + IF links = {} THEN 0 ELSE total(via),
                             via |-> IF links = {} THEN None ELSE via])
    IN FoldLeft(Weigh, <<>>, [k \in DOMAIN steps |-> k])

PathEnd(best) == CHOOSE k \in DOMAIN best : \A j \in DOMAIN best :
                      best[j].total < best[k].total \/ (best[j].total = best[k].total /\ j <= k)

\* The chain that is followed back; one that has more steps than there are never ends.
Chain(best) ==
    LET Follow(chain, i) == IF Last(chain) = None THEN chain ELSE Append(chain, best[Last(chain)].via)
    IN FoldLeft(Follow, <<PathEnd(best)>>, [i \in 0 .. Len(best) |-> i])

-----------------------------------------------------------------------------
(* Rounds: a dispatch, or an evidenced trigger, and what is linked to it *)

Triggers(w) ==
    {e.id : e \in {f \in w.events :
        \/ f.type \in {"review.changes_requested", "trace.resumed", "decision.superseded"}
        \/ f.type = "coverage.gap" /\ f.val = "protocol"
        \/ f.type = "run.started" /\ \E g \in w.events : g.id = f.parent /\ g.type = "run.finished" /\ g.out \in Anomalous}}

\* A dispatch that descends from another stays in its round.
Dispatches(w) ==
    {e \in w.events : /\ e.type = "run.started" /\ e.id \notin Triggers(w)
                      /\ ~\E i \in Ancestors(w.events, e) \cap w.ids : i \in Triggers(w) \/ w.span[i] \notin {None, e.id}}

\* The dispatches of one component of tasks are one round if each task was started once.
Together_Always(w, all, e) == all   \* whatever is dispatched
Together(w, all, e) ==
    LET group == {f \in all : f.task \in w.joined[e.task]}
    IN IF e.task = None \/ \E f, g \in group : f # g /\ f.task = g.task THEN {e} ELSE group

Initial(w) == LET all == Dispatches(w) IN {{f.id : f \in Together(w, all, e)} : e \in all}

\* The round of an event: what it began, that of its span, of its parent, of its task.  find: what is
\* answered of the others while those of seen, and this one, are asked for
Otherwise(s, r) == IF s # None THEN s ELSE r
Answer(w, initial, find, seen, j) ==
    LET begun == initial \cup {{i} : i \in Triggers(w)}
        OfTask(t) == Sole({s \in initial : \E e \in w.events : e.id \in s /\ e.task # None /\ t \in w.joined[e.task]}, None)
        e == CHOOSE f \in w.events : f.id = j
        up(k) == IF k \in w.ids \ (seen \cup {j}) THEN find[seen \cup {j}][k] ELSE None
        ofTask == IF e.task # None THEN OfTask(e.task) ELSE None
    IN IF j \in seen THEN None
       ELSE Otherwise(Sole({s \in begun : j \in s}, None), Otherwise(up(w.span[j]), Otherwise(up(e.parent), ofTask)))
Owner(w, initial, id) ==
    LET find[seen \in SUBSET w.ids] == [j \in w.ids |-> Answer(w, initial, find, seen, j)]
    IN find[{}][id]

\* The round before: of a parent of what began it, or of the review it ends, if they are one.
Previous(w, steps, owner, s) ==
    LET starters == {e \in w.events : e.id \in s}
        anchors == {steps[k].anchor : k \in {j \in DOMAIN steps : steps[j].evidence \cap s # {}}}
    IN Sole({owner[i] : i \in (({e.parent : e \in starters} \cup (anchors \ s)) \cap w.ids)} \ {None, s}, None)

\* Rounds that come before themselves, or after such, are after none.
Proven(prior, s) ==
    LET Back(r, i) == IF r = None THEN r ELSE prior[r]
    IN FoldLeft(Back, s, Upto(Cardinality(DOMAIN prior))) = None

Rounds(w, steps) ==
    LET initial == Initial(w)
        owner == Tabled([i \in w.ids |-> Owner(w, initial, i)])
        seeds == initial \cup {{i} : i \in Triggers(w)}
        prior == Tabled([s \in seeds |-> Previous(w, steps, owner, s)])
    IN {[seed |-> s, previous |-> IF Proven(prior, s) THEN prior[s] ELSE None,
         steps |-> {k \in DOMAIN steps : owner[steps[k].anchor] = s}] : s \in seeds}

-----------------------------------------------------------------------------
(* Waves: the steps of a round whose tasks have the same parents *)

Waves(w, steps) ==
    UNION {LET of == {j \in r.steps : steps[j].task # None /\ steps[j].from # None}
           IN {{j \in of : j = k \/ /\ w.parents[steps[j].task] = w.parents[steps[k].task]
                                    /\ w.parents[steps[k].task] # {}} : k \in of} : r \in Rounds(w, steps)}

\* _peak_parallelism: a sweep over the moments spans open and close
Peak(spans) ==
    LET moments == InOrder({s[2] : s \in spans} \cup ({s[3] : s \in spans} \ {None}), <)
        Sweep(acc, m) ==
            LET opens == Cardinality({s \in spans : s[2] = m /\ s[3] # m})
                closes == Cardinality({s \in spans : s[3] = m /\ s[2] # m})
                instants == Cardinality({s \in spans : s[2] = m /\ s[3] = m})
                now == Max({0, acc.now - closes})
            IN [peak |-> Max({acc.peak, now + opens + instants}), now |-> now + opens]
    IN FoldLeft(Sweep, [peak |-> 0, now |-> 0], moments).peak

-----------------------------------------------------------------------------
(* Properties *)

Seen == Ordered(Dedupe(log).events)

\* reduce/process.py:1098: the critical path is the longest chain of steps.  What it reports is the
\* time of the steps it names, and following it ends.
CriticalPathIsChain ==
    LET steps == Steps(Seen)
        best == Best(Work(Range(Seen)), steps)
        chain == SelectSeq(Chain(best), LAMBDA k : k # None)
    IN steps # <<>> => /\ Len(chain) <= Len(best)
                       /\ best[PathEnd(best)].total = FoldLeft(LAMBDA n, k : n + Elapsed(steps[k]), 0, chain)

\* Explicit evidence between two events: a parent, or tasks that are the same or joined by parents
Linked(w, e, f) == \/ e.parent = f.id \/ f.parent = e.id
                   \/ e.task # None /\ f.task # None /\ f.task \in w.joined[e.task]

\* The events joined to some, each to those near to it
Joined(near, E) == FoldLeft(LAMBDA T, i : T \cup UNION {near[f] : f \in T}, E, Upto(Cardinality(DOMAIN near)))

\* The rounds that come after another
After(rounds, T) == {r.seed : r \in {q \in rounds : q.previous \in T}}
Later(rounds, s) == FoldLeft(LAMBDA T, i : T \cup After(rounds, T), After(rounds, {s}), Upto(Cardinality(rounds)))

\* Steps of one round are linked by evidence, and no other round comes before itself: neither
\* follows from the order the events are presented in.
RoundsAreEvidenced ==
    stored # {} =>
    \A steps \in {Steps(Seen)}, w \in {Work(Range(Seen))} :
    \A rounds \in {Rounds(w, steps)}, near \in {Tabled([e \in w.events |-> {f \in w.events : Linked(w, e, f)}])} :
      LET Of(k) == {e \in w.events : e.id \in steps[k].evidence}
      IN /\ \A r \in rounds : \A k \in r.steps : \A j \in r.steps : Of(j) \cap Joined(near, Of(k)) # {}
         /\ \A r \in rounds : r.seed \notin Later(rounds, r.seed)

\* The spans of the steps of a wave, and those under way at a moment
SpansOf(steps, wave) == {<<k, steps[k].from, steps[k].to>> : k \in wave}
During(spans, m) == {s \in spans : s[2] <= m /\ (s[3] = None \/ m < s[3] \/ (s[2] = s[3] /\ m = s[2]))}

\* The peak of a wave is the most of its steps that were under way at one moment, unless a clock
\* says one ended before it began.
PeakIsReal ==
    stored # {} =>
    \A steps \in {Steps(Seen)} : \A wave \in Waves(Work(Range(Seen)), steps) : \A spans \in {SpansOf(steps, wave)} :
        (\A s \in spans : s[3] = None \/ s[2] <= s[3])
        => Peak(spans) = Max({Cardinality(During(spans, m)) : m \in {s[2] : s \in spans}})

(* What a round and its waves claim was there: the steps of a round are joined by evidence and
   rounds follow one another, and the peak of a wave was reached (_build_rounds, _build_waves). *)
RoundsAreReal == RoundsAreEvidenced /\ PeakIsReal
=============================================================================
