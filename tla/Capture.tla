------------------------------ MODULE Capture ------------------------------
(***************************************************************************)
(* The observer plugin in one process: the public hooks that open and close *)
(* spans (tool calls, model requests, approvals), the traces they belong to *)
(* and what the collector's journal accepts of it (hermes_plugin.py,        *)
(* collector.py).  How tasks are bound is Binding's subject.                *)
(***************************************************************************)
EXTENDS Naturals, FiniteSets

CONSTANTS Spans, TraceIds, WorkUnits, Nothing,
          KindOf,       \* [Spans -> {"tool", "create", "contract", "request", "approval"}]
          TaskOf,       \* [Spans -> WorkUnits \cup {Nothing}]: the task of the payload, or the one created
          MaxPending,   \* the bound of each table of pending spans
          MaxRefused    \* events the journal refuses

ASSUME CaptureAssumption == Nothing \notin TraceIds

VARIABLES stage,        \* of each span: new, open or over
          held,         \* the pending spans; event: the start was accepted, at: what started before
          active,       \* _active_traces
          boundTo,        \* the binder: the trace of a task
          known,        \* the collector's _materialized
          out,          \* the events accepted, and the openings by other processes
          refused       \* the events refused

captureVars == <<stage, held, active, boundTo, known, out, refused>>

Event(kind, span, trace, of) == [kind |-> kind, span |-> span, trace |-> trace, of |-> of]
Opening(a) == Event("opened", Nothing, a, {})
Opened(a) == Opening(a) \in out

\* Of the events emitted, in order, the journal accepts some.
Accepts(events, accepted) ==
    /\ accepted \subseteq events
    /\ refused' = refused \cup (events \ accepted)
    /\ Cardinality(refused') <= MaxRefused
    /\ out' = out \cup accepted

-----------------------------------------------------------------------------
(* TraceIds *)

Active == IF Cardinality(active) = 1 THEN CHOOSE a \in active : TRUE ELSE Nothing
TraceFor(s) == IF TaskOf[s] = Nothing THEN Active ELSE boundTo[TaskOf[s]]
Activate(a) == active' = active \cup {a}

\* ensure_trace_opened: not opened twice by one process
Ensure(a, accepted) ==
    known' = IF Opening(a) \in accepted THEN known \cup {a} ELSE known

Ensured(a, accepted) == a \in known \/ Opening(a) \in accepted
Openings(a) == IF a \in known THEN {} ELSE {Opening(a)}

-----------------------------------------------------------------------------
(* Spans *)

IsPending(s) == \E p \in held : p.span = s
Of(s) == CHOOSE p \in held : p.span = s
Drop(s) == held' = {p \in held : p.span # s}

Table(s) == IF KindOf[s] \in {"request", "approval"} THEN KindOf[s] ELSE "tools"
Begun == {s \in Spans : stage[s] # "new"}

\* _bounded_put: the oldest of its table is forgotten.
Put(s, trace, event) ==
    LET table == {p \in held : Table(p.span) = Table(s)}
        oldest == {p \in table : \A q \in table : p.at <= q.at}
        kept == IF Cardinality(table) < MaxPending THEN held ELSE held \ oldest
    IN held' = kept \cup {[span |-> s, trace |-> trace, event |-> event, at |-> Cardinality(Begun)]}

Start(s, a) == Event("start", s, a, {})
Terminal(s, a, parent) == Event("end", s, a, parent)

\* A start that was refused has no identity a terminal could name.
Parent(s) == IF IsPending(s) /\ Of(s).event THEN {Start(s, Of(s).trace)} ELSE {}

\* _emit_request_configuration: the configuration and the tools of a request that were not told before,
\* or the gap in their place; one event stands for them.  It names the start even if that was refused.
Settings(s, a) == Event("settings", s, a, {Start(s, a)})
Further(s, a) == IF KindOf[s] = "request" THEN {{}, {Settings(s, a)}} ELSE {{}}

\* _on_pre_tool_call, _on_pre_api_request, _on_pre_approval_request
Pre(s) ==
    /\ stage[s] = "new" /\ stage' = [stage EXCEPT ![s] = "open"]
    /\ LET a == TraceFor(s)
       IN IF a = Nothing THEN UNCHANGED <<held, out, refused>>
          ELSE \E further \in Further(s, a) : \E accepted \in SUBSET ({Start(s, a)} \cup further) :
                  LET started == Start(s, a) \in accepted
                  IN /\ Accepts({Start(s, a)} \cup further, accepted)
                     /\ Put(s, IF started \/ KindOf[s] \in {"request", "approval"} THEN a ELSE Nothing, started)
    /\ UNCHANGED <<active, boundTo, known>>

\* A create call belongs to the trace of its parents, or its token's, if there is one.
PreCreate(s) ==
    /\ KindOf[s] = "create" /\ stage[s] = "new" /\ stage' = [stage EXCEPT ![s] = "open"]
    /\ \E a \in TraceIds \cup {Nothing} :
          IF a = Nothing THEN Put(s, Nothing, FALSE) /\ UNCHANGED <<out, refused>>
          ELSE /\ a = Active \/ \E t \in WorkUnits : boundTo[t] = a
               /\ \E accepted \in SUBSET {Start(s, a)} :
                     /\ Accepts({Start(s, a)}, accepted)
                     /\ Put(s, IF accepted # {} THEN a ELSE Nothing, accepted # {})
    /\ UNCHANGED <<active, boundTo, known>>

Over(s) == stage[s] = "open" /\ stage' = [stage EXCEPT ![s] = "over"] /\ Drop(s)

\* Where a terminal goes whose span says nothing better
Where(s, otherwise) == IF IsPending(s) /\ Of(s).trace # Nothing THEN Of(s).trace ELSE otherwise

\* _on_post_tool_call, _on_post_api_request, _on_api_request_error
Post(s) ==
    /\ KindOf[s] \in {"tool", "request"} /\ Over(s)
    /\ LET a == Where(s, TraceFor(s))
       IN IF a = Nothing THEN UNCHANGED <<out, refused>>
          ELSE \E accepted \in SUBSET {Terminal(s, a, Parent(s))} :
                  Accepts({Terminal(s, a, Parent(s))}, accepted)
    /\ UNCHANGED <<active, boundTo, known>>

\* _on_post_approval_response: a denial is attributed on the evidence the journal has.
Attributes(denied, because) == denied /\ because # {}

Answered(s, denied) ==
    /\ KindOf[s] = "approval" /\ Over(s)
    /\ LET a == Where(s, TraceFor(s))
           end == Terminal(s, a, Parent(s))
       IN IF a = Nothing THEN UNCHANGED <<out, refused>>
          ELSE \E ended \in SUBSET {end} :
                  LET because == Parent(s) \cup ended
                      attribution == Event("denied", s, a, because)
                      emitted == {end} \cup (IF Attributes(denied, because) THEN {attribution} ELSE {})
                  IN \E accepted \in SUBSET emitted : accepted \cap {end} = ended /\ Accepts(emitted, accepted)
    /\ UNCHANGED <<active, boundTo, known>>

\* _finish_objective_contract: only a contract that was finalized or prepared says what trace it is.
Contract(s, a, finalized) ==
    /\ KindOf[s] = "contract" /\ Over(s)
    /\ IF a = Nothing THEN UNCHANGED <<active, known, out, refused>>
       ELSE LET after == (IF finalized THEN {Event("persisted", s, a, {})} ELSE {})
                         \cup (IF IsPending(s) THEN {Terminal(s, a, Parent(s))} ELSE {})
            IN \E accepted \in SUBSET (Openings(a) \cup after) :
                  /\ Ensure(a, accepted)
                  /\ IF Ensured(a, accepted)
                     THEN Activate(a) /\ Accepts(Openings(a) \cup after, accepted)
                     ELSE accepted = {} /\ Accepts(Openings(a), {}) /\ UNCHANGED active
    /\ UNCHANGED boundTo

\* _finish_create_call, when the call failed, its trace could not be opened or its task is not bound
CreateUnbound(s) ==
    /\ KindOf[s] = "create" /\ Over(s)
    /\ LET a == Where(s, Active)
           end == IF a = Nothing THEN {} ELSE {Terminal(s, a, Parent(s))}
       IN \E opening \in {{}} \cup {Openings(b) : b \in TraceIds}, accepted \in SUBSET end :
             Accepts(opening \cup end, accepted)
    /\ UNCHANGED <<active, boundTo, known>>

\* The binder's decision is trace a: the span starts over if it started in another.
Restarts_Never(s, a) == FALSE   \* the terminal names the first start
Restarts(s, a) == IsPending(s) /\ Of(s).trace # a

Created(s, a) ==
    /\ KindOf[s] = "create" /\ Over(s) /\ boundTo[TaskOf[s]] \in {Nothing, a}
    /\ LET again == IF Restarts(s, a) THEN {Start(s, a)} ELSE {}
           opening == IF a = Active THEN {} ELSE Openings(a)
       IN \E started \in SUBSET again :
             LET end == Terminal(s, a, IF Restarts(s, a) THEN started ELSE Parent(s))
                 emitted == opening \cup again \cup {end}
             IN \E accepted \in SUBSET emitted :
                   /\ accepted \cap again = started
                   /\ a = Active \/ Ensured(a, accepted)
                   /\ Accepts(emitted, accepted)
                   /\ (IF a = Active THEN UNCHANGED known ELSE Ensure(a, accepted))
    /\ boundTo' = [boundTo EXCEPT ![TaskOf[s]] = a] /\ Activate(a)

-----------------------------------------------------------------------------
(* The worker thread and other processes *)

\* A claim, or a board or launch variable, of a trace that the retained journals have
Restored(a) ==
    /\ Opened(a) /\ known' = known \cup {a}
    /\ \/ Activate(a) /\ UNCHANGED boundTo
       \/ \E t \in WorkUnits : boundTo[t] = Nothing /\ boundTo' = [boundTo EXCEPT ![t] = a] /\ UNCHANGED active
    /\ UNCHANGED <<stage, held, out, refused>>

OpenedElsewhere(a) ==
    /\ ~Opened(a) /\ out' = out \cup {Opening(a)}
    /\ UNCHANGED <<stage, held, active, boundTo, known, refused>>

CaptureInit ==
    /\ stage = [s \in Spans |-> "new"] /\ held = {}
    /\ active = {} /\ known = {} /\ out = {} /\ refused = {}
    /\ boundTo = [t \in WorkUnits |-> Nothing]

CaptureNext ==
    \/ \E s \in Spans :
          \/ KindOf[s] # "create" /\ Pre(s)
          \/ PreCreate(s) \/ Post(s) \/ CreateUnbound(s)
          \/ \E denied \in BOOLEAN : Answered(s, denied)
          \/ \E a \in TraceIds \cup {Nothing}, finalized \in BOOLEAN : Contract(s, a, finalized)
          \/ \E a \in TraceIds : Created(s, a)
    \/ \E a \in TraceIds : Restored(a) \/ OpenedElsewhere(a)

CaptureSpec == CaptureInit /\ [][CaptureNext]_captureVars

-----------------------------------------------------------------------------
(* Properties *)

\* A terminal that names its start names one that the journal has, of the same span and in the same
\* trace, though traces become active, tasks are bound and starts are refused or evicted in between.
\* A call that finalizes a contract ends in the trace it made.
EndsWhereItBegan ==
    \A e \in out : e.kind = "end" => \A p \in e.of :
        p \in out /\ p.span = e.span /\ (p.trace = e.trace \/ KindOf[e.span] = "contract")

\* No trace is active that no journal opens: an event of it would belong to nothing.
ActiveIsOpened == \A a \in active : Opened(a)

\* A denial is attributed on evidence that the journal has.
DenialHasEvidence == \A e \in out : e.kind = "denied" => e.of # {} /\ e.of \subseteq out

\* The settings of a request name its start; only a start that the journal refused is not in it.
SettingsNameTheStart ==
    \A e \in out : e.kind = "settings" => e.of = {Start(e.span, e.trace)} /\ e.of \subseteq out \cup refused

\* What a hook emits hangs on something the journal has: a terminal on its start, an active trace on its
\* opening, a denial on the request it answers; and where it does not, with the settings of a request,
\* that is because the journal refused this very start (hermes_plugin.py).
TiedToItsTrace == EndsWhereItBegan /\ ActiveIsOpened /\ DenialHasEvidence /\ SettingsNameTheStart
=============================================================================
