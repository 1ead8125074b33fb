------------------------------ MODULE Semantic ------------------------------
(***************************************************************************)
(* One bounded semantic extraction (knowledge/semantic.py,                 *)
(* run_semantic_extraction, with run_bounded_graphify of graphify.py): a   *)
(* plan, the cache of validated fragments, at most MaxInFlight model calls *)
(* in worker threads, one composition over everything accepted, a receipt. *)
(* The host may cancel and the budget may run out between any two steps,   *)
(* and the process may die.  The caller is Knowledge, which extends this   *)
(* module with the snapshots.                                              *)
(*                                                                         *)
(* Time is what the code compares it with.  A `wide' budget is the one of  *)
(* the whole operation; one configured lower ends earlier.                 *)
(***************************************************************************)
EXTENDS Integers, FiniteSets, FiniteSetsExt

CONSTANTS NChunks,      \* chunks the eligible files are packed into
          Routes,       \* resolved auxiliary routes a configuration may name
          MaxInFlight

ASSUME SemanticAssumption == /\ NChunks \in Nat \ {0} /\ MaxInFlight \in Nat \ {0}
                             /\ {"none", "unresolved"} \cap Routes = {}

Chunks == 1..NChunks

\* Early; the reserve of the semantic budget; its end; the reserve and the end of the operation.
Early == 0
Reserve == 1
SemanticEnd == 2
OperationReserve == 3
OperationEnd == 4

NoReceipt == [state |-> "none", route |-> "none", composed |-> {}, exhausted |-> FALSE,
              operation |-> FALSE, composedOk |-> FALSE]
NoGraph == {0}

VARIABLES
    clock, wide,
    asked,       \* a cancellation of the host: "no", by its interrupt, by the event it supplied
    supplied,    \* the caller supplied the event
    event, abort, exhausted,  \* shared_cancel, budget_abort, deadline_exhausted
    cache,       \* of every route and chunk: "none", "legacy", "qualified"
    plans,       \* routes with a persisted plan
    pc,
    route,       \* the resolved route, "none" without a task, "unresolved"
    reused,      \* the plan is an old one: the prompts are still to be fetched
    cached, queue, inflight, fresh, failed, pending, \* sets of chunks
    worker,      \* the step of every chunk's worker
    accepted, composed,
    graph,       \* the overlay in the candidate's graph file, NoGraph before there is one
    receipt

budget == <<clock, wide, supplied, asked>>
flags == <<event, abort, exhausted>>
store == <<cache, plans>>
marks == <<failed, pending>>
scheduling == <<queue, inflight>>
work == <<scheduling, worker, fresh, marks>>
extraction == <<route, reused, cached, accepted, composed, receipt>>
semanticVars == <<budget, flags, store, pc, work, extraction, graph>>

-----------------------------------------------------------------------------
(* Budget and cancellation *)

InReserve == clock >= Reserve
Expired == clock >= IF wide THEN OperationEnd ELSE SemanticEnd
OperationLate == clock >= IF wide THEN Reserve ELSE OperationReserve
OperationOver == clock = OperationEnd

\* _cancel_requested: the host's cancellation, never the budget's own abort.
CancelRequested == asked = "host" \/ (event /\ ~abort)

\* A poll hands an interrupt of the host on to the event; one of the budget keeps the score.
Poll == /\ event' = (event \/ asked = "host")
        /\ exhausted' = (exhausted \/ (Expired /\ ~CancelRequested))
        /\ UNCHANGED abort

\* _budget_expired(abort_in_flight=True)
PollAborting == /\ event' = (event \/ Expired)
                /\ abort' = (abort \/ (Expired /\ ~event))
                /\ exhausted' = TRUE

\* The component's process answers, or fails, is refused or runs into its own limits.
ComponentEnds == {"ok", "error"}

\* run_bounded_graphify: how a bounded call of the component can end.  A timeout is the
\* operation's only when it is the operation's time that is used up.
Bounded == IF event \/ asked = "host" THEN {"cancelled"}
           ELSE IF OperationLate THEN {"deadline"} ELSE ComponentEnds

Tick ==
    /\ pc # "idle"
    /\ clock < OperationEnd
    /\ clock' = IF wide /\ clock = Reserve THEN OperationEnd ELSE clock + 1
    /\ UNCHANGED <<wide, supplied, asked, flags, store, pc, work, extraction, graph>>

Cancel ==
    /\ pc # "idle" /\ asked = "no"
    /\ \/ /\ supplied
          /\ asked' = "event" /\ event' = TRUE
       \/ /\ asked' = "host" /\ UNCHANGED event
    /\ UNCHANGED <<clock, wide, supplied, abort, exhausted, store, pc, work, extraction, graph>>

-----------------------------------------------------------------------------
(* The plan and the cache *)

\* resolve_auxiliary_task, resolve_auxiliary_route
Resolutions == Routes \cup {"none", "unresolved"}

\* plan_matches, plan_accepts_structural_base: the plan of this revision, policy and route.
HasPlan(r) == r \in plans
KeepsPlan(r) == plans' = plans \cup {r}

\* cache_entry_is_qualified
QualifiedOn(r) == {c \in Chunks : cache[r][c] = "qualified"}
Qualified == QualifiedOn(route)

\* _revalidated_legacy_entry: an older entry is validated again and written anew, unless the
\* component cannot be asked any more.
Revalidated == IF event \/ asked = "host" \/ OperationLate THEN {{}}
               ELSE SUBSET {c \in Chunks : cache[route][c] = "legacy"}

Receipt(state, composedNow, over) ==
    [state |-> state, route |-> IF state \in {"none", "unavailable"} THEN "none" ELSE route,
     composed |-> composedNow, exhausted |-> over, operation |-> wide,
     composedOk |-> composedNow # {}]

\* _early_receipt
Early_(state) ==
    /\ pc' = "judge"
    /\ receipt' = [Receipt(state, {}, exhausted') EXCEPT !.route = "none"]
    /\ UNCHANGED <<route, reused, cached, accepted, composed, work, store>>

Raise(code) == pc' = code /\ UNCHANGED <<extraction, work, store>>

\* run_semantic_extraction up to the plan: no task, no resolved route, a plan to build.
Plan ==
    /\ pc = "plan"
    /\ IF CancelRequested THEN Poll /\ Raise("cancelled")
       ELSE IF route = "none" THEN UNCHANGED flags /\ Early_("unavailable")
       ELSE IF route = "unresolved" THEN UNCHANGED flags /\ Early_("pending")
       ELSE IF HasPlan(route)
       THEN /\ pc' = "lookup" /\ reused' = TRUE
            /\ UNCHANGED <<flags, route, cached, accepted, composed, receipt, work, store>>
       ELSE pc' = "prepare" /\ UNCHANGED <<flags, extraction, work, store>>
    /\ UNCHANGED <<budget, graph>>

\* _fetch_all_prepared_chunks for a new plan, which is kept for the next extraction.
Prepare ==
    /\ pc = "prepare"
    /\ \E end \in Bounded :
          \/ /\ end = "cancelled"
             /\ Poll /\ Raise("cancelled")
          \/ /\ end = "deadline" \/ (end = "error" /\ Expired)
             /\ exhausted' = TRUE /\ UNCHANGED <<event, abort>>
             /\ Early_("pending")
          \/ /\ end = "error" /\ ~Expired
             /\ UNCHANGED flags
             /\ Early_("unavailable")
          \/ /\ end = "ok"
             /\ pc' = "lookup"
             /\ KeepsPlan(route)
             /\ UNCHANGED <<flags, extraction, work, cache>>
    /\ UNCHANGED <<budget, graph>>

\* What the cache does not hold is needed; a reused plan has no prompts for it.
Lookup ==
    /\ pc = "lookup"
    /\ \E good \in Revalidated :
          /\ cached' = good \cup Qualified
          /\ cache' = [cache EXCEPT ![route] =
                          [c \in Chunks |-> IF c \in good THEN "qualified" ELSE @[c]]]
    /\ LET needed == Chunks \ cached'
       IN  IF needed # {} /\ reused /\ ~Expired
           THEN /\ pc' = "refetch"
                /\ queue' = needed
                /\ exhausted' = exhausted
                /\ UNCHANGED pending
           ELSE /\ pc' = "run"
                /\ exhausted' = (exhausted \/ Expired)
                /\ queue' = IF Expired THEN {} ELSE needed
                /\ pending' = IF Expired THEN needed ELSE {}
    /\ UNCHANGED <<budget, event, abort, plans, route, reused, accepted, composed, receipt,
                   inflight, worker, fresh, failed, graph>>

\* The prompts of a reused plan; without them its chunks stay pending.
Refetch ==
    /\ pc = "refetch"
    /\ \E end \in Bounded :
          \/ /\ end = "cancelled"
             /\ Poll /\ Raise("cancelled")
          \/ /\ end \in {"deadline", "error"} \/ Expired
             /\ end # "cancelled"
             /\ exhausted' = (exhausted \/ end = "deadline" \/ Expired)
             /\ pc' = "run"
             /\ pending' = queue
             /\ queue' = {}
             /\ UNCHANGED <<event, abort, extraction, inflight, worker, fresh, failed,
                            store>>
          \/ /\ end = "ok" /\ ~Expired
             /\ pc' = "run"
             /\ UNCHANGED <<flags, extraction, work, store>>
    /\ UNCHANGED <<budget, graph>>

-----------------------------------------------------------------------------
(* _process_chunk: the worker of one chunk.  It is not known to the scheduler any more *)
(* once that has given up on it, and works on until it next looks at the event.  A     *)
(* fence that finds the event set or the time used up has the outcome of a call that   *)
(* was aborted, so the worker is seen where it calls the model and where it puts.      *)

Mark(c, mark) == /\ worker' = [worker EXCEPT ![c] = "done"]
                 /\ pending' = IF mark = "pending" THEN pending \cup {c} ELSE pending
                 /\ failed' = IF mark = "failed" THEN failed \cup {c} ELSE failed

\* The call is aborted, or the answer is not one final text of the expected route
\* (classify_auxiliary_response, routes_match_strictly).
Refused(c) == Poll /\ Mark(c, "pending")

\* An attempt that failed is repeated, unless it was the last, the router is exhausted, or
\* there is no time.
CallFails(c) ==
    /\ Poll
    /\ \/ ~CancelRequested /\ ~event /\ ~Expired /\ UNCHANGED <<worker, marks>>
       \/ Mark(c, IF CancelRequested \/ event THEN "pending" ELSE "failed")

\* semantic_validate, and the fences before and behind it.
Validates(c) ==
    IF CancelRequested \/ event THEN Poll /\ Mark(c, "pending")
    ELSE IF Expired THEN /\ \/ Poll /\ Mark(c, "unmarked")
                            \/ PollAborting /\ Mark(c, "pending")
    ELSE \/ UNCHANGED flags /\ Mark(c, "failed")
         \/ UNCHANGED <<flags, marks>> /\ worker' = [worker EXCEPT ![c] = "put"]

\* put_qualified
Puts(c) ==
    /\ worker[c] = "put"
    /\ worker' = [worker EXCEPT ![c] = "done"]
    /\ cache' = [cache EXCEPT ![route][c] = "qualified"]
    /\ fresh' = fresh \cup {c}
    /\ UNCHANGED <<flags, marks, plans>>

Worker ==
    /\ \E c \in Chunks : \/ /\ worker[c] = "calling"
                            /\ Refused(c) \/ CallFails(c) \/ Validates(c)
                            /\ UNCHANGED <<fresh, store>>
                         \/ Puts(c)
    /\ UNCHANGED <<budget, pc, extraction, scheduling, graph>>

-----------------------------------------------------------------------------
(* The scheduler, on the thread of the update *)

\* Nothing starts once the reserve of the budget is reached.
Submit ==
    /\ pc = "run"
    /\ queue # {} /\ Cardinality(inflight) < MaxInFlight
    /\ ~event /\ ~InReserve
    /\ LET c == Min(queue)
       IN  /\ queue' = queue \ {c}
           /\ inflight' = inflight \cup {c}
           /\ worker' = [worker EXCEPT ![c] = "calling"]
    /\ UNCHANGED <<budget, flags, store, pc, fresh, marks, extraction, graph>>

Reap ==
    /\ pc \in {"run", "drain"}
    /\ \E c \in inflight : worker[c] = "done" /\ inflight' = inflight \ {c}
    /\ UNCHANGED <<budget, flags, store, pc, queue, worker, fresh, marks, extraction,
                   graph>>

EndSchedule_Waits ==   \* the loop waits for whoever is in flight.
    /\ pc = "run"
    /\ inflight = {}
    /\ queue = {} \/ event \/ InReserve
    /\ pc' = "accept"
    /\ UNCHANGED <<flags, budget, store, work, extraction, graph>>

\* The loop ends with nothing in flight, a cancellation, the reserve or the end of the budget.
EndSchedule ==
    /\ pc = "run"
    /\ \/ /\ inflight = {}
          /\ queue = {} \/ event \/ InReserve
          /\ pc' = "accept"
          /\ UNCHANGED flags
       \/ /\ inflight # {}
          /\ CancelRequested \/ event \/ InReserve
          /\ pc' = "drain"
          /\ event' = TRUE
          /\ abort' = (abort \/ ~(event \/ asked = "host"))
          /\ exhausted' = (exhausted \/ ~(event \/ asked = "host"))
    /\ UNCHANGED <<budget, store, work, extraction, graph>>

\* The drain is short, and over when the budget is; who is still at work stays pending.
EndDrain ==
    /\ pc = "drain"
    /\ inflight = {} \/ CancelRequested \/ Expired
    /\ Poll
    /\ pending' = pending \cup {c \in inflight : worker[c] # "done"}
    /\ inflight' = {}
    /\ pc' = "accept"
    /\ UNCHANGED <<budget, store, queue, worker, fresh, failed, extraction, graph>>

\* accepted: what the cache held and what was validated in time.
Accept ==
    /\ pc = "accept"
    /\ accepted' = cached \cup fresh
    /\ IF accepted' = {} THEN UNCHANGED flags ELSE Poll
    /\ IF accepted' # {} /\ ~CancelRequested /\ ~Expired
       THEN pc' = "compose" /\ UNCHANGED pending
       ELSE pc' = "settle" /\ pending' = pending \cup accepted'
    /\ UNCHANGED <<budget, store, route, reused, cached, composed, receipt, scheduling, worker,
                   fresh, failed, graph>>

\* semantic_compose, one call.  The component writes the graph file as its last act but one:
\* a call that fails may have written it.
Compose ==
    /\ pc = "compose"
    /\ \E end \in Bounded, wrote \in BOOLEAN :
          /\ graph' = IF wrote THEN accepted ELSE graph
          /\ \/ /\ end = "cancelled" /\ ~wrote
                /\ Poll /\ Raise("cancelled")
             \/ /\ end = "deadline" \/ (end = "error" /\ Expired)
                /\ pc' = "settle"
                /\ PollAborting
                /\ pending' = pending \cup accepted
                /\ UNCHANGED <<extraction, scheduling, worker, fresh, failed, store>>
             \/ /\ end = "error" /\ ~Expired
                /\ pc' = "settle"
                /\ failed' = failed \cup accepted
                /\ UNCHANGED <<flags, extraction, scheduling, worker, fresh, pending,
                               store>>
             \/ /\ end = "ok" /\ wrote
                /\ pc' = "settle"
                /\ composed' = accepted
                /\ UNCHANGED <<flags, route, reused, cached, accepted, receipt, work, store>>
    /\ UNCHANGED budget

\* What is neither composed nor failed is pending; the state of the receipt.  A worker that was
\* given up on finds the event set: all it can still do is put its fragment into the cache.
SemanticState ==
    IF composed = Chunks THEN "complete"
    ELSE IF composed # {} THEN "partial"
    ELSE IF pending' # {} THEN IF failed # {} THEN "partial" ELSE "pending"
    ELSE "unavailable"

Settle_ForgetsOpen ==   \* chunks that never ran are not marked.
    /\ pc = "settle"
    /\ LET open == {}
       IN  /\ pending' = pending \cup open
           /\ event' = (event \/ (open # {} /\ asked = "host"))
           /\ exhausted' = (exhausted \/ (open # {} /\ ~CancelRequested /\ InReserve))
    /\ IF event' /\ ~exhausted' /\ ~abort
       THEN pc' = "cancelled" /\ UNCHANGED receipt
       ELSE pc' = "judge" /\ receipt' = Receipt(SemanticState, composed, exhausted')
    /\ worker' = [c \in Chunks |-> "none"]
    /\ queue' = {} /\ cached' = {} /\ fresh' = {} /\ accepted' = {} /\ reused' = FALSE
    /\ UNCHANGED <<budget, abort, store, inflight, failed, route, composed, graph>>

Settle ==
    /\ pc = "settle"
    /\ LET open == Chunks \ (composed \cup failed \cup pending)
       IN  /\ pending' = pending \cup open
           /\ event' = (event \/ (open # {} /\ asked = "host"))
           /\ exhausted' = (exhausted \/ (open # {} /\ ~CancelRequested /\ InReserve))
    /\ IF event' /\ ~exhausted' /\ ~abort
       THEN pc' = "cancelled" /\ UNCHANGED receipt
       ELSE pc' = "judge" /\ receipt' = Receipt(SemanticState, composed, exhausted')
    /\ worker' = [c \in Chunks |-> "none"]
    /\ queue' = {} /\ cached' = {} /\ fresh' = {} /\ accepted' = {} /\ reused' = FALSE
    /\ UNCHANGED <<budget, abort, store, inflight, failed, route, composed, graph>>

\* The extraction has not begun.
Rested ==
    /\ clock = Early /\ wide = TRUE /\ supplied = FALSE
    /\ event = FALSE /\ abort = FALSE /\ exhausted = FALSE
    /\ route = "none" /\ reused = FALSE
    /\ cached = {} /\ queue = {} /\ inflight = {} /\ fresh = {} /\ failed = {} /\ pending = {}
    /\ worker = [c \in Chunks |-> "none"]
    /\ accepted = {} /\ composed = {} /\ receipt = NoReceipt /\ graph = NoGraph

\* It is over, and its variables with it.
Forgets ==
    /\ clock' = Early /\ wide' = TRUE /\ supplied' = FALSE
    /\ event' = FALSE /\ abort' = FALSE /\ exhausted' = FALSE
    /\ route' = "none" /\ reused' = FALSE
    /\ cached' = {} /\ queue' = {} /\ inflight' = {} /\ fresh' = {} /\ failed' = {} /\ pending' = {}
    /\ worker' = [c \in Chunks |-> "none"]
    /\ accepted' = {} /\ composed' = {} /\ receipt' = NoReceipt /\ graph' = NoGraph

Extract == \/ Plan \/ Prepare \/ Lookup \/ Refetch
           \/ Submit \/ Reap \/ EndSchedule \/ EndDrain \/ Accept \/ Compose \/ Settle
=============================================================================
