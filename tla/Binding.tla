------------------------------ MODULE Binding ------------------------------
(***************************************************************************)
(* How the tasks of one board come to belong to a trace: every process that *)
(* has the observer plugin binds what its hooks see in memory               *)
(* (correlation.py), keeps the binding as an intent, and a worker thread    *)
(* publishes intents as claims in the process's journal (hermes_plugin.py)  *)
(* from an index of everybody's journals (retained_index.py).               *)
(***************************************************************************)
EXTENDS Naturals, Sequences, SequencesExt, FiniteSetsExt

CONSTANTS Producers, Creators, Tasks, Tokens, None,   \* Creators: producers whose agent creates tasks
          TokenOf,    \* [Tasks -> Tokens \cup {None}]: the idempotency key
          Parents,    \* [Tasks -> SUBSET Tasks]
          TraceOf,    \* [Tokens -> traces]
          BoardTrace, \* [Producers -> traces]: the trace under which a process knows the board
          LaunchTask, \* [Producers -> Tasks \cup {None}]: HERMES_KANBAN_TASK
          Troubled,   \* the processes that crash, fail to read or append, or make noise
          MaxTrouble  \* how often they do

Traces == {TraceOf[k] : k \in Tokens}
Relations == {"root", "unknown"}
Claims == [trace : Traces, relation : Relations]
Intents == [claim : Claims, emitted : BOOLEAN]

ASSUME BindingAssumption ==
    /\ None \notin Producers \cup Tasks \cup Claims \cup Intents
    /\ TokenOf \in [Tasks -> Tokens \cup {None}]
    /\ Parents \in [Tasks -> SUBSET Tasks]
    /\ BoardTrace \in [Producers -> Traces]
    /\ MaxTrouble \in Nat

VARIABLES board, open,         \* tasks created; the create calls whose hook has not run
          log,                 \* what the journals hold, each entry with its producer epoch
          lock,                \* the native-binding lock of the project
          epoch,
          state, sig, seen,    \* the snapshot: its state, its signature, what it has read
          pending, conflicted, \* intents; tasks with contradictory claims or intents
          bound, roots, tokens, restored,   \* WorkGraphBinder
          doing, ready, view, trouble

disk == <<board, open, log>>
index == <<state, sig, seen, pending, conflicted>>
binder == <<bound, roots, tokens, restored>>
worker == <<doing, ready, view>>
bindingVars == <<disk, lock, epoch, index, binder, worker, trouble>>

Claim(trace, relation) == [trace |-> trace, relation |-> relation]
Own(p) == <<p, epoch[p]>>
Append1(p, task, claim) == log' = Append(log, [by |-> Own(p), task |-> task, claim |-> claim])
Trouble(p) == p \in Troubled /\ trouble < MaxTrouble /\ trouble' = trouble + 1

-----------------------------------------------------------------------------
(* The retained index *)

Rows(n, t) == {i \in 1 .. n : log[i].task = t}
Latest(n, t) == {log[i].claim : i \in {j \in Rows(n, t) : \A k \in Rows(n, t) : log[k].by = log[j].by => k <= j}}

\* The claim that the epochs agree on
Resolved(n, t) == IF Cardinality(Latest(n, t)) = 1 THEN CHOOSE c \in Latest(n, t) : TRUE ELSE None

BindingState(p, t) ==
    CASE state[p] # "validated" -> IF pending[p][t] # None THEN "pending" ELSE "incomplete"
      [] Resolved(seen[p], t) # None -> "verified"
      [] pending[p][t] # None -> "pending"
      [] t \in conflicted[p] \/ Rows(seen[p], t) # {} -> "conflict"
      [] OTHER -> "absent"

\* No journal but the process's own has changed since the snapshot.
Covers_Any(p) == state[p] = "validated"   \* whatever the others wrote meanwhile
Covers(p) == /\ state[p] = "validated"
             /\ \A i \in sig[p] + 1 .. Len(log) : log[i].by = Own(p)

\* record_binding
Record(p, t, c, emitted) ==
    LET old == pending[p][t]
        retained == Rows(seen[p], t) # {}
        same == old = None \/ old.claim = c
    IN /\ pending' = [pending EXCEPT ![p][t] =
             IF retained THEN old
             ELSE IF same THEN [claim |-> c, emitted |-> emitted \/ (old # None /\ old.emitted)]
             ELSE None]
       /\ conflicted' = [conflicted EXCEPT ![p] =
             IF (IF retained THEN Resolved(seen[p], t) = c ELSE same) THEN @ ELSE @ \cup {t}]
       /\ UNCHANGED <<state, sig, seen>>

\* refresh: the segments are enumerated, and read where they have changed.
Stat(p) ==
    /\ doing[p] = "idle"
    /\ IF sig[p] = Len(log) /\ state[p] \in {"validated", "incomplete"}
       THEN doing' = [doing EXCEPT ![p] = "flush"] /\ UNCHANGED sig
       ELSE doing' = [doing EXCEPT ![p] = "read"] /\ sig' = [sig EXCEPT ![p] = Len(log)]
    /\ UNCHANGED <<disk, lock, epoch, state, seen, pending, conflicted, binder, ready, view, trouble>>

Aggregate(p, s) ==
    LET n == Len(log)
        Settled(t) == Rows(n, t) # {} /\ pending[p][t] # None
    IN /\ seen' = [seen EXCEPT ![p] = n]
       /\ state' = [state EXCEPT ![p] = s]
       /\ pending' = [pending EXCEPT ![p] = [t \in Tasks |-> IF Settled(t) THEN None ELSE @[t]]]
       /\ conflicted' = [conflicted EXCEPT ![p] =
             {t \in Tasks : Rows(n, t) # {} /\ (Resolved(n, t) = None
                            \/ (Settled(t) /\ Resolved(n, t) # pending[p][t].claim))}]

Read(p) ==
    /\ doing[p] = "read" /\ doing' = [doing EXCEPT ![p] = "flush"]
    /\ \/ Aggregate(p, "validated") /\ UNCHANGED trouble
       \/ Aggregate(p, "incomplete") /\ Trouble(p)   \* one cannot be read
    /\ UNCHANGED <<disk, lock, epoch, sig, binder, ready, view>>

Unavailable(p) ==   \* they cannot be enumerated
    /\ Trouble(p) /\ doing[p] = "idle" /\ doing' = [doing EXCEPT ![p] = "flush"]
    /\ state' = [state EXCEPT ![p] = "unavailable"]
    /\ UNCHANGED <<disk, lock, epoch, sig, seen, pending, conflicted, binder, ready, view>>

-----------------------------------------------------------------------------
(* The worker's round: intents are published, claims are restored, the board is read. *)

\* A board whose name, metadata, database or tables are not the trace's own is passed over.
PassedOver == {}
\* The board is read once, with one snapshot of its tasks; it may not be readable.
ReadBoard(p) == \E there \in {board, PassedOver} : view' = [view EXCEPT ![p] = there]

\* _restore_all_retained_bindings, once, and _restore_launch_binding
Restore(p) ==
    /\ doing' = [doing EXCEPT ![p] = "board"]
    /\ LET known == IF state[p] = "validated" THEN {t \in Tasks : Resolved(seen[p], t) # None} ELSE {}
           back == IF restored[p] THEN known \cap {LaunchTask[p]} ELSE known
           claim(t) == Resolved(seen[p], t)
       IN /\ bound' = [bound EXCEPT ![p] = [t \in Tasks |-> IF t \in back THEN claim(t).trace ELSE @[t]]]
          /\ roots' = [roots EXCEPT ![p] = [a \in Traces |->
                LET of == {t \in back : claim(t) = Claim(a, "root")}
                IN IF of = {} THEN @[a] ELSE CHOOSE t \in of : TRUE]]
    /\ restored' = [restored EXCEPT ![p] = TRUE]
    /\ ReadBoard(p)
    /\ UNCHANGED tokens

Collect(p) ==   \* pending_binding_events
    /\ doing[p] = "flush"
    /\ LET events == {t \in Tasks : /\ state[p] = "validated" /\ pending[p][t] # None
                                    /\ ~pending[p][t].emitted
                                    /\ Rows(seen[p], t) = {} /\ t \notin conflicted[p]}
       IN /\ ready' = [ready EXCEPT ![p] = {[task |-> t, claim |-> pending[p][t].claim] : t \in events}]
          /\ IF events = {} THEN Restore(p)
             ELSE doing' = [doing EXCEPT ![p] = "lock"] /\ UNCHANGED <<binder, view>>
    /\ UNCHANGED <<disk, lock, epoch, index, trouble>>

Lock(p) ==
    /\ doing[p] = "lock" /\ lock = None
    /\ IF Covers(p)
       THEN lock' = p /\ doing' = [doing EXCEPT ![p] = "emit"] /\ UNCHANGED <<ready, binder, view>>
       ELSE ready' = [ready EXCEPT ![p] = {}] /\ Restore(p) /\ UNCHANGED lock
    /\ UNCHANGED <<disk, epoch, index, trouble>>

Marked(p, t) == [pending EXCEPT ![p][t] = IF @ = None THEN None ELSE [@ EXCEPT !.emitted = TRUE]]

Emit_Anyway(p, r) ==   \* marked whether the append was accepted or not
    /\ doing[p] = "emit" /\ r \in ready[p] /\ ready' = [ready EXCEPT ![p] = @ \ {r}]
    /\ pending' = Marked(p, r.task)
    /\ \/ Append1(p, r.task, r.claim) /\ UNCHANGED <<epoch, trouble>>
       \/ Trouble(p) /\ epoch' = [epoch EXCEPT ![p] = @ + 1] /\ UNCHANGED log
    /\ UNCHANGED <<board, open, lock, state, sig, seen, conflicted, binder, doing, view>>

\* A failed append leaves the journal for one of a new epoch.
Emit(p, r) ==
    /\ doing[p] = "emit" /\ r \in ready[p] /\ ready' = [ready EXCEPT ![p] = @ \ {r}]
    /\ \/ /\ Append1(p, r.task, r.claim) /\ pending' = Marked(p, r.task)
          /\ UNCHANGED <<epoch, trouble>>
       \/ Trouble(p) /\ epoch' = [epoch EXCEPT ![p] = @ + 1] /\ UNCHANGED <<log, pending>>
    /\ UNCHANGED <<board, open, lock, state, sig, seen, conflicted, binder, doing, view>>

Unlock(p) ==
    /\ doing[p] = "emit" /\ ready[p] = {} /\ UNCHANGED ready
    /\ lock' = None /\ Restore(p)
    /\ UNCHANGED <<disk, epoch, index, trouble>>

-----------------------------------------------------------------------------
(* WorkGraphBinder: what is bound to what, or None *)

\* The trace a root is bound under: its token's, or the one the process is about.
RootTrace(p, t) ==
    LET k == TokenOf[t]
        a == IF k = None THEN BoardTrace[p] ELSE TraceOf[k]
    IN IF /\ k # None => tokens[p][k] \subseteq {t}
          /\ roots[p][a] \in {None, t}
          /\ bound[p][t] \in {None, a}
       THEN a ELSE None

BindRoot(p, t) ==
    /\ tokens' = [tokens EXCEPT ![p] =
                     [k \in Tokens |-> IF k = TokenOf[t] THEN @[k] \cup {t} ELSE @[k]]]
    /\ IF RootTrace(p, t) = None THEN UNCHANGED <<bound, roots>>
       ELSE /\ bound' = [bound EXCEPT ![p][t] = RootTrace(p, t)]
            /\ roots' = [roots EXCEPT ![p][RootTrace(p, t)] = t]
    /\ UNCHANGED restored

ParentTrace(p, t) ==
    LET traces == {bound[p][q] : q \in Parents[t]} \ {None}
    IN IF Cardinality(traces) # 1 THEN None
       ELSE LET a == CHOOSE a \in traces : TRUE
            IN IF bound[p][t] \in {None, a} THEN a ELSE None

Inherit(p, t) ==
    /\ bound' = IF ParentTrace(p, t) = None THEN bound ELSE [bound EXCEPT ![p][t] = ParentTrace(p, t)]
    /\ UNCHANGED <<roots, tokens, restored>>

\* _publish_absent_binding: a refused append leaves no intent.
Publish(p, t, c) ==
    /\ lock = None /\ UNCHANGED <<board, open, lock>>
    /\ IF Covers(p)
       THEN \/ Append1(p, t, c) /\ Record(p, t, c, TRUE) /\ UNCHANGED <<epoch, trouble>>
            \/ Trouble(p) /\ epoch' = [epoch EXCEPT ![p] = @ + 1] /\ UNCHANGED <<log, index>>
       ELSE Record(p, t, c, FALSE) /\ UNCHANGED <<log, epoch, trouble>>

\* _emit_binding_durable
Durable(p, t, c, fromWorker) ==
    LET s == BindingState(p, t)
    IN IF s = "absent" /\ fromWorker THEN Publish(p, t, c)
       ELSE /\ IF s \in {"absent", "incomplete"} THEN Record(p, t, c, FALSE) ELSE UNCHANGED index
            /\ UNCHANGED <<disk, lock, epoch, trouble>>

Unbound == <<disk, lock, epoch, index, trouble>>

\* The token groups of the board, for its own trace
Rooted(p) == {t \in view[p] : TokenOf[t] # None /\ TraceOf[TokenOf[t]] = BoardTrace[p]
                              /\ \A u \in view[p] : TokenOf[u] = TokenOf[t] => u = t}

WorkerRoot(p, t) ==
    /\ doing[p] = "board" /\ t \in Rooted(p) \ ready[p] /\ ready' = [ready EXCEPT ![p] = @ \cup {t}]
    /\ BindRoot(p, t)
    /\ IF bound[p][t] = None /\ RootTrace(p, t) # None
       THEN Durable(p, t, Claim(RootTrace(p, t), "root"), TRUE) ELSE UNCHANGED Unbound
    /\ UNCHANGED <<doing, view>>

Descends(p, t) == Rooted(p) \subseteq ready[p] /\ t \in view[p] /\ bound[p][t] = None /\ ParentTrace(p, t) # None

WorkerInherit(p, t) ==
    /\ doing[p] = "board" /\ Descends(p, t)
    /\ Inherit(p, t) /\ Durable(p, t, Claim(ParentTrace(p, t), "unknown"), TRUE)
    /\ UNCHANGED worker

RoundEnds(p) ==
    /\ doing[p] = "board" /\ Rooted(p) \subseteq ready[p] /\ ~\E t \in Tasks : Descends(p, t)
    /\ doing' = [doing EXCEPT ![p] = "idle"]
    /\ view' = [view EXCEPT ![p] = {}] /\ ready' = [ready EXCEPT ![p] = {}]
    /\ UNCHANGED <<disk, lock, epoch, index, binder, trouble>>

-----------------------------------------------------------------------------
(* The agents *)

\* A task is created by an observed call of p, or by anyone else.
Create(t) ==
    /\ t \notin board /\ Parents[t] \subseteq board /\ board' = board \cup {t}
    /\ \/ \E p \in Creators : open' = open \cup {<<p, t>>}
       \/ UNCHANGED open
    /\ UNCHANGED <<log, lock, epoch, index, binder, worker, trouble>>

\* _finish_create_call
Hook(p, t) ==
    /\ <<p, t>> \in open /\ open' = open \ {<<p, t>>}
    /\ LET a == IF Parents[t] # {} THEN ParentTrace(p, t) ELSE RootTrace(p, t)
           s == BindingState(p, t)
       IN /\ IF Parents[t] # {} THEN Inherit(p, t) ELSE BindRoot(p, t)
          /\ IF a # None /\ s \in {"absent", "incomplete"}
             THEN Record(p, t, Claim(a, IF Parents[t] # {} THEN "unknown" ELSE "root"), FALSE)
             ELSE UNCHANGED index
    /\ UNCHANGED <<board, log, lock, epoch, worker, trouble>>

Noise(p) ==   \* any other event
    /\ Trouble(p) /\ Append1(p, None, None)
    /\ UNCHANGED <<board, open, lock, epoch, index, binder, worker>>

Crash(p) ==
    /\ Trouble(p)
    /\ epoch' = [epoch EXCEPT ![p] = @ + 1]
    /\ lock' = (IF lock = p THEN None ELSE lock)
    /\ open' = {call \in open : call[1] # p}
    /\ state' = [state EXCEPT ![p] = "unknown"]
    /\ sig' = [sig EXCEPT ![p] = 0] /\ seen' = [seen EXCEPT ![p] = 0]
    /\ pending' = [pending EXCEPT ![p] = [t \in Tasks |-> None]]
    /\ conflicted' = [conflicted EXCEPT ![p] = {}]
    /\ bound' = [bound EXCEPT ![p] = [t \in Tasks |-> None]]
    /\ roots' = [roots EXCEPT ![p] = [a \in Traces |-> None]]
    /\ tokens' = [tokens EXCEPT ![p] = [k \in Tokens |-> {}]]
    /\ restored' = [restored EXCEPT ![p] = FALSE]
    /\ doing' = [doing EXCEPT ![p] = "idle"]
    /\ ready' = [ready EXCEPT ![p] = {}] /\ view' = [view EXCEPT ![p] = {}]
    /\ UNCHANGED <<board, log>>

-----------------------------------------------------------------------------
BindingInit ==
    /\ board = {} /\ open = {} /\ log = <<>> /\ lock = None
    /\ epoch = [p \in Producers |-> 0]
    /\ state = [p \in Producers |-> "unknown"]
    /\ sig = [p \in Producers |-> 0] /\ seen = [p \in Producers |-> 0]
    /\ pending = [p \in Producers |-> [t \in Tasks |-> None]]
    /\ conflicted = [p \in Producers |-> {}]
    /\ bound = [p \in Producers |-> [t \in Tasks |-> None]]
    /\ roots = [p \in Producers |-> [a \in Traces |-> None]]
    /\ tokens = [p \in Producers |-> [k \in Tokens |-> {}]]
    /\ restored = [p \in Producers |-> FALSE]
    /\ doing = [p \in Producers |-> "idle"]
    /\ ready = [p \in Producers |-> {}] /\ view = [p \in Producers |-> {}]
    /\ trouble = 0

Round(p) ==
    \/ Stat(p) \/ Read(p) \/ Collect(p) \/ Lock(p) \/ Unlock(p)
    \/ \E r \in ready[p] : Emit(p, r)
    \/ RoundEnds(p)
    \/ \E t \in Tasks : WorkerRoot(p, t) \/ WorkerInherit(p, t)

BindingNext ==
    \/ \E p \in Producers :
          Round(p) \/ Unavailable(p) \/ Noise(p) \/ Crash(p) \/ \E t \in Tasks : Hook(p, t)
    \/ \E t \in Tasks : Create(t)

\* The worker wakes at an interval, if nothing wakes it before.
BindingFairness == \A p \in Producers : WF_bindingVars(Round(p))
BindingSpec == BindingInit /\ [][BindingNext]_bindingVars /\ BindingFairness

-----------------------------------------------------------------------------
(* Properties *)

ClaimsOf(t) == {log[i].claim : i \in Rows(Len(log), t)}

\* However hooks, workers and restarts of several processes interleave, the journals never hold two
\* claims for one task that contradict each other: no epoch could take precedence, and both would be lost.
OneAttribution == \A t \in Tasks : Cardinality(ClaimsOf(t)) <= 1

\* Every intent is in the end published, or given up for a claim that was first; not when a journal could
\* not be read, which is not read again until something changes.
IntentSettles ==
    <>[](\A p \in Producers : state[p] # "incomplete" => \A t \in Tasks : pending[p][t] = None)

=============================================================================
