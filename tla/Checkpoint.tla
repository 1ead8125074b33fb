----------------------------- MODULE Checkpoint -----------------------------
(***************************************************************************)
(* The checkpoint sink (observation/checkpoint.py) over one trace and one  *)
(* task: Aether's own writers classify the task, ask for its review and    *)
(* give the verdict, and the sink grants each of them only what the durable *)
(* evidence of the project's segments supports.                            *)
(*                                                                         *)
(* Every process writes its own segment; a sink reads the closed segments  *)
(* of all of them and the fsynced part of its own.  It lists the segments  *)
(* first and copies its own prefix afterwards, and what others append, or  *)
(* a rotation moves, in between is not read again.  A short write makes a  *)
(* process give its segment up and begin a new producer epoch.  An event   *)
(* is identified by what it says, so a repeated checkpoint is the same     *)
(* event.                                                                  *)
(***************************************************************************)
EXTENDS Naturals, Sequences, FiniteSets, SequencesExt

CONSTANTS Sinks,           \* the processes that write and emit checkpoints
          BindingRefs,     \* the exact bindings the task may have
          Nobody,
          NativeFacts,     \* what a hook may report: [type, by, binding, says]
          Claims,          \* what a writer may classify the task as
          MaxNatives, MaxEmits, MaxEnded,  \* reports, checkpoints, segments closed or abandoned
          MaxRouted        \* a checkpoint that needs no evidence is among the first so many

\* AuthorityContext.for_active_release: one principal per role.
Principals == {"morfeo", "supervisor", "implementer"}
Required == {"required", "optional"}          \* a review, and whether the objective needs it

ASSUME CheckpointBoundsAssumption ==
    /\ NativeFacts \subseteq [type : {"bound", "unbound"}, by : Principals,
                              binding : BindingRefs, says : {"unsaid", "required"}]
    /\ Claims \subseteq Required \cup {"other"} /\ Claims # {}
    /\ {MaxNatives, MaxEmits, MaxRouted, MaxEnded} \subseteq Nat /\ Nobody \notin BindingRefs

VARIABLES
    trail,      \* trail[p]: the events of p's active segment, in order
    durable,    \* durable[p]: how many of them its durable snapshot holds
    shelved,    \* the events of closed and archived segments
    abandoned,  \* the events of segments given up, or whose process died: kept, never read
    epochs,     \* epochs[p]: the producer epochs p has ended
    opened,     \* opened[p]: the trace counts as materialized in this process
    authority,  \* authority[p]: the active release was readable when p started
    asked,      \* asked[p]: the checkpoint p is emitting
    natives, emits, ended

segments == <<trail, durable, shelved, abandoned, epochs>>
checkpointLimits == <<natives, emits, ended>>
checkpointVars == <<segments, opened, authority, asked, checkpointLimits>>

-----------------------------------------------------------------------------
(* Events and evidence *)

Fact(type, by, binding, says, parent) ==
    [type |-> type, by |-> by, binding |-> binding, says |-> says, parent |-> parent]
Root == [serial |-> 0]                        \* no parent
Opening == Fact("opened", "observer", Nobody, "unsaid", Root)

Own(p) == {trail[p][i] : i \in 1..durable[p]}
\* The snapshot may be refused: the lock is taken, or the segment is no longer the one named.
Readings(p, listed) == {listed, listed \cup Own(p)}

Natives(E) == {e \in E : e.type \in {"bound", "unbound"}}
Classifications(E) == {e \in E : e.type = "classified"}
Requests(E) == {e \in E : e.type = "requested"}

\* AuthorityPrincipal.permits, for reviews: an implementer reviews nothing.
MayReview(who) == who \in Principals \ {"implementer"}

\* causal_order: the last of its producer epoch's events; between epochs any order.
Latest(E) ==
    {e \in E : \A f \in E : f.parent.producer = e.parent.producer
                            => f.parent.serial <= e.parent.serial}

\* _durable_native_binding_parent
BindingParents(E, b) ==
    LET natural == Natives(E) IN
    IF (\A e \in natural : e.binding = b) /\ (\E e \in natural : e.type = "bound")
    THEN Latest(natural) ELSE {}

ReviewAuthority_Unanchored(E, b) ==   \* a classification is not checked against the native facts
    LET natural == Natives(E)
        classes == Classifications(E) IN
    {<<x[1].by, x[2]>> : x \in
        {x \in natural \X classes :
            /\ \A n \in natural : n.type = "bound" /\ n.binding = b /\ MayReview(n.by)
            /\ classes = {x[2]}}}
\* _durable_review_principal: one assignee, one classification that follows a native binding.
ReviewAuthority(E, b) ==
    LET natural == Natives(E)
        classes == Classifications(E) IN
    {<<x[1].by, x[2]>> : x \in
        {x \in natural \X classes :
            /\ \A n \in natural : /\ n.type = "bound" /\ n.binding = b
                                  /\ MayReview(n.by) /\ n.by = x[1].by
                                  /\ n.says \in {"unsaid", x[2].says}
            /\ \A c \in classes : /\ c.binding = b /\ c.says \in Required
                                  /\ c.parent \in natural
            /\ classes = {x[2]}}}

\* _durable_review_request_event
ReviewRequests(E, who, b, c) ==
    LET matches == {e \in Requests(E) : e.by = who /\ e.binding = b /\ e.parent = c} IN
    IF Cardinality(matches) = 1 THEN matches ELSE {}

-----------------------------------------------------------------------------
(* Segments *)

Carries(p, s) == trail' = [trail EXCEPT ![p] = s] /\ UNCHANGED <<durable, abandoned, epochs, ended>>

\* The segment, with s in it, is given up or left behind, and what of it was not fsynced is kept
\* in part; what comes next is of a new epoch (_roll_after_failure).
LeftBehind(p, s) ==
    /\ ended < MaxEnded /\ ended' = ended + 1
    /\ \E kept \in durable[p]..Len(s) : abandoned' = abandoned \cup {s[i] : i \in 1..kept}
    /\ trail' = [trail EXCEPT ![p] = <<>>]
    /\ durable' = [durable EXCEPT ![p] = 0]
    /\ epochs' = [epochs EXCEPT ![p] = @ + 1]

\* An append that is refused, maybe as a short write.
Refused(p, s) == Carries(p, s) \/ LeftBehind(p, s)

\* The hook of p, or its reconciliation, reports what became of the native task.
Native(p) ==
    /\ natives < MaxNatives /\ natives' = natives + 1
    /\ \/ \E f \in NativeFacts :
             Carries(p, Append(trail[p], Fact(f.type, f.by, f.binding, f.says,
                                [producer |-> <<p, epochs[p]>>, serial |-> natives + 1])))
       \/ LeftBehind(p, trail[p])
    /\ UNCHANGED <<shelved, opened, authority, asked, emits>>

\* The flusher publishes the fsynced prefix.
Flush(p) ==
    /\ durable[p] < Len(trail[p])
    /\ durable' = [durable EXCEPT ![p] = Len(trail[p])]
    /\ UNCHANGED <<trail, shelved, abandoned, epochs, opened, authority, asked, checkpointLimits>>

\* A rotation: the segment is closed, fsynced, and a new one begins.
CloseSegment(p) ==
    /\ ended < MaxEnded /\ ended' = ended + 1
    /\ trail[p] # <<>>
    /\ shelved' = shelved \cup ToSet(trail[p])
    /\ trail' = [trail EXCEPT ![p] = <<>>]
    /\ durable' = [durable EXCEPT ![p] = 0]
    /\ UNCHANGED <<abandoned, epochs, opened, authority, asked, natives, emits>>

Idle == [step |-> "idle"]

\* The process dies; its successor knows nothing.
Die(p) ==
    /\ LeftBehind(p, trail[p])
    /\ opened' = [opened EXCEPT ![p] = FALSE]
    /\ asked' = [asked EXCEPT ![p] = Idle]
    /\ \E readable \in BOOLEAN : authority' = [authority EXCEPT ![p] = readable]
    /\ UNCHANGED <<shelved, natives, emits>>

-----------------------------------------------------------------------------
(* Emission *)

Becomes(p, next) == asked' = [asked EXCEPT ![p] = next]
Quiet == UNCHANGED <<segments, opened, authority, checkpointLimits>>

\* The writer names a kind and the references that kind requires.  The segments are listed;
\* kinds that need no evidence of the task are routed to their one principal at once.
Emit(p) ==
    /\ asked[p] = Idle
    /\ \E kind \in {"classify", "request", "approve", "contract"}, b \in BindingRefs,
          says \in Claims :
         /\ kind # "classify" => says = CHOOSE any \in Claims : TRUE   \* not given
         /\ emits' = emits + 1 /\ emits < (IF kind = "contract" THEN MaxRouted ELSE MaxEmits)
         /\ IF kind = "contract"
            THEN IF authority[p]
                 THEN Becomes(p, [step |-> "granted",
                                  event |-> Fact("contract", "morfeo", Nobody, "unsaid", Root)])
                 ELSE UNCHANGED asked
            ELSE Becomes(p, [step |-> "listed", kind |-> kind, binding |-> b, says |-> says,
                             listed |-> shelved])
    /\ UNCHANGED <<segments, opened, authority, natives, ended>>

\* A checkpoint without authority is rejected; the gap it leaves in the journal grants nothing.
Reject(p) == Becomes(p, Idle)
Grant(p, e) == Becomes(p, [step |-> "granted", event |-> e])

\* The own prefix is read, and the evidence judged.
Classify(p) ==
    /\ asked[p].step = "listed" /\ asked[p].kind = "classify"
    /\ \E E \in Readings(p, asked[p].listed) :
         LET parents == BindingParents(E, asked[p].binding) IN
         IF authority[p] /\ parents # {}
         THEN \E parent \in parents :
                Grant(p, Fact("classified", "supervisor", asked[p].binding, asked[p].says, parent))
         ELSE Reject(p)
    /\ Quiet

Review(p) ==
    /\ asked[p].step = "listed" /\ asked[p].kind \in {"request", "approve"}
    /\ \E E \in Readings(p, asked[p].listed) :
         LET granted == ReviewAuthority(E, asked[p].binding) IN
         IF ~authority[p] \/ granted = {} THEN Reject(p)
         ELSE \E g \in granted :
                IF asked[p].kind = "request"
                THEN Grant(p, Fact("requested", g[1], asked[p].binding, "unsaid", g[2]))
                ELSE \* the segments are listed again for the request
                     Becomes(p, [step |-> "again", binding |-> asked[p].binding, who |-> g[1],
                                 class |-> g[2], listed |-> shelved])
    /\ Quiet

Approve(p) ==
    /\ asked[p].step = "again"
    /\ \E E \in Readings(p, asked[p].listed) :
         LET found == ReviewRequests(E, asked[p].who, asked[p].binding, asked[p].class) IN
         IF found = {} THEN Reject(p)
         ELSE \E request \in found :
                Grant(p, Fact("approved", asked[p].who, asked[p].binding, "unsaid", request))
    /\ Quiet

\* The trace counts as opened when a durable opening was read; else it is opened first.  Each
\* of the two appends may be refused, and the second is not tried after a refused first.
MustOpen(p, E) == ~opened[p] /\ Opening \notin E

Record(p) ==
    /\ asked[p].step = "granted"
    /\ \E E \in Readings(p, shelved) :
         LET before == IF MustOpen(p, E) THEN Append(trail[p], Opening) ELSE trail[p] IN
         \/ MustOpen(p, E) /\ UNCHANGED opened /\ Refused(p, trail[p])
         \/ /\ opened' = [opened EXCEPT ![p] = TRUE]
            /\ Refused(p, before) \/ Carries(p, Append(before, asked[p].event))
    /\ Reject(p)
    /\ UNCHANGED <<shelved, authority, natives, emits>>

-----------------------------------------------------------------------------
CheckpointInit ==
    /\ trail = [p \in Sinks |-> <<>>] /\ durable = [p \in Sinks |-> 0]
    /\ shelved = {} /\ abandoned = {} /\ epochs = [p \in Sinks |-> 0]
    /\ opened = [p \in Sinks |-> FALSE]
    /\ authority \in [Sinks -> BOOLEAN]
    /\ asked = [p \in Sinks |-> Idle]
    /\ natives = 0 /\ emits = 0 /\ ended = 0

CheckpointNext ==
    \E p \in Sinks :
        \/ Native(p) \/ Flush(p) \/ CloseSegment(p) \/ Die(p)
        \/ Emit(p) \/ Classify(p) \/ Review(p) \/ Approve(p) \/ Record(p)

CheckpointSpec == CheckpointInit /\ [][CheckpointNext]_checkpointVars

-----------------------------------------------------------------------------
Safe == shelved \cup abandoned \cup UNION {Own(p) : p \in Sinks}
Written == shelved \cup abandoned \cup UNION {ToSet(trail[p]) : p \in Sinks}
Judged == {e \in Written : e.type \in {"classified", "requested", "approved"}}

\* What a checkpoint rests on outlives every crash and every segment given up: the event it
\* follows was durable before it was written (_durable_trace_events).
EvidenceOutlives == \A e \in Judged : e.parent \in Safe

\* An approval is the assigned reviewer's: it follows a request of the same principal, that a
\* classification as a review of the same binding, and that a native binding of the task to
\* the approving principal, who is not the implementer (_durable_review_principal).
ApprovalIsAssigned ==
    \A e \in {x \in Written : x.type = "approved"} :
        LET request == e.parent
            class == request.parent
            native == class.parent IN
        /\ request.type = "requested" /\ class.type = "classified" /\ native.type = "bound"
        /\ {request.by, native.by} = {e.by} /\ MayReview(e.by)
        /\ {request.binding, class.binding, native.binding} = {e.binding}
        /\ class.says \in Required

\* The two together, over the life of the log.
CheckpointsRest == EvidenceOutlives /\ ApprovalIsAssigned
=============================================================================
