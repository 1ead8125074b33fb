----------------------------- MODULE Lifecycle -----------------------------
(***************************************************************************)
(* Release transitions of an installation (lifecycle.py): the active       *)
(* pointer, the transition journal, the three managed profile homes, the   *)
(* observation projections, and the runtime selector with the files and    *)
(* the service that follow it.                                             *)
(*                                                                         *)
(* Every command holds the mutation lock from its first step to its last,  *)
(* so one command runs at a time; a crash may stop it between any two      *)
(* writes.  Each write is atomic and durable (_atomic_bytes).  The bytes   *)
(* of a managed file are known by the release they come from.              *)
(***************************************************************************)
EXTENDS Naturals, Sequences, SequencesExt

CONSTANTS Releases,        \* releases that may be registered
          None,            \* no release, no pointer, no file
          RoleOrder,       \* _PROFILE_ROLES
          SkillOrder,      \* canonical skills, sorted by name
          Ships,           \* Ships[r][role]: the skills release r gives a role
          Schema,          \* Schema[r]: ordinal of r's projection schema
          Projects,        \* observed projects that may exist
          MaxCommands,     \* commands started, recover not counted
          MaxInterrupts    \* crashes and failing steps

Roles == Range(RoleOrder)
Skills == Range(SkillOrder)

ASSUME ReleaseAssumption ==
    /\ None \notin Releases
    /\ Ships \in [Releases -> [Roles -> SUBSET Skills]]
    /\ Schema \in [Releases -> Nat \ {0}]
ASSUME OrderAssumption ==
    /\ RoleOrder \in Seq(Roles) /\ SkillOrder \in Seq(Skills)
    /\ {"soul", "marker"} \cap Skills = {}
ASSUME LimitAssumption == MaxCommands \in Nat /\ MaxInterrupts \in Nat

MaybeRelease == Releases \cup {None}
File == {"soul", "marker"} \cup Skills   \* SOUL.md, aether-observer.json, SKILL.md
Home == [Roles -> [File -> MaybeRelease]]
Pointer == [release : MaybeRelease, previous : MaybeRelease]
Transition == [from : MaybeRelease, fromPrevious : MaybeRelease, to : Releases]

VARIABLES
    \* on disk: active.json, the registered releases with the predecessor each
    \* record names, the pending transitions, the profile homes, the projection
    \* pointer of each observed project, and what the launcher files and
    \* runtime/current name
    pointer, registered, recorded, pending, homes, projection, launcher, selector,
    \* the release whose code the gateway service runs
    service,
    \* the command that holds the mutation lock
    pc, kind, part, target, expected, recoveryRecord, transition, before,
    todo, expectations, priorRuntime,
    \* bounds
    commands, interrupts

disk == <<pointer, registered, recorded, pending, homes, projection>>
runtime == <<launcher, selector, service>>
command == <<kind, part, target, expected, recoveryRecord, transition, before>>
progress == <<todo, expectations, priorRuntime>>
limits == <<commands, interrupts>>
vars == <<disk, runtime, pc, command, progress, limits>>

Active == pointer.release
NoPointer == [release |-> None, previous |-> None]

\* The release whose homes, projections and runtime the running step writes.
Subject == CASE part = "transition" -> target
             [] part = "compensation" -> before.pointer.release
             [] OTHER -> Active

-----------------------------------------------------------------------------
(* Profile homes *)

HomeOf(r, role) ==
    [f \in File |-> IF f \in {"soul", "marker"} \cup Ships[r][role] THEN r ELSE None]
HomesOf(r) == [role \in Roles |-> HomeOf(r, role)]

PreflightAccepts_NoProof(r, previous, recovering) ==  \* the pending target is no owner
    \A role \in Roles :
        LET home == homes[role] IN
        IF home["marker"] = None
        THEN previous = None \/ \A s \in Ships[r][role] : home[s] = None
        ELSE /\ home["marker"] = previous
             /\ \A s \in Ships[home["marker"]][role] : home[s] \in {None, home["marker"]}

\* _preflight_profile_homes: the marker of every existing home names the active release
\* or the target of the transition being recovered, and the skills it owns are its own.
PreflightAccepts(r, previous, recovering) ==
    \A role \in Roles :
        LET home == homes[role] IN
        IF home["marker"] = None
        THEN previous = None \/ \A s \in Ships[r][role] : home[s] = None
        ELSE /\ home["marker"] \in {previous, recovering}
             /\ \A s \in Ships[home["marker"]][role] : home[s] \in {None, home["marker"]}

\* _deactivate_profile_homes before its first removal.
DeactivationAccepts(owner) ==
    \A role \in Roles :
        LET home == homes[role]
            marker == home["marker"]
        IN  marker # None =>
                /\ marker \in registered
                /\ owner # None => marker = owner
                /\ \A f \in {"soul"} \cup Ships[marker][role] : home[f] \in {None, marker}

Put(role, f, r) == [role |-> role, file |-> f, release |-> r]
PutAll(role, files, r) == [i \in DOMAIN files |-> Put(role, files[i], r)]

\* The members of a set in a given order. (SelectSeq, written out: the prover does not know it.)
InOrder(order, set) ==
    LET chosen[n \in 0..Len(order)] ==
            IF n = 0 THEN <<>>
            ELSE IF order[n] \in set THEN Append(chosen[n - 1], order[n]) ELSE chosen[n - 1]
    IN  chosen[Len(order)]

\* The writes of _materialize_profile_homes for one role: SOUL.md, the shipped skills,
\* the removal of skills only a prior owner shipped, the activation marker last.
RoleWrites(role, r, owners) ==
    LET retired == UNION {Ships[o][role] : o \in owners} \ Ships[r][role]
    IN  <<Put(role, "soul", r)>>
        \o PutAll(role, InOrder(SkillOrder, Ships[r][role]), r)
        \o PutAll(role, InOrder(SkillOrder, retired), None)
        \o <<Put(role, "marker", r)>>
MaterializeWrites(r, owners) ==
    FlattenSeq([i \in DOMAIN RoleOrder |-> RoleWrites(RoleOrder[i], r, owners)])

\* The removals of _deactivate_profile_homes: every role's files, then every marker.
DeactivationWrites ==
    LET marked == InOrder(RoleOrder, {role \in Roles : homes[role]["marker"] # None})
        Owned(role) == {"soul"} \cup Ships[homes[role]["marker"]][role]
        Removals(role) ==
            PutAll(role, InOrder(<<"soul">> \o SkillOrder, {f \in Owned(role) : homes[role][f] # None}),
                   None)
    IN  FlattenSeq([i \in DOMAIN marked |-> Removals(marked[i])])
        \o [i \in DOMAIN marked |-> Put(marked[i], "marker", None)]

RestoreWrites_NoSkills(snapshot) ==   \* the skills stay as the transition left them
    FlattenSeq([i \in DOMAIN RoleOrder |->
        [j \in 1..2 |-> LET f == <<"soul", "marker">>[j]
                        IN  Put(RoleOrder[i], f, snapshot[RoleOrder[i]][f])]])

\* _restore_profile_product_state: in each role SOUL.md, the marker, then the skills.
RestoreWrites(snapshot) ==
    LET order == <<"soul", "marker">> \o SkillOrder
    IN  FlattenSeq([i \in DOMAIN RoleOrder |->
            [j \in DOMAIN order |->
                Put(RoleOrder[i], order[j], snapshot[RoleOrder[i]][order[j]])]])

-----------------------------------------------------------------------------
(* Commands *)

\* The command ends, refused or done, and the mutation lock is free.
Release ==
    /\ pc' = "idle" /\ kind' = "none" /\ part' = "none"
    /\ target' = None /\ expected' = None /\ recoveryRecord' = None
    /\ transition' = None /\ before' = None
    /\ todo' = <<>> /\ expectations' = None /\ priorRuntime' = None

\* A command takes the mutation lock.  Only its own release's manager may run it, which
\* the launcher sees to; without an active release only recover and install go on.
Start(k, r, e) ==
    /\ pc = "idle"
    /\ k = "recover" \/ commands < MaxCommands
    /\ Active = None => k \in {"recover", "install"}
    /\ kind' = k /\ target' = r /\ expected' = e
    /\ commands' = IF k = "recover" THEN commands ELSE commands + 1
    /\ IF k = "uninstall"
       THEN /\ part' = "uninstall"
            /\ pc' = IF DeactivationAccepts(Active) THEN "deactivate" ELSE "refused"
            /\ todo' = IF DeactivationAccepts(Active) THEN DeactivationWrites ELSE <<>>
       ELSE part' = "recovery" /\ pc' = "store_recover" /\ todo' = <<>>
    /\ UNCHANGED <<disk, runtime, recoveryRecord, transition, before, expectations,
                   priorRuntime, interrupts>>

StartCommand ==
    \/ Start("recover", None, None)
    \/ Active # None /\ Start("uninstall", None, None)
    \/ \E r \in Releases, e \in MaybeRelease :
          Start("install", r, e) \/ Start("update", r, e) \/ Start("rollback", r, e)
    \/ \E e \in MaybeRelease : Start("rollback", None, e)   \* no version named

Refused == pc = "refused" /\ Release /\ UNCHANGED <<disk, runtime, limits>>

-----------------------------------------------------------------------------
(* Recovery: ReleaseStore._recover_locked, then LifecycleManager._recover_locked *)

AfterStore == IF kind = "rollback" THEN "authorize" ELSE "profiles"

\* Recovery reads the record of the source, unless there was none.
SourceKnown(t) == t.from \in registered \cup {None}

StoreRecover ==
    /\ pc = "store_recover"
    /\ \/ pending = {} /\ pc' = AfterStore /\ UNCHANGED <<pointer, recoveryRecord>>
       \/ /\ \E t \in pending : ~SourceKnown(t)
          /\ pc' = "refused" /\ UNCHANGED <<pointer, recoveryRecord>>
       \/ \E t \in pending :
            /\ SourceKnown(t)
            /\ pointer' = [release |-> t.from, previous |-> t.fromPrevious]
            /\ recoveryRecord' = IF kind # "rollback" /\ t.from \notin {None, t.to}
                                 THEN t.to ELSE None
            /\ pc' = "finish_recovered"
    /\ UNCHANGED <<registered, recorded, pending, homes, projection, runtime, kind, part,
                   target, expected, transition, before, progress, limits>>

FinishRecovered_StillPending ==
    /\ pc = "finish_recovered"
    /\ pc' = AfterStore
    /\ UNCHANGED <<disk, runtime, command, progress, limits>>
FinishRecovered ==
    /\ pc = "finish_recovered"
    /\ \E t \in pending : t.from = Active /\ pending' = pending \ {t}
    /\ pc' = AfterStore
    /\ UNCHANGED <<pointer, registered, recorded, homes, projection, runtime, command,
                   progress, limits>>

RecoverProfiles ==
    /\ pc = "profiles"
    /\ \/ /\ Active # None
          /\ IF PreflightAccepts(Active, Active, recoveryRecord)
             THEN /\ pc' = "materialize"
                  /\ todo' = MaterializeWrites(Active, {Active, recoveryRecord} \ {None})
             ELSE pc' = "refused" /\ UNCHANGED todo
       \/ /\ Active = None
          /\ IF DeactivationAccepts(None)
             THEN pc' = "deactivate" /\ todo' = DeactivationWrites
             ELSE pc' = "refused" /\ UNCHANGED todo
    /\ UNCHANGED <<disk, runtime, command, expectations, priorRuntime, limits>>

\* One atomic write of a managed file.  A retired skill is removed only when its bytes
\* are those of the active release or of the release being recovered.
Proven(w) == \/ pc # "materialize" \/ w.release # None
             \/ homes[w.role][w.file] \in {None, Active, recoveryRecord}

WriteHome ==
    /\ pc \in {"materialize", "deactivate", "restore"} /\ todo # <<>>
    /\ LET w == Head(todo) IN
       /\ Proven(w)
       /\ homes' = [homes EXCEPT ![w.role][w.file] = w.release]
    /\ todo' = Tail(todo)
    /\ UNCHANGED <<pointer, registered, recorded, pending, projection, runtime, pc, command,
                   expectations, priorRuntime, limits>>

\* _validate_profile_homes, after the last write of _materialize_profile_homes.
Materialized ==
    /\ pc = "materialize" /\ todo = <<>>
    /\ homes = HomesOf(Subject)
    /\ pc' = IF part = "transition" THEN "commit" ELSE "prepare"
    /\ UNCHANGED <<disk, runtime, command, progress, limits>>

Unproven == \/ todo # <<>> /\ ~Proven(Head(todo))
            \/ todo = <<>> /\ homes # HomesOf(Subject)

RecoveryUnproven ==
    /\ pc = "materialize" /\ part = "recovery" /\ Unproven
    /\ Release /\ UNCHANGED <<disk, runtime, limits>>

Deactivated ==
    /\ pc = "deactivate" /\ todo = <<>>
    /\ \/ kind = "recover" /\ Release
       \/ /\ kind \in {"install", "update"}
          /\ pc' = "register"
          /\ UNCHANGED <<command, progress>>
       \/ /\ kind = "uninstall"
          /\ pc' = "unselect"
          /\ expectations' = [p \in DOMAIN projection |-> None]
          /\ UNCHANGED <<command, todo, priorRuntime>>
    /\ UNCHANGED <<disk, runtime, limits>>

-----------------------------------------------------------------------------
(* Observation projections: prepare, select and unselect in the subprocess of the *)
(* release that owns them (projection_transition.py)                              *)

AfterSelect ==
    CASE part = "recovery" -> IF kind = "recover" THEN "project" ELSE
                              IF kind = "rollback" THEN "authorize" ELSE "register"
      [] OTHER -> "project"

\* Captures the pointer each known project must still have when it is selected.
Prepare ==
    /\ pc = "prepare"
    /\ expectations' = projection
    /\ IF part = "transition"
       THEN /\ pc' = "materialize"
            /\ todo' = MaterializeWrites(target, {Active} \ {None})
       ELSE pc' = "select" /\ UNCHANGED todo
    /\ UNCHANGED <<disk, runtime, command, priorRuntime, limits>>

\* The set of projects is compared before the first publication and after the last.
SameProjects == DOMAIN expectations = DOMAIN projection

BeginSelect ==
    /\ pc = "select" /\ SameProjects
    /\ pc' = "selecting"
    /\ UNCHANGED <<disk, runtime, command, progress, limits>>

\* publish_projection_pointer, a compare-and-swap under the project's pointer lock.
SelectOne ==
    /\ pc = "selecting"
    /\ \E p \in DOMAIN expectations :
        /\ projection[p] # Schema[Subject] /\ projection[p] = expectations[p]
        /\ projection' = [projection EXCEPT ![p] = Schema[Subject]]
    /\ UNCHANGED <<pointer, registered, recorded, pending, homes, runtime, pc, command,
                   progress, limits>>

Selected == \A p \in DOMAIN expectations : projection[p] = Schema[Subject]

EndSelect ==
    /\ pc = "selecting" /\ Selected /\ SameProjects
    /\ pc' = AfterSelect
    /\ UNCHANGED <<disk, runtime, command, progress, limits>>

\* _restore_projection_pointer for each project, also a compare-and-swap.
Restorable(p) ==
    LET own == IF part = "uninstall" THEN Active ELSE target
    IN  projection[p] \in {expectations[p], Schema[own]}

UnselectOne ==
    /\ pc = "unselect" /\ SameProjects
    /\ \E p \in DOMAIN expectations :
        /\ projection[p] # expectations[p] /\ Restorable(p)
        /\ projection' = [projection EXCEPT ![p] = expectations[p]]
    /\ UNCHANGED <<pointer, registered, recorded, pending, homes, runtime, pc, command,
                   progress, limits>>

EndUnselect ==
    /\ pc = "unselect" /\ SameProjects /\ projection = expectations
    /\ pc' = IF part = "uninstall" THEN "unproject" ELSE "fail"
    /\ UNCHANGED <<disk, runtime, command, progress, limits>>

ProjectionsMoved ==
    \/ pc \in {"select", "selecting", "unselect"} /\ ~SameProjects
    \/ pc = "unselect" /\ \E p \in DOMAIN expectations : ~Restorable(p)

\* Outside of the transition proper a refused projection ends the command, and leaves
\* a pending transition pending.
ProjectionsRefused ==
    /\ ProjectionsMoved /\ part # "transition"
    /\ Release /\ UNCHANGED <<disk, runtime, limits>>

\* A session observes a project for the first time.
NewProject(p) ==
    /\ p \notin DOMAIN projection
    /\ projection' = [q \in DOMAIN projection \cup {p} |->
                        IF q = p THEN None ELSE projection[q]]
    /\ UNCHANGED <<pointer, registered, recorded, pending, homes, runtime, pc, command,
                   progress, limits>>

-----------------------------------------------------------------------------
(* project_release: launcher files, then runtime/current, then the service *)

\* projection_status of the active release reports no mismatch.
InPlace == launcher = Active /\ selector = Active

Project_LauncherOnly ==   \* recovery compares the launcher and not the selector
    /\ pc = "project"
    /\ IF part = "recovery" /\ launcher = Active
       THEN Release /\ UNCHANGED launcher
       ELSE /\ priorRuntime' = [launcher |-> launcher, selector |-> selector]
            /\ launcher' = Subject
            /\ pc' = "switch"
            /\ UNCHANGED <<command, todo, expectations>>
    /\ UNCHANGED <<disk, selector, service, limits>>

Project ==
    /\ pc = "project"
    /\ IF part = "recovery" /\ InPlace
       THEN /\ Release /\ UNCHANGED launcher
       ELSE /\ priorRuntime' = [launcher |-> launcher, selector |-> selector]
            /\ launcher' = Subject
            /\ pc' = "switch"
            /\ UNCHANGED <<command, todo, expectations>>
    /\ UNCHANGED <<disk, selector, service, limits>>

SwitchRuntimeCurrent ==
    /\ pc = "switch"
    /\ selector' = Subject
    /\ pc' = IF part = "transition" THEN "restart" ELSE "validate"
    /\ UNCHANGED <<disk, launcher, service, command, progress, limits>>

\* The unit is restarted through the controller.  A restart that is refused or fails is only
\* recorded, and leaves the gateway with the code it ran, or stopped.
RestartService ==
    /\ pc = "restart"
    /\ service' \in {target, service, None}
    /\ pc' = "validate"
    /\ UNCHANGED <<disk, launcher, selector, command, progress, limits>>

\* _validate_target_projections_subprocess reports no mismatch.
Validated ==
    /\ pc = "validate"
    /\ \/ part = "recovery" /\ Release
       \/ part = "transition" /\ pc' = "finish" /\ UNCHANGED <<command, progress>>
       \/ part = "compensation" /\ pc' = "fail" /\ UNCHANGED <<command, progress>>
    /\ UNCHANGED <<disk, runtime, limits>>

-----------------------------------------------------------------------------
(* The transition: _register_locked and _activate_existing_locked *)

\* A release built from a wheel gets its record; a known one keeps the record it has.
Register ==
    /\ pc = "register" /\ Active = expected
    /\ registered' = registered \cup {target}
    /\ recorded' = IF target \in registered THEN recorded
                   ELSE [recorded EXCEPT ![target] = Active]
    /\ pc' = "authorize"
    /\ UNCHANGED <<pointer, pending, homes, projection, runtime, command, progress, limits>>

Chosen == IF kind = "rollback" /\ target = None THEN pointer.previous ELSE target

Authorized ==
    /\ Active = expected
    /\ Chosen \in registered
    /\ kind # "rollback" /\ Active # None => Schema[Chosen] >= Schema[Active]
    /\ PreflightAccepts(Chosen, Active, None)

\* The transition is journalled before anything else moves.
Begin ==
    /\ pc = "authorize" /\ Authorized
    /\ LET t == [from |-> Active, fromPrevious |-> pointer.previous, to |-> Chosen] IN
       transition' = t /\ pending' = pending \cup {t}
    /\ target' = Chosen /\ part' = "transition"
    /\ recoveryRecord' = None
    /\ before' = [pointer |-> pointer, homes |-> homes, service |-> service]
    /\ expectations' = None
    /\ pc' = "prepare"
    /\ UNCHANGED <<pointer, registered, recorded, homes, projection, runtime, kind,
                   expected, todo, priorRuntime, limits>>

Unauthorized ==
    /\ \/ pc = "register" /\ Active # expected
       \/ pc = "authorize" /\ ~Authorized
    /\ Release /\ UNCHANGED <<disk, runtime, limits>>

Predecessor == IF Active = target THEN recorded[target] ELSE Active

CommitActive_OwnPredecessor ==   \* keeps the predecessor the target's record names
    /\ pc = "commit" /\ Active = expected
    /\ pointer' = [release |-> target, previous |-> recorded[target]]
    /\ pc' = "select"
    /\ UNCHANGED <<registered, recorded, pending, homes, projection, runtime, command,
                   progress, limits>>

\* _commit_active, a compare-and-swap on the release the command expects.
CommitActive ==
    /\ pc = "commit" /\ Active = expected
    /\ pointer' = [release |-> target, previous |-> Predecessor]
    /\ pc' = "select"
    /\ UNCHANGED <<registered, recorded, pending, homes, projection, runtime, command,
                   progress, limits>>

Finish ==
    /\ pc = "finish"
    /\ pending' = pending \ {transition}
    /\ Release
    /\ UNCHANGED <<pointer, registered, recorded, homes, projection, runtime, limits>>

\* Compensation: pointer, homes, projections, runtime.  Nothing restarts the service.
RestorePointer ==
    /\ pc = "compensate"
    /\ pointer' = IF Active = target THEN before.pointer ELSE pointer
    /\ todo' = RestoreWrites(before.homes)
    /\ pc' = "restore"
    /\ UNCHANGED <<registered, recorded, pending, homes, projection, runtime, command,
                   expectations, priorRuntime, limits>>

Restored ==
    /\ pc = "restore" /\ todo = <<>>
    /\ pc' = IF before.pointer # NoPointer THEN "prepare"
             ELSE IF expectations # None THEN "unselect" ELSE "fail"
    /\ UNCHANGED <<disk, runtime, command, progress, limits>>

Fail ==
    /\ pc = "fail"
    /\ pending' = pending \ {transition}
    /\ Release
    /\ UNCHANGED <<pointer, registered, recorded, homes, projection, runtime, limits>>

-----------------------------------------------------------------------------
(* Uninstall, after the homes are deactivated and the projections unselected *)

Unproject ==
    /\ pc = "unproject"
    /\ launcher' = IF launcher = Active THEN None ELSE launcher
    /\ selector' = None
    /\ service' \in {service, None}
    /\ pc' = "unpoint"
    /\ UNCHANGED <<disk, command, progress, limits>>

RemovePointer ==
    /\ pc = "unpoint"
    /\ pointer' = NoPointer
    /\ pc' = "remove"
    /\ UNCHANGED <<registered, recorded, pending, homes, projection, runtime, command,
                   progress, limits>>

RemoveReleases ==
    /\ pc = "remove"
    /\ registered' = {}
    /\ recorded' = [r \in Releases |-> None]
    /\ pc' = "unjournal"
    /\ UNCHANGED <<pointer, pending, homes, projection, runtime, command, progress, limits>>

RemoveTransitions ==
    /\ pc = "unjournal"
    /\ pending' = {}
    /\ Release
    /\ UNCHANGED <<pointer, registered, recorded, homes, projection, runtime, limits>>

-----------------------------------------------------------------------------
(* Failures *)

Compensate ==
    /\ pc' = "compensate" /\ part' = "compensation"
    /\ UNCHANGED <<disk, service, kind, target, expected, recoveryRecord, transition, before,
                   todo, expectations, priorRuntime>>

\* project_release restores what it replaced, each file unless that write fails too.
Unprojected(budget) ==
    \/ /\ interrupts + 1 <= budget /\ interrupts' = interrupts + 1
       /\ launcher' = priorRuntime.launcher /\ selector' = priorRuntime.selector
    \/ /\ interrupts + 2 <= budget /\ interrupts' = interrupts + 2
       /\ \/ launcher' = launcher /\ selector' = priorRuntime.selector
          \/ launcher' = priorRuntime.launcher /\ selector' = selector

ProjectFails ==
    /\ pc \in {"switch", "restart", "validate"}
    /\ Unprojected(MaxInterrupts)
    /\ IF part = "transition" THEN Compensate
       ELSE Release /\ UNCHANGED <<disk, service>>
    /\ UNCHANGED commands

\* A step of the transition raises: an I/O error, a subprocess that fails.
StepFails ==
    /\ part = "transition"
    /\ pc \in {"prepare", "materialize", "commit", "select", "selecting", "project"}
    /\ interrupts < MaxInterrupts /\ interrupts' = interrupts + 1
    /\ Compensate
    /\ UNCHANGED <<launcher, selector, commands>>

\* A step of the transition refuses to go on with homes or projections it cannot prove.
TransitionRefused ==
    /\ part = "transition"
    /\ ProjectionsMoved \/ (pc = "materialize" /\ Unproven)
    /\ Compensate
    /\ UNCHANGED <<launcher, selector, limits>>

\* The process dies, or a step outside of the transition proper raises.
Interrupt ==
    /\ pc # "idle" /\ interrupts < MaxInterrupts
    /\ interrupts' = interrupts + 1
    /\ Release
    /\ UNCHANGED <<disk, runtime, commands>>

-----------------------------------------------------------------------------
Init ==
    /\ pointer = NoPointer /\ registered = {} /\ recorded = [r \in Releases |-> None]
    /\ pending = {} /\ homes = [role \in Roles |-> [f \in File |-> None]]
    /\ projection = [p \in {} |-> None]
    /\ launcher = None /\ selector = None /\ service = None
    /\ pc = "idle" /\ kind = "none" /\ part = "none"
    /\ target = None /\ expected = None /\ recoveryRecord = None
    /\ transition = None /\ before = None
    /\ todo = <<>> /\ expectations = None /\ priorRuntime = None
    /\ commands = 0 /\ interrupts = 0

Recovery == \/ StoreRecover \/ FinishRecovered \/ RecoverProfiles \/ RecoveryUnproven
            \/ Deactivated
Profiles == WriteHome \/ Materialized
Projections == \/ Prepare \/ BeginSelect \/ SelectOne \/ EndSelect
               \/ UnselectOne \/ EndUnselect \/ ProjectionsRefused
Runtime == Project \/ SwitchRuntimeCurrent \/ RestartService \/ Validated
Activation == \/ Register \/ Begin \/ Unauthorized \/ CommitActive \/ Finish
              \/ RestorePointer \/ Restored \/ Fail \/ TransitionRefused
Removal == Unproject \/ RemovePointer \/ RemoveReleases \/ RemoveTransitions

Step == Refused \/ Recovery \/ Profiles \/ Projections \/ Runtime \/ Activation \/ Removal

Next == \/ StartCommand
        \/ Step
        \/ ProjectFails \/ StepFails \/ Interrupt
        \/ \E p \in Projects : NewProject(p)

Spec == Init /\ [][Next]_vars

\* A running command goes on, and an operator whose command failed runs recover.
LiveSpec == Spec /\ WF_vars(Step) /\ WF_vars(Start("recover", None, None))

-----------------------------------------------------------------------------
DiskTypeOK ==
    /\ pointer \in Pointer
    /\ registered \subseteq Releases
    /\ recorded \in [Releases -> MaybeRelease]
    /\ pending \subseteq Transition
    /\ homes \in Home
    /\ \E known \in SUBSET Projects :
          projection \in [known -> {Schema[r] : r \in Releases} \cup {None}]
    /\ {launcher, selector, service} \subseteq MaybeRelease
CommandTypeOK ==
    /\ kind \in {"none", "recover", "install", "update", "rollback", "uninstall"}
    /\ part \in {"none", "recovery", "transition", "compensation", "uninstall"}
    /\ {target, expected, recoveryRecord} \subseteq MaybeRelease
    /\ transition \in Transition \cup {None}
    /\ before \in [pointer : Pointer, homes : Home, service : MaybeRelease] \cup {None}
    /\ todo \in Seq([role : Roles, file : File, release : MaybeRelease])
    /\ priorRuntime \in [launcher : MaybeRelease, selector : MaybeRelease] \cup {None}

\* Every variable keeps to the values the code gives it.
TypeOK == DiskTypeOK /\ CommandTypeOK

\* At most one transition is pending, the one the running command journalled, the active
\* release is registered, and so are, until the releases are removed, both ends of a
\* pending transition: recovery, which takes the last by name, never has to choose.
JournalCoherent ==
    /\ \A s, t \in pending : s = t
    /\ part \in {"transition", "compensation"} => pending = {transition}
    /\ Active \in registered \cup {None}
    /\ registered = {} \/ \A t \in pending : SourceKnown(t) /\ t.to \in registered

Projected(r) == \A p \in DOMAIN expectations : projection[p] = Schema[r]
Serves(r) == launcher = r /\ selector = r

\* What a transition may leave the gateway service with: nothing restarts it but the transition
\* itself, once, and that may fail quietly.
ServiceIsKnown == service \in {before.service, target, None}

\* A transition is reported committed only when pointer, homes, projections, launcher and
\* selector all belong to its target, and the pointer remembers the source.  For the service
\* the report does not vouch: it runs the target, or still what it ran before, or nothing.
CommittedIsWhole ==
    [][Finish => /\ pointer.release = target
                 /\ before.pointer.release # target =>
                        pointer.previous = before.pointer.release
                 /\ homes = HomesOf(target)
                 /\ Projected(target) /\ Serves(target) /\ ServiceIsKnown]_vars

\* A transition reported failed is undone on disk: the pointer with its predecessor and the
\* homes are those of before, and a previous release owns projections and runtime again.
\* The service is not undone: it may go on with the target, which nothing restarts it from.
FailedIsUndone ==
    [][Fail => /\ pointer = before.pointer
               /\ homes = before.homes
               /\ before.pointer # NoPointer =>
                     Projected(before.pointer.release) /\ Serves(before.pointer.release)
               /\ ServiceIsKnown]_vars

\* A recover that ends without an error leaves the active release in charge of its
\* homes, every project it saw and the runtime.
RecoverEnds == /\ kind = "recover"
               /\ \/ pc = "validate" /\ Validated
                  \/ pc = "project" /\ Project /\ pc' = "idle"
RecoveredIsWhole ==
    [][RecoverEnds => homes = HomesOf(Active) /\ Projected(Active) /\ Serves(Active)]_vars

\* Whether a recover started now would get past the ownership checks of the homes.
TakesOver(source, to) ==
    IF source = None THEN DeactivationAccepts(None)
    ELSE PreflightAccepts(source, source, IF to = source THEN None ELSE to)
Recoverable ==
    IF pending = {} THEN TakesOver(Active, Active)
    ELSE \A t \in pending : SourceKnown(t) /\ TakesOver(t.from, t.to)

\* No home is half written.
WholeHomes ==
    \A role \in Roles :
        \/ \A f \in File : homes[role][f] = None
        \/ \E r \in Releases : homes[role] = HomeOf(r, role)

\* The journal of transitions never leaves recovery a choice, and while a transition is
\* pending, a mixture of source and target homes is recoverable: the journal is the proof
\* that the target's bytes are Aether's own.
PendingIsRecoverable ==
    /\ JournalCoherent
    /\ pending # {} /\ registered # {} /\ WholeHomes => Recoverable

\* Once commands stop being interrupted a pending transition is settled, unless its
\* releases are gone.
PendingIsSettled == pending # {} ~> pending = {} \/ registered = {}

\* Claimed by docs/guides/policy-and-recovery.md, refuted: a partial transition is
\* recoverable whenever no command is running.
PartialIsRecoverable == pc = "idle" /\ registered # {} => Recoverable

=============================================================================
