------------------------------ MODULE Release -------------------------------
(***************************************************************************)
(* How a release comes into being and is selected (lifecycle.py): a build  *)
(* is staged in its own directory below releases/, verified, recorded,     *)
(* proven again before it is selected and once more afterwards.            *)
(*                                                                         *)
(* A release directory is the function from its parts to the build they    *)
(* come from.  A part may be wrong from the start, when a tool that        *)
(* produces it fails quietly, and may be damaged at any later time.        *)
(* install, update and local candidates hold the mutation lock from start  *)
(* to end, so one command runs at a time; a crash ends it between two      *)
(* steps.  What else moves with the selection is module Lifecycle's.       *)
(***************************************************************************)
EXTENDS Naturals, FiniteSets

CONSTANTS Wheels,          \* Aether wheels; a release is named by its wheel alone
          Hermeses,        \* Hermes commits
          Lacking,         \* no part, no release
          Spoiled,         \* a part that is not what any build makes
          MaxReleaseCalls, MaxDamage, MaxStops

Builds == [wheel : Wheels, hermes : Hermeses]   \* what a release lock binds together
\* The parts of a release are what is compared of it before it is selected.  Of the environments,
\* the manager's and the runtime's, that is Aether's own files and the versions installed of Hermes
\* and of the observer's dependencies; Hermes runs from the source.  The rest of the environments,
\* other packages and the interpreters, no command reads again, and it is not in the model.
Parts == {"wheel", "lock", "source", "manager", "runtime", "markers", "profile", "tui",
          "manifest", "record"}

ASSUME ReleaseBoundsAssumption ==
    /\ {Lacking, Spoiled} \cap (Builds \cup Wheels) = {} /\ Lacking # Spoiled
    /\ {MaxReleaseCalls, MaxDamage, MaxStops} \subseteq Nat

VARIABLES
    kept,        \* kept[w][part]: the build that part of release w comes from
    directories, \* the directories below releases/
    staging,     \* a local candidate's private staging directory is there
    active,      \* the release active.json names
    unproven,    \* a transition was left pending
    at,          \* the step of the command that holds the mutation lock
    verb, build, prior,
    \* the parts damaged since the release was last selected, and ever
    since, ever,
    releaseCalls, damage, stops

parts == <<kept, directories, staging>>
call == <<verb, build, prior>>
history == <<since, ever>>
releaseLimits == <<releaseCalls, damage, stops>>
releaseVars == <<parts, active, unproven, at, call, history, releaseLimits>>

NoParts == [part \in Parts |-> Lacking]
Leave == at' = "idle" /\ staging' = FALSE   \* the finally of update_local included

-----------------------------------------------------------------------------
(* What can be proven of a release *)

WheelIs(w, b) == kept[w]["wheel"] = b
SourceIs(w, b) == kept[w]["source"] = b
OfWheel(v, wheel) == v \in Builds /\ v.wheel = wheel
\* Both environments hold Aether's files of one wheel, and dependencies of the versions it locks; of
\* Hermes the runtime tells a version, and two commits may have one.
EnvironmentsAre(w, b) ==
    \A environment \in {"manager", "runtime"} : OfWheel(kept[w][environment], b.wheel)
MarkersAre(w, b) == kept[w]["markers"] = b
ProfileIs(w, b) == kept[w]["profile"] = b

\* The record, the manifest and the release's own lock name one build.
Identified(w) ==
    /\ kept[w]["record"] \in Builds
    /\ kept[w]["manifest"] = kept[w]["record"] /\ kept[w]["lock"] = kept[w]["record"]

\* validate_release
Certified(w) ==
    /\ Identified(w)
    /\ LET b == kept[w]["record"] IN
       /\ SourceIs(w, b) /\ WheelIs(w, b) /\ ProfileIs(w, b) /\ kept[w]["tui"] = b
       /\ MarkersAre(w, b) /\ EnvironmentsAre(w, b)

\* Only the manager of the active release, its files intact, may replace it.
ManagerIsActive ==
    active # Lacking => \A part \in {"record", "manifest", "wheel", "markers", "manager"} :
                            OfWheel(kept[active][part], active)

-----------------------------------------------------------------------------
(* Preparation *)

Ask(name, b) ==
    /\ at = "idle" /\ releaseCalls < MaxReleaseCalls /\ releaseCalls' = releaseCalls + 1
    /\ name # "prepare" => ~unproven /\ ManagerIsActive     \* what is pending is recovered first
    /\ name \in {"update", "rollback"} => active # Lacking
    /\ verb' = name /\ build' = b /\ prior' = active
    /\ at' = CASE name = "local" -> "candidate"
               [] name \in {"activate", "rollback"} -> "validate"
               [] OTHER -> "inputs"
    /\ UNCHANGED <<parts, active, unproven, history, damage, stops>>

\* Two clean checkouts at the named commits make one wheel and one lock in a private directory.
BuildCandidate ==
    /\ at = "candidate"
    /\ at' = "inputs" /\ staging' = TRUE
    /\ UNCHANGED <<kept, directories, active, unproven, call, history, releaseLimits>>

\* The wheel, the lock or the checkout is not what the others say.
RefuseInputs ==
    /\ at \in {"candidate", "inputs"} /\ Leave
    /\ UNCHANGED <<kept, directories, active, unproven, call, history, releaseLimits>>

MayStage_Again(w) ==   \* a directory that is there is used again
    TRUE
\* The directory is created exclusively.
MayStage(w) == w \notin directories

Stage ==
    /\ at = "inputs"
    /\ IF MayStage(build.wheel)
       THEN directories' = directories \cup {build.wheel} /\ at' = "wheel" /\ UNCHANGED staging
       ELSE Leave /\ UNCHANGED directories
    /\ UNCHANGED <<kept, active, unproven, call, history, releaseLimits>>

\* One step puts a part in place; what it got is compared at once or by a later step.
Install(part, v) == kept' = [kept EXCEPT ![build.wheel][part] = v]
Go(step) == at' = step /\ UNCHANGED staging
Keep == UNCHANGED <<directories, active, unproven, call, history, releaseLimits>>

CopyWheel ==
    /\ at = "wheel"
    /\ \/ Install("wheel", build) /\ Go("lock")
       \/ Install("wheel", Spoiled) /\ Leave       \* the copy's digest is not the lock's
    /\ Keep
WriteLock == at = "lock" /\ Install("lock", build) /\ Go("source") /\ Keep
Materialize ==
    /\ at = "source"
    /\ \/ Install("source", build) /\ Go("manager")
       \/ Install("source", Spoiled) /\ Leave      \* the tree's digest is not the lock's
    /\ Keep
InstallManager ==
    /\ at = "manager" /\ \E v \in {build, Spoiled} : Install("manager", v)
    /\ Go("packages") /\ Keep
\* The runtime's packages, and Hermes in place from the source.
InstallHermes == at = "packages" /\ Go("runtime") /\ UNCHANGED kept /\ Keep
InstallRuntime ==
    /\ at = "runtime" /\ \E v \in {build, Spoiled} : Install("runtime", v)
    /\ Go("compare") /\ Keep

\* The probes of both environments, and their identity against the staged wheel's.
InstalledIs(w, b) == EnvironmentsAre(w, b)

CompareInstalled ==
    /\ at = "compare"
    /\ IF InstalledIs(build.wheel, build) THEN Go("markers") ELSE Leave
    /\ UNCHANGED kept /\ Keep
WriteMarkers == at = "markers" /\ Install("markers", build) /\ Go("profile") /\ Keep
PrepareProfile ==
    /\ at = "profile"
    /\ \/ Install("profile", build) /\ Go("tui")
       \/ Install("profile", Spoiled) /\ Leave     \* the wheel's or the target's digest differs
    /\ Keep
\* (A checkout without a ui-tui has no such part; the builds here have one.)
BuildTui == at = "tui" /\ Install("tui", build) /\ Go("manifest") /\ Keep
WriteManifest ==
    /\ at = "manifest" /\ Install("manifest", build)
    /\ IF verb = "prepare" THEN Leave ELSE Go("register")
    /\ Keep

\* A tool fails, and its exception ends the command; the directory stays.
ToolFails ==
    /\ at \in {"source", "manager", "packages", "runtime", "compare", "profile", "tui"} /\ Leave
    /\ UNCHANGED kept /\ Keep

\* The wheel and the markers are read again before the record is written.
Record ==
    /\ at = "register"
    /\ IF WheelIs(build.wheel, build) /\ MarkersAre(build.wheel, build)
       THEN Install("record", build) /\ Go("validate")
       ELSE Leave /\ UNCHANGED kept
    /\ Keep

-----------------------------------------------------------------------------
(* Selection *)

\* The target is proven before anything moves, and so is the release an update replaces.
Validate ==
    /\ at = "validate"
    /\ IF /\ Certified(build.wheel)
          /\ prior = Lacking \/ verb = "rollback" \/ Certified(prior)
       THEN Go("switch") ELSE Leave
    /\ UNCHANGED kept /\ Keep

Switch ==
    /\ at = "switch" /\ active' = build.wheel /\ Go("prove")
    /\ since' = [since EXCEPT ![build.wheel] = {}]
    /\ UNCHANGED <<kept, directories, unproven, call, ever, releaseLimits>>

\* A step before the switch fails; nothing was selected.
SwitchFails ==
    /\ at = "switch" /\ Leave /\ UNCHANGED kept /\ Keep

StillCertified(w) == Certified(w)

Prove ==
    /\ at = "prove"
    /\ \/ StillCertified(build.wheel) /\ Leave
       \/ Go("compensate")       \* it is not, or a later step of the transition fails
    /\ UNCHANGED kept /\ Keep

\* The prior release is selected again and proven; else the transition stays pending.
SelectPrior ==
    /\ at = "compensate" /\ active' = prior /\ Leave
    /\ unproven' = (prior # Lacking /\ ~Certified(prior))
    /\ UNCHANGED <<kept, directories, call, history, releaseLimits>>

CommandDies ==
    /\ at # "idle" /\ stops < MaxStops /\ stops' = stops + 1
    /\ at' = "idle" /\ unproven' = (unproven \/ at \in {"switch", "prove", "compensate"})
    /\ UNCHANGED <<parts, active, call, history, releaseCalls, damage>>

\* A file is lost or changed by something else.
Damage(w, part) ==
    /\ damage < MaxDamage /\ damage' = damage + 1
    /\ kept[w][part] \in Builds /\ kept' = [kept EXCEPT ![w][part] = Spoiled]
    /\ since' = [since EXCEPT ![w] = @ \cup {part}] /\ ever' = ever \cup {<<w, part>>}
    /\ UNCHANGED <<directories, staging, active, unproven, at, call, releaseCalls, stops>>

ReleaseInit ==
    /\ kept = [w \in Wheels |-> NoParts] /\ directories = {} /\ staging = FALSE
    /\ active = Lacking /\ unproven = FALSE
    /\ at = "idle" /\ verb = "prepare" /\ prior = Lacking
    /\ build = Lacking
    /\ since = [w \in Wheels |-> {}] /\ ever = {}
    /\ releaseCalls = 0 /\ damage = 0 /\ stops = 0

ReleaseNext ==
    \/ \E name \in {"prepare", "install", "update", "local", "activate", "rollback"},
          b \in Builds :
          Ask(name, b)
    \/ BuildCandidate \/ RefuseInputs \/ Stage
    \/ CopyWheel \/ WriteLock \/ Materialize \/ InstallManager \/ InstallHermes \/ InstallRuntime
    \/ CompareInstalled
    \/ WriteMarkers \/ PrepareProfile \/ BuildTui \/ WriteManifest \/ ToolFails \/ Record
    \/ Validate \/ Switch \/ SwitchFails \/ Prove \/ SelectPrior \/ CommandDies
    \/ \E w \in Wheels, part \in Parts : Damage(w, part)

ReleaseSpec == ReleaseInit /\ [][ReleaseNext]_releaseVars

-----------------------------------------------------------------------------
(* A recorded release is one build in all that is compared: every such part was made from the
   wheel and the Hermes commit its record names, whatever failed, crashed or was retried before,
   unless something else damaged that part later (_prepare_release_locked, _register_locked).
   The comparison itself could not tell two Hermes commits of one version apart in a runtime. *)
OneBuild ==
    \A w \in Wheels : kept[w]["record"] \in Builds =>
        \A part \in Parts : kept[w][part] = kept[w]["record"] \/ <<w, part>> \in ever

(* Outside of a transition, what is compared of the selected release was right when its transition
   ended: a compared part that is not the recorded build's was damaged after the switch, also when
   the damage came between the validation and the switch (_activate_existing_locked).  Of packages
   that came out wrong or were damaged before the switch, nothing is claimed. *)
SettledIsWhole ==
    active # Lacking /\ ~unproven /\ at \notin {"prove", "compensate"} =>
        \A part \in Parts : kept[active][part] \in Builds \/ part \in since[active]

(* In all that validate_release compares, a release is of one build and was proven when it was
   selected (lifecycle.py). *)
ReleaseIsWhole == OneBuild /\ SettledIsWhole
=============================================================================
