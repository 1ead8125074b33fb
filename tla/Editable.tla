------------------------------ MODULE Editable ------------------------------
(***************************************************************************)
(* Reconciliation of the editable Hermes mappings (hermes_editable.py).    *)
(* One call reinstalls every given interpreter from one source tree, asks  *)
(* each interpreter whether it resolves the modules of that source, and    *)
(* puts every mapping back from a private copy when a step fails.          *)
(*                                                                         *)
(* A mapping is known by the source and by the edition of its tree that    *)
(* it was built from.  A distribution is its metadata and mapping in       *)
(* site-packages, which the copies hold, and its console scripts, which    *)
(* only uv puts in place or removes.  Somebody may edit the tree while a   *)
(* call runs, and put an edit back; uv and the canaries may fail, a        *)
(* restore may fail, and the user may interrupt the call.  Build debris is *)
(* left out: digests ignore it.                                            *)
(***************************************************************************)
EXTENDS Naturals, Sequences

CONSTANTS Interpreters,    \* how many interpreters a call is given
          Homes,           \* sources an interpreter may be mapped to
          Plain,           \* a clean, non-editable installation
          Bare,            \* no Hermes distribution, or a torn one
          Exports,         \* Exports[e]: the top-level modules of edition e of a tree
          MaxReconciles,   \* calls
          MaxEdits,        \* edits of the trees
          MaxHarm          \* restores that fail and interruptions

Position == 1..Interpreters
Editions == DOMAIN Exports
Mapping == [home : Homes, edition : Editions]
Installed == Mapping \cup {Plain, Bare}

ASSUME EditableAssumption ==
    /\ Interpreters \in Nat \ {0} /\ 1 \in Editions
    /\ {Plain, Bare} \cap Mapping = {}
    /\ MaxReconciles \in Nat /\ MaxEdits \in Nat /\ MaxHarm \in Nat

VARIABLES
    installed,    \* installed[i]: the metadata and the mapping of interpreter i
    scripts,      \* scripts[i]: the distribution its console scripts are of
    edition,      \* edition[h]: what the tree of source h holds now
    stage, next,  \* the step of the call and the interpreter it is at
    home, wanted, digest,    \* its source, expected_modules, source_tree_sha256
    copies,       \* the private copies taken so far, in order
    modified,     \* modified_interpreters
    status,       \* the receipt's status, or how the call ended without one
    original, originalScripts,   \* the distributions when the call began
    unquiet,      \* observation: interpreters for whose installation the tree did not keep still
    reconciles, edits, harm

input == <<home, wanted, original, originalScripts, reconciles>>
editableLimits == <<edits, harm>>
editableVars == <<installed, scripts, edition, stage, next, digest, copies, modified, status,
                  unquiet, input, edits, harm>>

Settle(how) == stage' = "idle" /\ status' = how /\ copies' = <<>>
RollBack == stage' = "restore" /\ next' = 1 /\ UNCHANGED <<status, copies>>

\* The next interpreter, or the next step after the last of them.
Advance(step) ==
    IF next < Interpreters THEN next' = next + 1 /\ UNCHANGED stage
                           ELSE next' = 1 /\ stage' = step

-----------------------------------------------------------------------------
\* pyproject.toml names the modules the canaries will ask for.
Reconcile(h) ==
    /\ stage = "idle" /\ reconciles < MaxReconciles
    /\ stage' = "inspect" /\ status' = "none" /\ next' = 1
    /\ home' = h /\ wanted' = Exports[edition[h]]
    /\ original' = installed /\ originalScripts' = scripts
    /\ modified' = {} /\ unquiet' = {} /\ reconciles' = reconciles + 1
    /\ UNCHANGED <<installed, scripts, edition, digest, copies, editableLimits>>

IsEditable(i) == installed[i] \notin {Plain, Bare}

\* Every target is classified before anything is touched.
Inspect ==
    /\ stage = "inspect"
    /\ IF \A i \in Position : IsEditable(i)
       THEN stage' = "copy" /\ digest' = edition[home] /\ UNCHANGED <<status, copies>>
       ELSE Settle("refused") /\ UNCHANGED digest
    /\ UNCHANGED <<input, installed, scripts, edition, next, modified, unquiet, editableLimits>>

\* create_private_backup: the metadata and the generated mapping files.
Copy ==
    /\ stage = "copy"
    /\ copies' = Append(copies, installed[next])
    /\ Advance("install")
    /\ UNCHANGED <<input, installed, scripts, edition, digest, modified, status, unquiet, editableLimits>>

\* A target cannot be read or copied, before any of them was changed.
Abandon ==
    /\ stage \in {"inspect", "copy"} /\ Settle("error")
    /\ UNCHANGED <<input, installed, scripts, edition, next, digest, modified, unquiet, editableLimits>>

\* uv pip install --reinstall --editable
Reinstall ==
    /\ stage = "install" /\ stage' = "compare"
    /\ installed' = [installed EXCEPT ![next] = [home |-> home, edition |-> edition[home]]]
    /\ scripts' = [scripts EXCEPT ![next] = [home |-> home, edition |-> edition[home]]]
    /\ modified' = modified \cup {next}
    /\ UNCHANGED <<input, edition, next, digest, copies, status, unquiet, editableLimits>>

\* uv uninstalls first, so a failing one may leave nothing behind.
ReinstallFails ==
    /\ stage = "install" /\ RollBack
    /\ \E left \in {installed[next], Bare} : installed' = [installed EXCEPT ![next] = left]
    /\ \E left \in {scripts[next], Bare} : scripts' = [scripts EXCEPT ![next] = left]
    /\ UNCHANGED <<input, edition, digest, modified, unquiet, editableLimits>>

TreeKept_Assumed ==   \* the tree is not looked at again
    TRUE
\* The content of the tree is what it was before the installations; it may have been something else
\* in between.
TreeKept == edition[home] = digest

CompareTree ==
    /\ stage = "compare"
    /\ IF TreeKept
       THEN /\ IF next < Interpreters THEN next' = next + 1 /\ stage' = "install"
                                      ELSE next' = 1 /\ stage' = "canary"
            /\ UNCHANGED <<status, copies>>
       ELSE RollBack
    /\ UNCHANGED <<input, installed, scripts, edition, digest, modified, unquiet, editableLimits>>

\* The interpreter finds each wanted module within the source.
Resolves(i) ==
    /\ installed[i] \in Mapping /\ installed[i].home = home
    /\ wanted \subseteq Exports[installed[i].edition] \cap Exports[edition[home]]

Canary ==
    /\ stage = "canary"
    /\ \/ /\ Resolves(next)
          /\ IF next < Interpreters
             THEN next' = next + 1 /\ UNCHANGED <<stage, status, copies>>
             ELSE Settle("reconciled") /\ UNCHANGED next
       \/ RollBack     \* a module is missing or cannot be imported
    /\ UNCHANGED <<input, installed, scripts, edition, digest, modified, unquiet, editableLimits>>

\* restore_private_backup is called for every interpreter of the call.  It puts the metadata and the
\* mapping back; the console scripts stay what uv left.
ToRestore(i) == TRUE

Restore ==
    /\ stage = "restore"
    /\ installed' = IF ToRestore(next) THEN [installed EXCEPT ![next] = copies[next]]
                                       ELSE installed
    /\ IF next < Interpreters THEN next' = next + 1 /\ UNCHANGED <<stage, status, copies>>
                              ELSE Settle("rolled_back") /\ UNCHANGED next
    /\ UNCHANGED <<input, scripts, edition, digest, modified, unquiet, editableLimits>>

\* A restore removes the files that are there before it copies; when it fails the others are
\* not restored, and the copies are removed all the same.
RestoreFails ==
    /\ stage = "restore" /\ harm < MaxHarm /\ harm' = harm + 1
    /\ \E left \in {installed[next], Bare} : installed' = [installed EXCEPT ![next] = left]
    /\ Settle("error")
    /\ UNCHANGED <<input, scripts, edition, next, digest, modified, unquiet, edits>>

\* KeyboardInterrupt is no Exception: nothing is restored, and the copies are removed.
UserInterrupts ==
    /\ stage # "idle" /\ harm < MaxHarm /\ harm' = harm + 1
    /\ \E left \in {installed[next], Bare} :
          /\ left = Bare => stage \in {"install", "restore"}
          /\ installed' = [installed EXCEPT ![next] = left]
    /\ \E left \in {scripts[next], Bare} :
          /\ left = Bare => stage = "install"
          /\ scripts' = [scripts EXCEPT ![next] = left]
    /\ Settle("interrupted")
    /\ UNCHANGED <<input, edition, next, digest, modified, unquiet, edits>>

\* Somebody else edits the tree of a source, or puts an edit back.  After the digest is taken that
\* may be in time for the installation at hand.
Edit(h) ==
    /\ edits < MaxEdits /\ edits' = edits + 1
    /\ \E e \in Editions : e # edition[h] /\ edition' = [edition EXCEPT ![h] = e]
    /\ unquiet' = CASE h = home /\ stage = "copy" -> unquiet \cup {1}
                     [] h = home /\ stage \in {"install", "compare"} -> unquiet \cup {next}
                     [] OTHER -> unquiet
    /\ UNCHANGED <<input, installed, scripts, stage, next, digest, copies, modified, status, harm>>

EditableInit ==
    /\ edition = [h \in Homes |-> 1]
    /\ installed \in [Position -> [home : Homes, edition : {1}] \cup {Plain}]
    /\ stage = "idle" /\ next = 1 /\ status = "none"
    /\ home = (CHOOSE h \in Homes : TRUE) /\ wanted = {} /\ digest = 1 /\ copies = <<>> /\ modified = {}
    /\ scripts = installed /\ original = installed /\ originalScripts = installed
    /\ unquiet = {} /\ reconciles = 0 /\ edits = 0 /\ harm = 0

EditableNext ==
    \/ \E h \in Homes : Reconcile(h) \/ Edit(h)
    \/ Inspect \/ Copy \/ Abandon \/ Reinstall \/ ReinstallFails \/ CompareTree \/ Canary
    \/ Restore \/ RestoreFails \/ UserInterrupts

EditableSpec == EditableInit /\ [][EditableNext]_editableVars

-----------------------------------------------------------------------------
(* A refused call has touched nothing.  A rolled back one leaves every interpreter with the metadata
   and the mapping it had, whichever step failed and however far uv got; console scripts that uv
   replaced or removed stay so, but those of interpreters it did not come to are untouched
   (reconcile_hermes_editable). *)
Undone ==
    /\ status \in {"refused", "rolled_back"} => installed = original
    /\ status = "refused" => scripts = originalScripts
    /\ status = "rolled_back" =>
           \A i \in Position : scripts[i] # originalScripts[i] =>
               \A j \in Position : j < i => j \in modified

(* After a successful call every interpreter is mapped to the one source, metadata, mapping and
   scripts alike, with all the modules that were wanted; and to the edition whose digest the receipt
   carries, unless the tree was edited while that interpreter was being installed.  Such an edit,
   when it is put back before the next comparison, is not noticed. *)
Reconciled ==
    status = "reconciled" =>
        \A i \in Position :
            /\ installed[i] \in Mapping /\ installed[i].home = home /\ scripts[i] = installed[i]
            /\ wanted \subseteq Exports[installed[i].edition]
            /\ installed[i].edition = digest \/ i \in unquiet

(* The end of a call is what its receipt says. *)
ReceiptIsTrue == stage = "idle" => Undone /\ Reconciled
=============================================================================
