----------------------------- MODULE Contracts -----------------------------
(***************************************************************************)
(* One Objective Contract, authored in the worktrees of one project         *)
(* (objective_contracts/store.py), and the execution board that every       *)
(* worktree provisions for a version (objective_contracts/hermes_plugin.py *)
(* and execution_boards.py).  A worktree has its own drafts, locks and      *)
(* final files, so nothing but git and the board relates two worktrees.     *)
(*                                                                         *)
(* The bytes of a final version are its trace, which is drawn for each      *)
(* rendering; a digest is the bytes it is of.                               *)
(***************************************************************************)
EXTENDS Naturals, Sequences

CONSTANTS Roots, Author,   \* worktrees, and the one the contract is begun in
          Sections,
          MaxVersion, MaxCommits, MaxTraces, MaxCheckouts, MaxHandoffs, MaxCrashes

ASSUME ContractsAssumption == /\ Author \in Roots
                              /\ MaxVersion \in Nat \ {0} /\ MaxCommits \in Nat \ {0}
                              /\ MaxTraces \in Nat /\ MaxCheckouts \in Nat
                              /\ MaxHandoffs \in Nat /\ MaxCrashes \in Nat

Versions == 1..MaxVersion
NoFinal == 0
NoDraft == [target |-> 0, sections |-> {}]
NoBoard == [metadata |-> "none", of |-> NoFinal, base |-> 0, database |-> FALSE, archived |-> FALSE]
Empty == [v \in Versions |-> NoFinal]
Idle == [step |-> "idle", version |-> 1, read |-> NoFinal, base |-> 0, moved |-> FALSE]

VARIABLES drafts, finals,   \* the files of each worktree
          finalizing,       \* worktrees with a final version linked whose draft is still there
          commits, tips,   \* git: the trees committed, and the commit of each worktree
          boards,           \* the execution board of each version
          handoff,          \* prepare_handoff in each worktree
          handed,           \* observation: the results handed over
          traces, checkouts, handoffs, crashes   \* bounded

files == <<drafts, finals, finalizing>>
git == <<commits, tips>>
spent == <<traces, checkouts, handoffs, crashes>>
contractsVars == <<files, git, boards, handoff, handed, spent>>

Locked(r) == r \in finalizing   \* _contract_lock

-----------------------------------------------------------------------------
(* Authoring *)

Begin ==
    /\ traces = 0 /\ drafts[Author] = NoDraft   \* a contract begins once
    /\ drafts' = [drafts EXCEPT ![Author] = [target |-> 1, sections |-> {}]]
    /\ UNCHANGED <<finals, finalizing, git, boards, handoff, handed, spent>>

\* with the revision the caller read, which makes two edits of one revision one
SetSection(r, s) ==
    /\ drafts[r] # NoDraft /\ ~Locked(r)
    /\ s \notin drafts[r].sections
    /\ drafts' = [drafts EXCEPT ![r].sections = @ \cup {s}]
    /\ UNCHANGED <<finals, finalizing, git, boards, handoff, handed, spent>>

\* finalize, up to _exclusive_private_write
Link(r) ==
    LET draft == drafts[r] IN
    /\ draft # NoDraft /\ ~Locked(r) /\ draft.sections = Sections
    /\ finals[r][draft.target] = NoFinal
    /\ traces < MaxTraces /\ traces' = traces + 1
    /\ finals' = [finals EXCEPT ![r][draft.target] = traces']
    /\ finalizing' = finalizing \cup {r}
    /\ UNCHANGED <<drafts, git, boards, handoff, handed, checkouts, handoffs, crashes>>

Unlink(r) ==
    /\ Locked(r)
    /\ drafts' = [drafts EXCEPT ![r] = NoDraft]
    /\ finalizing' = finalizing \ {r}
    /\ UNCHANGED <<finals, git, boards, handoff, handed, spent>>

Supersede(r, v) ==
    /\ ~Locked(r) /\ finals[r][v] # NoFinal
    /\ v + 1 \in Versions /\ drafts[r] = NoDraft /\ finals[r][v + 1] = NoFinal
    /\ drafts' = [drafts EXCEPT ![r] = [target |-> v + 1, sections |-> Sections]]
    /\ UNCHANGED <<finals, finalizing, git, boards, handoff, handed, spent>>

-----------------------------------------------------------------------------
(* Git, which the owner and the agents use as they like *)

CommitFinals(r) ==
    /\ Len(commits) < MaxCommits /\ finals[r] # commits[tips[r]]
    /\ commits' = Append(commits, finals[r])
    /\ tips' = [tips EXCEPT ![r] = Len(commits')]
    /\ UNCHANGED <<files, boards, handoff, handed, spent>>

\* Files that git does not track are not overwritten; drafts are ignored.
Checkout(r, c) ==
    /\ c # tips[r] /\ checkouts < MaxCheckouts /\ checkouts' = checkouts + 1
    /\ \A v \in Versions : finals[r][v] \in {commits[tips[r]][v], commits[c][v]}
    /\ tips' = [tips EXCEPT ![r] = c]
    /\ finals' = [finals EXCEPT ![r] = commits[c]]
    /\ handoff' = [handoff EXCEPT ![r].moved = handoff[r].step # "idle"]
    /\ UNCHANGED <<commits, drafts, finalizing, boards, handed, traces, handoffs, crashes>>

-----------------------------------------------------------------------------
(* prepare_handoff, which takes no lock *)

To(r, step) == handoff' = [handoff EXCEPT ![r].step = step]
Reached(r, step) == handoff[r].step = step
Refuse(r) == handoff' = [handoff EXCEPT ![r] = Idle]
Only(r) == UNCHANGED <<files, git, boards, handed, spent>>

Parse(r, v) ==
    /\ Reached(r, "idle") /\ finals[r][v] # NoFinal
    /\ handoffs < MaxHandoffs /\ handoffs' = handoffs + 1
    /\ handoff' = [handoff EXCEPT ![r] = [Idle EXCEPT !.step = "base", !.version = v,
                                                     !.read = finals[r][v]]]
    /\ UNCHANGED <<files, git, boards, handed, traces, checkouts, crashes>>

ReadHead(r) ==
    /\ Reached(r, "base")
    /\ handoff' = [handoff EXCEPT ![r].step = "compare", ![r].base = tips[r]]
    /\ Only(r)

InBase(r) == LET v == handoff[r].version IN
             finals[r][v] # NoFinal /\ commits[handoff[r].base][v] = finals[r][v]
\* and HEAD is read again
Compare(r) ==
    /\ Reached(r, "compare")
    /\ IF InBase(r) /\ tips[r] = handoff[r].base THEN To(r, "provision") ELSE Refuse(r)
    /\ Only(r)

-----------------------------------------------------------------------------
(* _provision_execution_board, under the lock of the board *)

Held(v) == \E q \in Roots : handoff[q].version = v /\ handoff[q].step \in {"write", "check", "init"}

Provision(r) ==
    LET v == handoff[r].version IN
    /\ Reached(r, "provision") /\ ~Held(v)
    /\ IF boards[v].database \/ boards[v].metadata # "none"
       THEN To(r, "check") /\ UNCHANGED boards
       ELSE /\ boards' = [boards EXCEPT ![v].metadata = "partial"]
            /\ To(r, "write")
    /\ UNCHANGED <<files, git, handed, spent>>

\* Metadata that cannot be written is removed again.
Write(r) ==
    LET v == handoff[r].version IN
    /\ Reached(r, "write")
    /\ \/ /\ boards' = [boards EXCEPT ![v].metadata = "whole", ![v].of = handoff[r].read,
                                      ![v].base = handoff[r].base]
          /\ To(r, "check")
       \/ boards' = [boards EXCEPT ![v].metadata = "none"] /\ Refuse(r)
    /\ UNCHANGED <<files, git, handed, spent>>

\* _validate_execution_metadata
MetadataMatches_AnyBase(r) ==   \* without the base commit
    LET board == boards[handoff[r].version] IN
    board.metadata = "whole" /\ ~board.archived /\ board.of = handoff[r].read
MetadataMatches(r) ==
    LET board == boards[handoff[r].version] IN
    /\ board.metadata = "whole" /\ ~board.archived
    /\ board.of = handoff[r].read /\ board.base = handoff[r].base

Check(r) ==
    /\ Reached(r, "check")
    /\ IF MetadataMatches(r) THEN To(r, "init") ELSE Refuse(r)
    /\ Only(r)

\* The database is made, and the metadata validated again.  The envelope carries the digest of what
\* the base has.
InitDatabase(r) ==
    LET h == handoff[r] IN
    /\ Reached(r, "init")
    /\ boards' = [boards EXCEPT ![h.version].database = TRUE]
    /\ handed' = IF MetadataMatches(r)
                 THEN handed \cup {[version |-> h.version, base |-> h.base, read |-> h.read,
                                    digest |-> commits[h.base][h.version], moved |-> h.moved]}
                 ELSE handed
    /\ Refuse(r)
    /\ UNCHANGED <<files, git, spent>>

Archive(v) ==
    /\ boards[v].metadata = "whole" /\ ~boards[v].archived
    /\ boards' = [boards EXCEPT ![v].archived = TRUE]
    /\ UNCHANGED <<files, git, handoff, handed, spent>>

\* The process of a worktree dies; the operating system releases its locks.
Crash(r) ==
    /\ crashes < MaxCrashes /\ (Locked(r) \/ ~Reached(r, "idle"))
    /\ crashes' = crashes + 1
    /\ finalizing' = finalizing \ {r}
    /\ Refuse(r)
    /\ UNCHANGED <<drafts, finals, git, boards, handed, traces, checkouts, handoffs>>

-----------------------------------------------------------------------------
ContractsInit ==
    /\ drafts = [r \in Roots |-> NoDraft] /\ finals = [r \in Roots |-> Empty] /\ finalizing = {}
    /\ commits = <<Empty>> /\ tips = [r \in Roots |-> 1]
    /\ boards = [v \in Versions |-> NoBoard]
    /\ handoff = [r \in Roots |-> Idle] /\ handed = {}
    /\ traces = 0 /\ checkouts = 0 /\ handoffs = 0 /\ crashes = 0

ContractsNext ==
    \/ \E r \in Roots :
          \/ \E s \in Sections : SetSection(r, s)
          \/ Link(r) \/ Unlink(r) \/ CommitFinals(r) \/ Crash(r)
          \/ \E c \in DOMAIN commits : Checkout(r, c)
          \/ \E v \in Versions : Parse(r, v) \/ Supersede(r, v)
          \/ ReadHead(r) \/ Compare(r)
          \/ Provision(r) \/ Write(r) \/ Check(r) \/ InitDatabase(r)
    \/ \E v \in Versions : Archive(v)
    \/ Begin

ContractsSpec == ContractsInit /\ [][ContractsNext]_contractsVars

-----------------------------------------------------------------------------
(* Properties *)

\* What is handed over is committed in the base it names, and if git left the worktree alone
\* meanwhile, the trace it carries is that of the committed version.
HandoffIsCommitted ==
    \A e \in handed : e.digest # NoFinal /\ (~e.moved => e.digest = e.read)

\* Two worktrees may each finalize the same version of the contract, differently.  Only one of them
\* is ever handed over, with one base, and its board is the board of that one.
OneHandoffPerVersion ==
    \A e \in handed :
        /\ \A f \in handed : e.version = f.version => <<e.base, e.read, e.digest>> = <<f.base, f.read, f.digest>>
        /\ LET board == boards[e.version] IN
           board.database /\ board.metadata = "whole" /\ board.of = e.read /\ board.base = e.base

(* Of each version one text is handed over, and that text is committed in the base the board
   names, although two worktrees finalize and git moves them (prepare_handoff). *)
OneCommittedHandoff == OneHandoffPerVersion /\ HandoffIsCommitted
=============================================================================
