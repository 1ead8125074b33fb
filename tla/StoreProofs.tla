---------------------------- MODULE StoreProofs ----------------------------
(***************************************************************************)
(* Proofs about what is stored beside readers and survives whoever dies:   *)
(* the projection of a project with its rebuild, the work notes, and what  *)
(* semantic fragments add to a graph; and about work that passes from one  *)
(* hand to another: an attempt of a task, which Hermes takes over from     *)
(* Claude, and a version of an Objective Contract, which a worktree hands  *)
(* over to execution.                                                      *)
(***************************************************************************)
EXTENDS Projection, Notes, Overlay, Attempt, Contracts, FiniteSetTheorems, SequenceTheorems, TLAPS

-----------------------------------------------------------------------------
(* The projection.  What a process holds at each of its steps is a table;  *)
(* the storage-transition lock makes the rebuilding process one, and its   *)
(* exclusive lease leaves nobody else a lease.  A connection without a     *)
(* lease is the rebuilding process's own, while it waits for the readers,  *)
(* so whoever replaces the name has closed the last connection to the old  *)
(* inode.  The new inode has the candidate's rows, which nobody wrote to.  *)

Sole == {"exclusive", "sealed", "bare", "replaced"}
Rebuilding == {"building", "upgrading", "rebuilt", "failed", "restored"} \cup Sole
Doings == {"out", "queued", "opening", "leased", "open"} \cup Rebuilding

ProjectionTypes ==
    /\ doing \in [Procs -> Doings] /\ passing \in [Procs -> BOOLEAN]
    /\ rebuilding \in [Procs -> {"no", "due", "done"}]
    /\ lease \in [Procs -> {"none", "shared", "exclusive"}]
    /\ conn \in [Procs -> 0..inodes]
    /\ inodes \in Nat /\ openings \in 0..MaxOpenings
    /\ live \in 0..inodes /\ candidate \in 0..inodes

RowTypes ==
    /\ file = [n \in Inodes |-> file[n]] /\ wal = [n \in Inodes |-> wal[n]]
    /\ committed = [n \in Inodes |-> committed[n]]

\* What a process holds at its step
Holds(p) ==
    /\ doing[p] \in {"out", "queued"} => rebuilding[p] = "no" /\ (passing[p] <=> doing[p] = "queued")
    /\ passing[p] /\ doing[p] # "queued" => holder = p
    /\ rebuilding[p] # "no" => passing[p]
    /\ doing[p] \in Rebuilding => rebuilding[p] = "due"
    /\ doing[p] = "open" => rebuilding[p] # "due"
    /\ lease[p] = IF doing[p] \in {"out", "queued", "opening", "upgrading"} THEN "none"
                  ELSE IF doing[p] \in Sole THEN "exclusive" ELSE "shared"

Connects(p) ==
    /\ doing[p] \in {"out", "queued", "opening", "leased", "sealed", "bare", "replaced"} => conn[p] = 0
    /\ doing[p] \in {"open", "building", "upgrading", "exclusive", "rebuilt"} => conn[p] # 0
    /\ conn[p] # 0 => conn[p] = live
    /\ doing[p] \in {"upgrading", "exclusive", "sealed", "bare"} => candidate # 0
    /\ doing[p] = "replaced" => live # 0

Alone(p) == doing[p] \in Sole => \A q \in Procs \ {p} : lease[q] = "none"

Blank(n) == file[n] = {} /\ wal[n] = {} /\ committed[n] = {}
RowsInv ==
    /\ \A n \in Inodes : n > inodes => Blank(n)
    /\ candidate # 0 => candidate # live /\ Blank(candidate)
    /\ live # 0 => file[live] \cup wal[live] = committed[live]
    /\ \A p \in Procs : doing[p] = "sealed" => wal[live] = {}

\* The passes that may still make an inode; with them the inodes are bounded by the openings.
Unbuilt == {p \in Procs : /\ passing[p]
                          /\ \/ rebuilding[p] = "no"
                             \/ rebuilding[p] = "due" /\ doing[p] \in {"opening", "leased", "building"}}
Unnamed == IF live = 0 THEN 1 ELSE 0
InodesCounted ==
    /\ IsFiniteSet(Unbuilt)
    /\ inodes + Cardinality(Unbuilt) + Unnamed <= openings + 1

ProcsInv == \A p \in Procs : Holds(p) /\ Connects(p) /\ Alone(p)
ProjectionInv == ProjectionTypes /\ RowTypes /\ ProcsInv /\ RowsInv /\ InodesCounted

-----------------------------------------------------------------------------
\* Another process, which keeps what it has
MovesOnly(p) ==
    /\ doing' = [doing EXCEPT ![p] = doing'[p]] /\ passing' = [passing EXCEPT ![p] = passing'[p]]
    /\ rebuilding' = [rebuilding EXCEPT ![p] = rebuilding'[p]]
    /\ lease' = [lease EXCEPT ![p] = lease'[p]] /\ conn' = [conn EXCEPT ![p] = conn'[p]]

LEMMA EachMovesOnly ==
    ASSUME ProjectionTypes, NEW p \in Procs,
           \/ StartPass(p) \/ StartRead(p) \/ GiveUp(p) \/ GoesOn(p) \/ RebuildFails(p)
           \/ ProcessDies(p)
    PROVE  MovesOnly(p)
<1> USE DEF ProjectionTypes, MovesOnly, At
<1>1. CASE StartPass(p) \/ StartRead(p) \/ TakeLock(p) \/ Lease(p) \/ Connect(p)
  BY <1>1 DEF StartPass, StartRead, TakeLock, Lease, Connect
<1>2. CASE GiveUp(p) \/ Close(p) \/ Raised(p) \/ ProcessDies(p)
  BY <1>2 DEF GiveUp, Close, Raised, ProcessDies, Leave
<1>3. CASE RebuildRequired(p) \/ Build(p) \/ Upgrade(p) \/ Checkpoint(p)
  BY <1>3 DEF RebuildRequired, Build, Upgrade, Checkpoint
<1>4. CASE RemoveSidecars(p) \/ Replace(p) \/ Reconnect(p) \/ StartAnew(p)
  BY <1>4 DEF RemoveSidecars, Replace, Reconnect, StartAnew
<1>5. CASE FallBack(p) \/ RebuildFails(p) \/ \E r \in Rows : Commit(p, r)
  BY <1>5 DEF FallBack, RebuildFails, Commit
<1> QED BY <1>1, <1>2, <1>3, <1>4, <1>5 DEF GoesOn

\* One process rebuilds.
LEMMA OneRebuilds ==
    ASSUME ProcsInv, NEW p \in Procs, NEW q \in Procs,
           doing[p] \in Rebuilding, doing[q] \in Rebuilding
    PROVE  p = q
  BY DEF ProcsInv, Holds, Rebuilding, Sole

\* Whoever has a connection while another process is alone is that process.
LEMMA AloneConnected ==
    ASSUME ProcsInv, NEW p \in Procs, doing[p] \in Sole, NEW q \in Procs, q # p,
           ProjectionTypes
    PROVE  conn[q] = 0 /\ lease[q] = "none" /\ doing[q] \in {"out", "queued", "opening"}
<1>1. lease[q] = "none" /\ doing[q] \in Doings
  BY DEF ProcsInv, Alone, ProjectionTypes
<1>2. doing[q] \notin Rebuilding
  BY OneRebuilds DEF Rebuilding
<1> QED BY <1>1, <1>2 DEF ProcsInv, Holds, Connects, Doings, Rebuilding, Sole

LEMMA OthersKeep ==
    ASSUME ProjectionTypes, ProcsInv, NEW p \in Procs, MovesOnly(p),
           holder = p \/ holder = Nobody \/ holder' = holder,
           \A q \in Procs \ {p} : conn[q] # 0 => live' = live,
           candidate' = candidate \/ doing[p] \in Rebuilding,
           live' = 0 => live = 0,
           lease'[p] = "none" \/ lease[p] # "none"
              \/ \A q \in Procs \ {p} : doing[q] \notin Sole
    PROVE  \A q \in Procs \ {p} : Holds(q)' /\ Connects(q)' /\ Alone(q)'
<1> SUFFICES ASSUME NEW q \in Procs \ {p} PROVE Holds(q)' /\ Connects(q)' /\ Alone(q)'
  OBVIOUS
<1>1. /\ doing'[q] = doing[q] /\ passing'[q] = passing[q] /\ rebuilding'[q] = rebuilding[q]
      /\ lease'[q] = lease[q] /\ conn'[q] = conn[q]
  BY DEF MovesOnly, ProjectionTypes
<1>2. Holds(q) /\ Connects(q) /\ Alone(q)
  BY DEF ProcsInv
<1>3. Holds(q)'
  BY <1>1, <1>2, ProjectionAssumption DEF Holds
<1>4. Connects(q)'
  <2>1. doing[q] \in Rebuilding => candidate' = candidate
    BY OneRebuilds
  <2>2. doing[q] \in {"upgrading", "exclusive", "sealed", "bare"} => candidate' # 0
    BY <1>2, <2>1 DEF Connects, Rebuilding, Sole
  <2> QED BY <1>1, <1>2, <2>2 DEF Connects
<1>5. Alone(q)'
  <2> SUFFICES ASSUME doing'[q] \in Sole, NEW o \in Procs \ {q} PROVE lease'[o] = "none"
    BY DEF Alone
  <2>1. lease[o] = "none"
    BY <1>1, <1>2 DEF Alone
  <2>2. o # p => lease'[o] = lease[o]
    BY DEF MovesOnly, ProjectionTypes
  <2> QED BY <1>1, <2>1, <2>2
<1> QED BY <1>3, <1>4, <1>5

LEMMA StartsKeep ==
    ASSUME ProjectionInv, NEW p \in Procs, StartPass(p) \/ StartRead(p) \/ TakeLock(p) \/ GiveUp(p)
    PROVE  ProcsInv'
<1>1. MovesOnly(p) /\ ProjectionTypes /\ ProcsInv
  BY EachMovesOnly DEF ProjectionInv, GoesOn
<1>2. Holds(p) /\ Connects(p)
  BY <1>1 DEF ProcsInv
<1>3. Holds(p)' /\ Connects(p)' /\ Alone(p)'
  <2> USE <1>1, <1>2 DEF Holds, Connects, Alone, ProjectionTypes, At, Sole, Rebuilding
  <2>1. CASE StartPass(p) \/ StartRead(p)
    BY <2>1 DEF StartPass, StartRead, BeforeLock, names
  <2>2. CASE TakeLock(p)
    BY <2>2 DEF TakeLock, names
  <2>3. CASE GiveUp(p)
    BY <2>3 DEF GiveUp, Leave, names
  <2> QED BY <2>1, <2>2, <2>3
<1>4. \A q \in Procs \ {p} : Holds(q)' /\ Connects(q)' /\ Alone(q)'
  <2>1. /\ holder = p \/ holder = Nobody \/ holder' = holder
        /\ live' = live /\ candidate' = candidate
    BY DEF StartPass, StartRead, TakeLock, GiveUp, Leave, names
  <2>2. lease'[p] = "none"
    <3>1. CASE StartPass(p)
      BY <1>1, <3>1 DEF StartPass, BeforeLock, ProjectionTypes
    <3>2. CASE GiveUp(p)
      BY <1>1, <3>2 DEF GiveUp, Leave, ProjectionTypes
    <3>3. CASE StartRead(p) \/ TakeLock(p)
      BY <1>2, <3>3 DEF StartRead, TakeLock, At, Holds
    <3> QED BY <3>1, <3>2, <3>3
  <2> QED BY <1>1, <2>1, <2>2, OthersKeep
<1> QED BY <1>3, <1>4 DEF ProcsInv

LEMMA OpensKeep ==
    ASSUME ProjectionInv, NEW p \in Procs,
           Lease(p) \/ Connect(p) \/ RebuildRequired(p) \/ \E r \in Rows : Commit(p, r)
    PROVE  ProcsInv'
<1>1. MovesOnly(p) /\ ProjectionTypes /\ ProcsInv
  BY EachMovesOnly DEF ProjectionInv, GoesOn
<1>2. Holds(p) /\ Connects(p) /\ Alone(p)
  BY <1>1 DEF ProcsInv
<1>3. Holds(p)' /\ Connects(p)' /\ Alone(p)'
  <2> USE <1>1, <1>2 DEF Holds, Connects, Alone, ProjectionTypes, At, Sole, Rebuilding
  <2>1. CASE Lease(p)
    BY <2>1 DEF Lease, names
  <2>2. CASE Connect(p)
    BY <2>2 DEF Connect, names
  <2>3. CASE RebuildRequired(p)
    BY <2>3 DEF RebuildRequired, names
  <2>4. CASE \E r \in Rows : Commit(p, r)
    BY <2>4 DEF Commit, names
  <2> QED BY <2>1, <2>2, <2>3, <2>4
<1>4. \A q \in Procs \ {p} : Holds(q)' /\ Connects(q)' /\ Alone(q)'
  <2>1. CASE Lease(p)
    <3>1. \A q \in Procs \ {p} : doing[q] \notin Sole
      BY <1>1, <2>1 DEF Lease, ProcsInv, Holds, Sole
    <3>2. holder' = holder /\ live' = live /\ candidate' = candidate
      BY <2>1 DEF Lease, names
    <3> QED BY <1>1, <3>1, <3>2, OthersKeep
  <2>2. CASE Connect(p)
    <3>1. /\ holder' = holder /\ candidate' = candidate
          /\ live # 0 => live' = live
          /\ live' # 0 /\ lease'[p] = lease[p] /\ doing[p] = "leased"
      BY <1>1, <2>2 DEF Connect, ProjectionTypes, At
    <3>2. \A q \in Procs \ {p} : conn[q] # 0 => live' = live
      BY <1>1, <3>1 DEF ProcsInv, Connects, ProjectionTypes
    <3>3. lease[p] # "none"
      BY <1>2, <3>1 DEF Holds, Sole
    <3> QED BY <1>1, <3>1, <3>2, <3>3, OthersKeep
  <2>3. CASE RebuildRequired(p)
    <3>1. holder' = holder /\ live' = live /\ candidate' = candidate /\ lease'[p] = "none"
      BY <1>1, <2>3 DEF RebuildRequired, names, ProjectionTypes
    <3> QED BY <1>1, <3>1, OthersKeep
  <2>4. CASE \E r \in Rows : Commit(p, r)
    <3>1. holder' = holder /\ live' = live /\ candidate' = candidate /\ lease'[p] = lease[p]
      BY <2>4 DEF Commit, names
    <3> QED BY <1>1, <3>1, OthersKeep
  <2> QED BY <2>1, <2>2, <2>3, <2>4
<1> QED BY <1>3, <1>4 DEF ProcsInv

LEMMA RebuildsKeep ==
    ASSUME ProjectionInv, NEW p \in Procs,
           \/ Build(p) \/ Upgrade(p) \/ Checkpoint(p) \/ RemoveSidecars(p) \/ Replace(p)
           \/ Reconnect(p) \/ StartAnew(p) \/ FallBack(p) \/ RebuildFails(p)
    PROVE  ProcsInv'
<1>1. MovesOnly(p) /\ ProjectionTypes /\ ProcsInv
  BY EachMovesOnly DEF ProjectionInv, GoesOn
<1>2. Holds(p) /\ Connects(p) /\ Alone(p)
  BY <1>1 DEF ProcsInv
<1>3. Holds(p)' /\ Connects(p)' /\ Alone(p)'
  <2> USE <1>1, <1>2 DEF Holds, Connects, Alone, ProjectionTypes, At, Sole, Rebuilding
  <2>1. CASE Build(p)
    BY <2>1 DEF Build, names
  <2>2. CASE Upgrade(p)
    BY <2>2 DEF Upgrade, Drained, names
  <2>3. CASE Checkpoint(p) \/ RemoveSidecars(p)
    BY <2>3 DEF Checkpoint, RemoveSidecars, names
  <2>4. CASE Replace(p)
    BY <2>4 DEF Replace, names
  <2>5. CASE Reconnect(p)
    BY <2>5 DEF Reconnect, names
  <2>6. CASE StartAnew(p) \/ FallBack(p)
    BY <2>6 DEF StartAnew, FallBack, names
  <2>7. CASE RebuildFails(p)
    BY <2>7 DEF RebuildFails, names
  <2> QED BY <2>1, <2>2, <2>3, <2>4, <2>5, <2>6, <2>7
<1>4. doing[p] \in Rebuilding /\ holder' = holder
  BY DEF Build, Upgrade, Checkpoint, RemoveSidecars, Replace, Reconnect, StartAnew, FallBack,
         RebuildFails, At, Rebuilding, Sole
<1>5. \A q \in Procs \ {p} : doing[q] \notin Sole
  BY <1>1, <1>4, OneRebuilds DEF Rebuilding
<1>6. /\ \A q \in Procs \ {p} : conn[q] # 0 => live' = live
      /\ live' = 0 => live = 0
  <2>1. CASE Replace(p)
    <3>1. doing[p] = "bare" /\ live' = candidate
      BY <2>1 DEF Replace, At
    <3>2. \A q \in Procs \ {p} : conn[q] = 0
      BY <1>1, <3>1, AloneConnected DEF Sole
    <3> QED BY <1>2, <3>1, <3>2 DEF Connects
  <2>2. CASE ~Replace(p)
    <3>1. live' = live
      BY <2>2 DEF Build, Upgrade, Checkpoint, RemoveSidecars, Replace, Reconnect, StartAnew,
                  FallBack, RebuildFails, names
    <3> QED BY <3>1
  <2> QED BY <2>1, <2>2
<1> QED BY <1>1, <1>3, <1>4, <1>5, <1>6, OthersKeep DEF ProcsInv

LEMMA LeavesKeep ==
    ASSUME ProjectionInv, NEW p \in Procs, Close(p) \/ Raised(p) \/ ProcessDies(p)
    PROVE  ProcsInv'
<1>1. MovesOnly(p) /\ ProjectionTypes /\ ProcsInv
  BY EachMovesOnly DEF ProjectionInv, GoesOn
<1>2. Leave(p) /\ UNCHANGED names
  BY DEF Close, Raised, ProcessDies
<1>3. Holds(p)' /\ Connects(p)' /\ Alone(p)'
  BY <1>1, <1>2 DEF Leave, Holds, Connects, Alone, ProjectionTypes, Sole, Rebuilding
<1>4. /\ holder = p \/ holder' = holder
      /\ live' = live /\ candidate' = candidate /\ lease'[p] = "none"
  BY <1>1, <1>2 DEF Leave, names, ProjectionTypes
<1> QED BY <1>1, <1>3, <1>4, OthersKeep DEF ProcsInv

-----------------------------------------------------------------------------
(* The inodes *)

ProjectionStep(p) ==
    \/ StartPass(p) \/ StartRead(p) \/ GiveUp(p) \/ GoesOn(p) \/ RebuildFails(p) \/ ProcessDies(p)

\* What may be made of it: a pass that builds, or whoever connects to a project that has no database
LEMMA NamesMove ==
    ASSUME ProjectionTypes, NEW p \in Procs, ProjectionStep(p)
    PROVE  /\ inodes' = inodes + 1 <=> Build(p) \/ (Connect(p) /\ live = 0)
           /\ inodes' = inodes + 1 \/ inodes' = inodes
           /\ Connect(p) /\ live = 0 => live' = inodes' /\ candidate' = candidate
           /\ Build(p) => candidate' = inodes' /\ live' = live
           /\ inodes' = inodes => live' \in {live, candidate} /\ candidate' \in {candidate, 0}
           /\ \/ openings' = openings + 1 /\ openings < MaxOpenings
              \/ openings' = openings /\ ~StartPass(p)
<1> USE DEF ProjectionTypes, names, counts
<1>1. CASE Build(p)
  <2>1. /\ inodes' = inodes + 1 /\ candidate' = inodes + 1 /\ UNCHANGED <<live, openings>>
        /\ doing[p] = "building"
    BY <1>1 DEF Build, At
  <2>2. ~StartPass(p) /\ ~Connect(p)
    BY <2>1 DEF StartPass, Connect, At
  <2> QED BY <1>1, <2>1, <2>2
<1>2. CASE Connect(p)
  BY <1>2 DEF Connect, Build, StartPass, At
<1>3. CASE StartPass(p) \/ StartRead(p) \/ GiveUp(p) \/ TakeLock(p) \/ Lease(p) \/ Close(p)
  <2>1. UNCHANGED names
    BY <1>3 DEF StartPass, StartRead, GiveUp, TakeLock, Lease, Close
  <2>2. \/ openings' = openings + 1 /\ openings < MaxOpenings
        \/ openings' = openings /\ ~StartPass(p)
    BY <1>3 DEF StartPass, StartRead, GiveUp, TakeLock, Lease, Close, At
  <2>3. ~Build(p) /\ ~(Connect(p) /\ live = 0)
    BY <2>1 DEF Build, Connect
  <2> QED BY <2>1, <2>2, <2>3
<1>4. CASE \/ RebuildRequired(p) \/ Upgrade(p) \/ Checkpoint(p) \/ RemoveSidecars(p)
           \/ Reconnect(p) \/ StartAnew(p) \/ FallBack(p) \/ Raised(p) \/ ProcessDies(p)
           \/ \E r \in Rows : Commit(p, r)
  <2>1. UNCHANGED names /\ openings' = openings
    BY <1>4 DEF RebuildRequired, Upgrade, Checkpoint, RemoveSidecars, Reconnect, StartAnew,
                FallBack, Raised, ProcessDies, Commit
  <2> QED BY <2>1 DEF Build, Connect, StartPass
<1>5. CASE Replace(p) \/ RebuildFails(p)
  BY <1>5 DEF Replace, RebuildFails, Build, Connect, StartPass, At
<1> QED BY <1>1, <1>2, <1>3, <1>4, <1>5 DEF ProjectionStep, GoesOn

LEMMA TypesKeep ==
    ASSUME ProjectionInv, NEW p \in Procs, ProjectionStep(p)
    PROVE  ProjectionTypes'
<1>1. ProjectionTypes /\ MovesOnly(p)
  BY EachMovesOnly DEF ProjectionInv, ProjectionStep
<1>2. /\ inodes' \in Nat /\ inodes <= inodes' /\ openings' \in 0..MaxOpenings
      /\ live' \in 0..inodes' /\ candidate' \in 0..inodes'
  BY <1>1, NamesMove, ProjectionAssumption DEF ProjectionTypes
<1>3. conn'[p] \in {conn[p], 0, live, live'}
  <2> USE <1>1 DEF ProjectionTypes
  <2>1. CASE Connect(p) \/ Checkpoint(p) \/ RebuildRequired(p) \/ StartAnew(p)
    BY <2>1 DEF Connect, Checkpoint, RebuildRequired, StartAnew
  <2>2. CASE Reconnect(p) \/ FallBack(p)
    BY <2>2 DEF Reconnect, FallBack
  <2>3. CASE GiveUp(p) \/ Close(p) \/ Raised(p) \/ ProcessDies(p)
    BY <2>3 DEF GiveUp, Close, Raised, ProcessDies, Leave
  <2>4. CASE \/ StartPass(p) \/ StartRead(p) \/ TakeLock(p) \/ Lease(p) \/ Build(p) \/ Upgrade(p)
             \/ RemoveSidecars(p) \/ Replace(p) \/ RebuildFails(p) \/ \E r \in Rows : Commit(p, r)
    BY <2>4 DEF StartPass, StartRead, TakeLock, Lease, Build, Upgrade, RemoveSidecars, Replace,
                RebuildFails, Commit
  <2> QED BY <2>1, <2>2, <2>3, <2>4 DEF ProjectionStep, GoesOn
<1>4. conn' \in [Procs -> 0..inodes']
  BY <1>1, <1>2, <1>3 DEF ProjectionTypes, MovesOnly
<1>5. /\ doing'[p] \in Doings /\ passing'[p] \in BOOLEAN
      /\ rebuilding'[p] \in {"no", "due", "done"} /\ lease'[p] \in {"none", "shared", "exclusive"}
  <2> USE <1>1 DEF ProjectionTypes, At, Doings, Rebuilding, Sole
  <2>1. CASE StartPass(p) \/ StartRead(p) \/ TakeLock(p) \/ Lease(p) \/ Connect(p)
    BY <2>1 DEF StartPass, StartRead, TakeLock, Lease, Connect, BeforeLock
  <2>2. CASE GiveUp(p) \/ Close(p) \/ Raised(p) \/ ProcessDies(p)
    BY <2>2 DEF GiveUp, Close, Raised, ProcessDies, Leave
  <2>3. CASE RebuildRequired(p) \/ Build(p) \/ Upgrade(p) \/ Checkpoint(p)
    BY <2>3 DEF RebuildRequired, Build, Upgrade, Checkpoint
  <2>4. CASE RemoveSidecars(p) \/ Replace(p) \/ Reconnect(p) \/ StartAnew(p)
    BY <2>4 DEF RemoveSidecars, Replace, Reconnect, StartAnew
  <2>5. CASE FallBack(p) \/ RebuildFails(p) \/ \E r \in Rows : Commit(p, r)
    BY <2>5 DEF FallBack, RebuildFails, Commit
  <2> QED BY <2>1, <2>2, <2>3, <2>4, <2>5 DEF ProjectionStep, GoesOn
<1> QED BY <1>1, <1>2, <1>4, <1>5 DEF ProjectionTypes, MovesOnly

LEMMA Fewer ==
    ASSUME NEW m \in Nat, NEW n \in Nat, NEW i \in Int, NEW j \in Int, NEW k \in Nat, NEW l \in Nat,
           NEW o \in Nat, NEW q \in Nat,
           n + j <= m + i, m + k + i <= o + 1, l <= k, o <= q
    PROVE  n + l + j <= q + 1
  OBVIOUS

LEMMA CountKeeps ==
    ASSUME ProjectionInv, NEW p \in Procs, ProjectionStep(p)
    PROVE  InodesCounted'
<1>1. /\ ProjectionTypes /\ MovesOnly(p) /\ Holds(p) /\ InodesCounted /\ ProjectionTypes'
      /\ IsFiniteSet(Unbuilt) /\ Cardinality(Unbuilt) \in Nat
  BY EachMovesOnly, TypesKeep, FS_CardinalityType
     DEF ProjectionInv, ProjectionStep, ProcsInv, InodesCounted
<1>2. \A q \in Procs \ {p} : q \in Unbuilt' <=> q \in Unbuilt
  BY <1>1 DEF MovesOnly, ProjectionTypes, Unbuilt
<1>3. CASE StartPass(p)
  <2>1. Unbuilt' = Unbuilt \cup {p} /\ p \notin Unbuilt
    <3>1. p \in Unbuilt' /\ p \notin Unbuilt
      BY <1>1, <1>3 DEF StartPass, Unbuilt, Holds, At, ProjectionTypes
    <3> QED BY <1>2, <3>1 DEF Unbuilt
  <2>2. IsFiniteSet(Unbuilt') /\ Cardinality(Unbuilt') = Cardinality(Unbuilt) + 1
    BY <1>1, <2>1, FS_AddElement
  <2>3. inodes' = inodes /\ live' = live /\ openings' = openings + 1
    BY <1>3 DEF StartPass, names
  <2>4. Unnamed' = Unnamed /\ Unnamed \in 0..1
    BY <2>3 DEF Unnamed
  <2> QED BY <1>1, <2>2, <2>3, <2>4 DEF InodesCounted, ProjectionTypes
<1>4. CASE Build(p)
  <2>1. Unbuilt' = Unbuilt \ {p} /\ p \in Unbuilt
    <3>1. p \notin Unbuilt' /\ p \in Unbuilt
      BY <1>1, <1>4 DEF Build, Unbuilt, Holds, At, ProjectionTypes, Rebuilding
    <3> QED BY <1>2, <3>1 DEF Unbuilt
  <2>2. IsFiniteSet(Unbuilt') /\ Cardinality(Unbuilt') = Cardinality(Unbuilt) - 1
    BY <1>1, <2>1, FS_RemoveElement
  <2>3. inodes' = inodes + 1 /\ live' = live /\ openings' = openings
    BY <1>4 DEF Build, counts
  <2>4. Unnamed' = Unnamed /\ Unnamed \in 0..1
    BY <2>3 DEF Unnamed
  <2> QED BY <1>1, <2>2, <2>3, <2>4 DEF InodesCounted, ProjectionTypes
<1>5. CASE ~StartPass(p) /\ ~Build(p)
  <2>1. p \in Unbuilt' => p \in Unbuilt
    <3> SUFFICES ASSUME p \in Unbuilt' PROVE p \in Unbuilt
      OBVIOUS
    <3> USE <1>1 DEF Unbuilt, Holds, At, ProjectionTypes, Rebuilding, Sole
    <3>1. CASE StartRead(p) \/ TakeLock(p) \/ Lease(p) \/ Connect(p)
      BY <3>1 DEF StartRead, TakeLock, Lease, Connect
    <3>2. CASE GiveUp(p) \/ Close(p) \/ Raised(p) \/ ProcessDies(p)
      BY <3>2 DEF GiveUp, Close, Raised, ProcessDies, Leave
    <3>3. CASE RebuildRequired(p) \/ Upgrade(p) \/ Checkpoint(p)
      BY <3>3 DEF RebuildRequired, Upgrade, Checkpoint
    <3>4. CASE RemoveSidecars(p) \/ Replace(p) \/ Reconnect(p) \/ StartAnew(p)
      BY <3>4 DEF RemoveSidecars, Replace, Reconnect, StartAnew
    <3>5. CASE FallBack(p) \/ RebuildFails(p) \/ \E r \in Rows : Commit(p, r)
      BY <3>5 DEF FallBack, RebuildFails, Commit
    <3> QED BY <1>5, <3>1, <3>2, <3>3, <3>4, <3>5 DEF ProjectionStep, GoesOn
  <2>2. Unbuilt' \subseteq Unbuilt
    BY <1>2, <2>1 DEF Unbuilt
  <2>3. /\ IsFiniteSet(Unbuilt') /\ Cardinality(Unbuilt') <= Cardinality(Unbuilt)
        /\ Cardinality(Unbuilt') \in Nat
    BY <1>1, <2>2, FS_Subset, FS_CardinalityType
  <2>4. openings <= openings'
    BY <1>1, NamesMove DEF ProjectionTypes
  <2>5. inodes' + Unnamed' <= inodes + Unnamed /\ Unnamed \in 0..1 /\ Unnamed' \in 0..1
    <3>1. CASE Connect(p) /\ live = 0
      <4>1. inodes' = inodes + 1 /\ live' = inodes' /\ inodes \in Nat
        BY <1>1, <3>1, NamesMove DEF ProjectionTypes
      <4>2. Unnamed = 1 /\ Unnamed' = 0
        BY <3>1, <4>1 DEF Unnamed
      <4> QED BY <4>1, <4>2
    <3>2. CASE ~(Connect(p) /\ live = 0)
      <4>1. inodes' = inodes /\ live' \in {live, candidate}
        BY <1>1, <1>5, <3>2, NamesMove
      <4>2. Replace(p) => live' # 0
        BY <1>1 DEF Replace, At, ProjectionInv, ProcsInv, Connects
      <4>3. ~Replace(p) => live' = live \/ live' # 0
        <5>1. CASE Connect(p)
          BY <3>2, <5>1 DEF Connect
        <5>2. CASE UNCHANGED live
          BY <5>2
        <5> QED BY <1>5, <5>1, <5>2 DEF ProjectionStep, GoesOn, StartRead, GiveUp, TakeLock, Lease,
               Close, RebuildRequired, Upgrade, Checkpoint, RemoveSidecars, Reconnect, StartAnew,
               FallBack, Raised, Commit, RebuildFails, ProcessDies, names
      <4>4. \/ Unnamed = 0 /\ Unnamed' = 0
            \/ Unnamed = 1 /\ Unnamed' = 0
            \/ Unnamed = 1 /\ Unnamed' = 1
        BY <4>2, <4>3 DEF Unnamed
      <4>5. inodes \in Nat
        BY <1>1 DEF ProjectionTypes
      <4> QED BY <4>1, <4>4, <4>5
    <3> QED BY <3>1, <3>2
  <2>6. /\ inodes \in Nat /\ inodes' \in Nat /\ openings \in Nat /\ openings' \in Nat
        /\ inodes + Cardinality(Unbuilt) + Unnamed <= openings + 1
    BY <1>1, ProjectionAssumption DEF ProjectionTypes, InodesCounted
  <2> DEFINE many == Cardinality(Unbuilt)
             fewer == Cardinality(Unbuilt')
  <2>7. many \in Nat /\ fewer \in Nat /\ fewer <= many
    BY <1>1, <2>3
  <2> HIDE DEF many, fewer
  <2>8. inodes' + fewer + Unnamed' <= openings' + 1
    <3>1. /\ inodes' + Unnamed' <= inodes + Unnamed /\ inodes + many + Unnamed <= openings + 1
          /\ fewer <= many /\ openings <= openings'
      BY <2>4, <2>5, <2>6, <2>7 DEF many
    <3>2. Unnamed \in Int /\ Unnamed' \in Int
      BY <2>5
    <3> QED BY <2>6, <2>7, <3>1, <3>2, Fewer
  <2> QED BY <2>3, <2>8 DEF InodesCounted, fewer
<1> QED BY <1>3, <1>4, <1>5

\* The names are of inodes that the model has.
LEMMA InodesWithin ==
    ASSUME ProjectionTypes, InodesCounted
    PROVE  1..inodes \subseteq Inodes /\ (live = 0 => inodes + 1 \in Inodes)
<1>1. Cardinality(Unbuilt) \in Nat
  BY FS_CardinalityType DEF InodesCounted
<1> QED BY <1>1, ProjectionAssumption DEF ProjectionTypes, InodesCounted, Inodes, Unnamed

-----------------------------------------------------------------------------
(* The rows *)

Sealed == \A p \in Procs : doing[p] = "sealed" => wal[live] = {}
RowsKept ==
    /\ \A n \in Inodes : n > inodes => Blank(n)
    /\ candidate # 0 => candidate # live /\ Blank(candidate)
    /\ live # 0 => file[live] \cup wal[live] = committed[live]

\* SQLite's log moves into the file, with the last connection or at a checkpoint.
LEMMA FoldKeeps ==
    ASSUME ProjectionInv, live # 0, UNCHANGED <<names, committed>>,
           file' = [file EXCEPT ![live] = @ \cup wal[live]],
           wal' = [wal EXCEPT ![live] = {}]
    PROVE  RowTypes' /\ RowsKept' /\ wal'[live'] = {}
<1>1. /\ RowTypes /\ RowsInv /\ live \in Inodes /\ inodes \in Nat /\ live <= inodes
      /\ candidate \in 0..inodes /\ 1..inodes \subseteq Inodes
  BY InodesWithin DEF ProjectionInv, ProjectionTypes
<1>2. RowTypes'
  BY <1>1 DEF RowTypes
<1>3. /\ file'[live] = file[live] \cup wal[live] /\ wal'[live] = {}
      /\ \A n \in Inodes \ {live} : file'[n] = file[n] /\ wal'[n] = wal[n]
  BY <1>1 DEF RowTypes
<1>4. candidate # 0 => candidate \in Inodes
  BY <1>1
<1>5. \A n \in Inodes : n > inodes => n # live
  BY <1>1 DEF Inodes
<1> QED BY <1>1, <1>2, <1>3, <1>4, <1>5 DEF RowsInv, RowsKept, Blank, names

\* While a name is sealed nobody else is connected.
LEMMA SealedAlone ==
    ASSUME ProjectionInv, NEW p \in Procs, conn[p] # 0, NEW q \in Procs, doing[q] = "sealed"
    PROVE  FALSE
<1>1. ProcsInv /\ ProjectionTypes
  BY DEF ProjectionInv
<1>2. conn[q] = 0
  BY <1>1 DEF ProcsInv, Connects
<1> QED BY <1>1, <1>2, AloneConnected DEF Sole

\* A step that no process is sealed by
LEMMA NotSealing ==
    ASSUME ProjectionInv, NEW p \in Procs, MovesOnly(p), doing'[p] # "sealed",
           wal'[live'] = wal[live]
    PROVE  Sealed'
  BY DEF Sealed, ProjectionInv, RowsInv, MovesOnly, ProjectionTypes

\* The last connection may have been this one.
LEMMA FoldedKeeps ==
    ASSUME ProjectionInv, NEW p \in Procs, MovesOnly(p), Folded(p), UNCHANGED <<names, committed>>,
           doing'[p] # "sealed"
    PROVE  RowTypes' /\ RowsInv'
<1>1. CASE conn[p] # 0 /\ Connected(conn[p]) = {p}
  <2>1. conn[p] = live
    BY <1>1 DEF ProjectionInv, ProcsInv, Connects
  <2>2. RowTypes' /\ RowsKept'
    BY <1>1, <2>1, FoldKeeps DEF Folded
  <2>3. \A q \in Procs : doing'[q] # "sealed"
    BY <1>1, SealedAlone DEF MovesOnly, ProjectionInv, ProjectionTypes
  <2> QED BY <2>2, <2>3 DEF RowsKept, RowsInv
<1>2. CASE ~(conn[p] # 0 /\ Connected(conn[p]) = {p})
  <2>1. UNCHANGED <<file, wal, committed, live, candidate, inodes>>
    BY <1>2 DEF Folded, names
  <2>2. Sealed'
    BY <2>1, NotSealing
  <2> QED BY <2>1, <2>2 DEF ProjectionInv, RowTypes, RowsInv, Blank, Sealed
<1> QED BY <1>1, <1>2

LEMMA RowsKeep ==
    ASSUME ProjectionInv, NEW p \in Procs, ProjectionStep(p)
    PROVE  RowTypes' /\ RowsInv'
<1>1. /\ ProjectionTypes /\ MovesOnly(p) /\ RowTypes /\ RowsInv /\ InodesCounted
      /\ Holds(p) /\ Connects(p) /\ Alone(p) /\ InodesCounted' /\ ProjectionTypes'
      /\ inodes \in Nat /\ live \in 0..inodes /\ candidate \in 0..inodes
      /\ 1..inodes \subseteq Inodes
  BY EachMovesOnly, TypesKeep, CountKeeps, InodesWithin
     DEF ProjectionInv, ProjectionStep, ProcsInv, ProjectionTypes
<1>2. CASE \/ StartPass(p) \/ StartRead(p) \/ TakeLock(p) \/ GiveUp(p) \/ Lease(p) \/ Upgrade(p)
           \/ Reconnect(p) \/ FallBack(p) \/ ProcessDies(p)
  <2>1. UNCHANGED <<names, contents>> /\ doing'[p] # "sealed"
    BY <1>1, <1>2 DEF StartPass, StartRead, TakeLock, GiveUp, Lease, Upgrade, Reconnect, FallBack,
              ProcessDies, Leave, At, ProjectionTypes
  <2>2. Sealed'
    BY <1>1, <2>1, NotSealing DEF names, contents
  <2> QED BY <1>1, <2>1, <2>2 DEF RowTypes, RowsInv, Blank, Sealed, names, contents
<1>3. CASE Connect(p)
  <2>1. UNCHANGED <<contents, candidate>> /\ doing'[p] # "sealed" /\ doing[p] = "leased"
    BY <1>1, <1>3 DEF Connect, At, ProjectionTypes
  <2>2. \A q \in Procs : doing[q] # "sealed"
    <3>1. lease[p] # "none"
      BY <1>1, <2>1 DEF Holds, Sole
    <3>2. doing[p] # "sealed"
      BY <2>1
    <3> QED BY <1>1, <3>1, <3>2, AloneConnected DEF Sole, ProjectionInv
  <2>3. \A q \in Procs : doing'[q] # "sealed"
    BY <1>1, <2>1, <2>2 DEF MovesOnly, ProjectionTypes
  <2>4. CASE live = 0
    <3>1. inodes' = inodes + 1 /\ live' = inodes + 1 /\ inodes + 1 \in Inodes
      BY <1>1, <1>3, <2>4, InodesWithin DEF Connect
    <3>2. Blank(inodes + 1)
      BY <1>1, <3>1 DEF RowsInv
    <3>3. \A n \in Inodes : Blank(n)' <=> Blank(n)
      BY <2>1 DEF Blank, contents
    <3>4. /\ \A n \in Inodes : n > inodes' => Blank(n)'
          /\ candidate' # 0 => candidate' # live' /\ candidate' \in Inodes /\ Blank(candidate)
      BY <1>1, <2>1, <3>1, <3>3 DEF RowsInv, Inodes
    <3>5. file'[live'] \cup wal'[live'] = committed'[live']
      BY <2>1, <3>1, <3>2 DEF Blank, contents
    <3>6. RowTypes'
      BY <1>1, <2>1 DEF RowTypes, contents
    <3> QED BY <2>1, <2>3, <3>3, <3>4, <3>5, <3>6 DEF RowsInv
  <2>5. CASE live # 0
    <3>1. UNCHANGED <<inodes, live>>
      BY <1>3, <2>5 DEF Connect
    <3> QED BY <1>1, <2>1, <2>3, <3>1 DEF RowTypes, RowsInv, Blank, contents
  <2> QED BY <2>4, <2>5
<1>4. CASE Build(p)
  <2>1. /\ inodes' = inodes + 1 /\ candidate' = inodes + 1 /\ live' = live /\ UNCHANGED contents
        /\ doing'[p] # "sealed"
    BY <1>1, <1>4 DEF Build, At, ProjectionTypes
  <2>2. inodes + 1 \in Inodes
    <3>1. Cardinality(Unbuilt') \in Nat /\ Unnamed' \in 0..1
      BY <1>1, FS_CardinalityType DEF InodesCounted, Unnamed
    <3> QED BY <1>1, <2>1, <3>1, ProjectionAssumption
            DEF InodesCounted, ProjectionTypes, Inodes
  <2>3. Blank(inodes + 1)
    BY <1>1, <2>2 DEF RowsInv
  <2>4. Sealed'
    BY <1>1, <2>1, NotSealing DEF contents
  <2>5. \A n \in Inodes : Blank(n)' <=> Blank(n)
    BY <2>1 DEF Blank, contents
  <2>6. /\ \A n \in Inodes : n > inodes' => Blank(n)'
        /\ candidate' # live' /\ (Blank(candidate))'
    BY <1>1, <2>1, <2>2, <2>3, <2>5 DEF RowsInv, Inodes
  <2>7. RowTypes' /\ (live' # 0 => file'[live'] \cup wal'[live'] = committed'[live'])
    BY <1>1, <2>1 DEF RowTypes, RowsInv, contents
  <2> QED BY <2>4, <2>6, <2>7 DEF RowsInv, Sealed
<1>5. CASE RebuildFails(p)
  <2>1. /\ UNCHANGED <<inodes, live, contents>> /\ candidate' = 0 /\ doing'[p] # "sealed"
    BY <1>1, <1>5 DEF RebuildFails, At, ProjectionTypes
  <2>2. Sealed'
    BY <1>1, <2>1, NotSealing DEF contents
  <2> QED BY <1>1, <2>1, <2>2 DEF RowTypes, RowsInv, Blank, contents, Sealed
<1>6. CASE Replace(p)
  <2>1. /\ UNCHANGED <<inodes, contents>> /\ live' = candidate /\ candidate' = 0
        /\ doing'[p] = "replaced" /\ doing[p] = "bare"
    BY <1>1, <1>6 DEF Replace, At, ProjectionTypes
  <2>2. \A q \in Procs \ {p} : doing'[q] # "sealed"
    BY <1>1, <2>1, OneRebuilds DEF MovesOnly, ProjectionTypes, ProjectionInv, Rebuilding, Sole
  <2>3. \A q \in Procs : doing'[q] # "sealed"
    BY <2>1, <2>2
  <2> QED BY <1>1, <2>1, <2>3 DEF RowTypes, RowsInv, Blank, contents
<1>7. CASE \E r \in Rows : Commit(p, r)
  <2>1. PICK r \in Rows : /\ doing[p] = "open"
                          /\ wal' = [wal EXCEPT ![conn[p]] = @ \cup {r}]
                          /\ committed' = [committed EXCEPT ![conn[p]] = @ \cup {r}]
                          /\ UNCHANGED <<doing, names, file>>
    BY <1>7 DEF Commit
  <2>2. conn[p] = live /\ live # 0 /\ live \in Inodes
    BY <1>1, <2>1 DEF Connects
  <2>3. \A q \in Procs : doing'[q] # "sealed"
    BY <2>1, <2>2, SealedAlone
  <2>4. /\ wal'[live] = wal[live] \cup {r} /\ committed'[live] = committed[live] \cup {r}
        /\ \A n \in Inodes \ {live} : wal'[n] = wal[n] /\ committed'[n] = committed[n]
    BY <1>1, <2>1, <2>2 DEF RowTypes
  <2>5. /\ candidate # 0 => candidate \in Inodes
        /\ \A n \in Inodes : n > inodes => n # live
    BY <1>1 DEF Inodes
  <2>6. RowTypes'
    BY <1>1, <2>1 DEF RowTypes
  <2>7. UNCHANGED <<names, file>>
    BY <2>1
  <2>8. (\A n \in Inodes : n > inodes => Blank(n))'
    BY <1>1, <2>2, <2>4, <2>5, <2>7 DEF RowsInv, Blank, names
  <2>9. (candidate # 0 => candidate # live /\ Blank(candidate))'
    BY <1>1, <2>4, <2>5, <2>7 DEF RowsInv, Blank, names
  <2>10. (live # 0 => file[live] \cup wal[live] = committed[live])'
    BY <1>1, <2>2, <2>4, <2>7 DEF RowsInv, names
  <2> QED BY <2>3, <2>6, <2>8, <2>9, <2>10, Zenon DEF RowsInv
<1>8. CASE Close(p) \/ RebuildRequired(p) \/ StartAnew(p) \/ Raised(p)
  <2>1. Folded(p) /\ UNCHANGED <<names, committed>> /\ doing'[p] # "sealed"
    BY <1>1, <1>8 DEF Close, RebuildRequired, StartAnew, Raised, Leave, At, ProjectionTypes
  <2> QED BY <1>1, <2>1, FoldedKeeps
<1>9. CASE Checkpoint(p)
  <2>1. /\ conn[p] = live /\ live # 0 /\ UNCHANGED <<names, committed>>
        /\ file' = [file EXCEPT ![live] = @ \cup wal[live]]
        /\ wal' = [wal EXCEPT ![live] = {}]
    <3>1. doing[p] = "exclusive"
      BY <1>9 DEF Checkpoint, At
    <3>2. conn[p] = live /\ live # 0
      BY <1>1, <3>1 DEF Connects
    <3> QED BY <1>9, <3>2 DEF Checkpoint
  <2>2. RowTypes' /\ RowsKept' /\ wal'[live'] = {}
    BY <2>1, FoldKeeps
  <2> QED BY <2>2 DEF RowsKept, RowsInv
<1>10. CASE RemoveSidecars(p)
  <2>1. /\ doing[p] = "sealed" /\ doing'[p] = "bare" /\ UNCHANGED <<names, file, committed>>
        /\ wal' = [wal EXCEPT ![live] = {}]
    BY <1>1, <1>10 DEF RemoveSidecars, At, ProjectionTypes
  <2>2. wal[live] = {} /\ RowTypes'
    BY <1>1, <2>1 DEF RowsInv, RowTypes
  <2>3. wal' = wal
    BY <1>1, <2>1, <2>2 DEF RowTypes
  <2>4. Sealed'
    BY <1>1, <2>1, <2>3, NotSealing DEF names
  <2> QED BY <1>1, <2>1, <2>2, <2>3, <2>4 DEF RowsInv, Blank, names, Sealed
<1> QED BY <1>2, <1>3, <1>4, <1>5, <1>6, <1>7, <1>8, <1>9, <1>10 DEF ProjectionStep, GoesOn

\* Whoever is connected, for any number of processes that open, rebuild, fail and die in any order,
\* is connected to the database that has the name, and no committed row of it is lost.
THEOREM AlwaysOneDatabase == ProjectionSpec => []OneDatabase
<1>1. ProjectionInit => ProjectionInv
  <2> SUFFICES ASSUME ProjectionInit PROVE ProjectionInv
    OBVIOUS
  <2>1. ProjectionTypes /\ RowTypes /\ RowsInv
    BY ProjectionAssumption DEF ProjectionInit, ProjectionTypes, RowTypes, RowsInv, Blank, Doings
  <2>2. ProcsInv
    BY DEF ProjectionInit, ProcsInv, Holds, Connects, Alone, Rebuilding, Sole
  <2>3. Unbuilt = {} /\ Unnamed = 1
    BY DEF ProjectionInit, Unbuilt, Unnamed
  <2>4. InodesCounted
    BY <2>3, FS_EmptySet DEF ProjectionInit, InodesCounted
  <2> QED BY <2>1, <2>2, <2>4 DEF ProjectionInv
<1>2. ProjectionInv /\ [ProjectionNext]_projectionVars => ProjectionInv'
  <2> SUFFICES ASSUME ProjectionInv, [ProjectionNext]_projectionVars PROVE ProjectionInv'
    OBVIOUS
  <2>1. CASE UNCHANGED projectionVars
    <3> USE <2>1 DEF projectionVars, ProjectionInv, names, contents, counts
    <3>1. ProjectionTypes' /\ RowTypes' /\ ProcsInv'
      BY DEF ProjectionTypes, RowTypes, ProcsInv, Holds, Connects, Alone
    <3>2. RowsInv'
      BY DEF RowsInv, Blank
    <3>3. Unbuilt' = Unbuilt /\ Unnamed' = Unnamed
      BY DEF Unbuilt, Unnamed
    <3>4. InodesCounted'
      BY <3>3 DEF InodesCounted
    <3> QED BY <3>1, <3>2, <3>4
  <2>2. ASSUME NEW p \in Procs, ProjectionStep(p) PROVE ProjectionInv'
    <3>1. ProcsInv'
      BY <2>2, StartsKeep, OpensKeep, RebuildsKeep, LeavesKeep DEF ProjectionStep, GoesOn
    <3> QED BY <2>2, <3>1, TypesKeep, CountKeeps, RowsKeep DEF ProjectionInv
  <2> QED BY <2>1, <2>2 DEF ProjectionNext, ProjectionStep
<1>3. ProjectionInv => OneDatabase
  BY DEF ProjectionInv, ProcsInv, Connects, RowsInv, OneDatabase
<1> QED BY <1>1, <1>2, <1>3, PTL DEF ProjectionSpec

-----------------------------------------------------------------------------
(* The work notes.  A publication works on the revision after the current  *)
(* one and a deletion on a note that has left the index, so no step but    *)
(* that of the index changes what the index names; and each step of the    *)
(* index is a new generation, which the reflection kept is not of.         *)

MaybeText == Texts \cup {NoText}
Entry == [text : MaybeText, record : MaybeText, creation : MaybeText]
Publishing == {"clear", "text", "record", "index"}

NotesTypes ==
    /\ heads \in [Keys -> 0..MaxRevision] /\ generation \in Nat
    /\ notes \in [Keys -> [Revisions -> Entry]]
    /\ told \in [Keys -> [revision : 0..MaxRevision, text : MaybeText]]
    /\ reflection = [generation |-> reflection.generation, notes |-> reflection.notes]
    /\ reflection.generation \in 0..generation

WriterInv ==
    /\ writer = [step |-> writer.step, key |-> writer.key, revision |-> writer.revision,
                 text |-> writer.text, creation |-> writer.creation]
    /\ writer.step \in Publishing \cup {"idle", "unlink", "forget", "remove"}
    /\ writer.step # "idle" => writer.key \in Keys
    /\ writer.step \in Publishing \cup {"unlink"} =>
          /\ writer.revision \in Revisions /\ writer.text \in Texts /\ writer.creation \in MaybeText
    /\ writer.step \in Publishing => writer.revision = heads[writer.key] + 1
    /\ writer.step = "index" => /\ notes[writer.key][writer.revision].text = writer.text
                                /\ notes[writer.key][writer.revision].record = writer.text
    /\ writer.step = "unlink" => /\ heads[writer.key] = writer.revision
                                 /\ notes[writer.key][writer.revision].text = writer.text
    /\ writer.step \in {"forget", "remove"} => heads[writer.key] = 0

RecordsInv ==
    \A k \in Keys, r \in Revisions :
        notes[k][r].record # NoText => <<k, r, notes[k][r].record>> \in recorded

ReaderInv ==
    /\ reader = [step |-> reader.step, key |-> reader.key, revision |-> reader.revision,
                 text |-> reader.text]
    /\ reader.step = "record" => reader.key \in Keys /\ reader.revision \in Revisions
    /\ reader.step \in {"text", "served"} => <<reader.key, reader.revision, reader.text>> \in recorded

NotesInv ==
    /\ NotesTypes /\ WriterInv /\ RecordsInv /\ ReaderInv /\ NoteIsKept /\ ReflectionIsCurrent

StoredInv == NotesTypes /\ WriterInv /\ RecordsInv /\ NoteIsKept /\ ReflectionIsCurrent

LEMMA ReaderWaits == ASSUME ReaderInv, reader' = reader, recorded \subseteq recorded'
                     PROVE  ReaderInv'
  BY DEF ReaderInv

\* A directory that the index does not name
LEMMA DirectoryKeeps ==
    ASSUME StoredInv, NEW k \in Keys, NEW r \in Revisions, NEW e \in Entry, r # heads[k],
           notes' = [notes EXCEPT ![k][r] = e], UNCHANGED <<heads, generation, reflection, told>>,
           recorded \subseteq recorded', e.record # NoText => <<k, r, e.record>> \in recorded'
    PROVE  /\ NotesTypes' /\ RecordsInv' /\ NoteIsKept' /\ ReflectionIsCurrent'
           /\ notes'[k][r] = e
<1>1. /\ NotesTypes /\ RecordsInv /\ NoteIsKept /\ ReflectionIsCurrent
      /\ notes \in [Keys -> [Revisions -> Entry]] /\ heads \in [Keys -> 0..MaxRevision]
  BY DEF StoredInv, NotesTypes
<1>2. /\ notes' \in [Keys -> [Revisions -> Entry]] /\ notes'[k][r] = e
      /\ \A j \in Keys, q \in Revisions : j # k \/ q # r => notes'[j][q] = notes[j][q]
  BY <1>1
<1>3. \A j \in Keys : heads[j] # 0 => Current(j)' = Current(j)
  <2> SUFFICES ASSUME NEW j \in Keys, heads[j] # 0 PROVE Current(j)' = Current(j)
    OBVIOUS
  <2>1. heads[j] \in Revisions
    BY <1>1, NotesAssumption DEF Revisions
  <2> QED BY <1>2, <2>1 DEF Current
<1>4. Texts_' = Texts_
  BY <1>3 DEF Texts_
<1>5. NotesTypes'
  BY <1>1, <1>2 DEF NotesTypes
<1>6. RecordsInv'
  BY <1>1, <1>2 DEF RecordsInv
<1>7. NoteIsKept'
  BY <1>1, <1>3 DEF NoteIsKept, NotesTypes
<1>8. ReflectionIsCurrent'
  BY <1>1, <1>4 DEF ReflectionIsCurrent, Reuses
<1> QED BY <1>2, <1>5, <1>6, <1>7, <1>8

\* The writer goes on, and nothing that is stored changes.
LEMMA StoreStays ==
    ASSUME StoredInv, UNCHANGED <<index, notes, reflection, observed>>
    PROVE  NotesTypes' /\ RecordsInv' /\ NoteIsKept' /\ ReflectionIsCurrent'
<1>1. Texts_' = Texts_ /\ \A k \in Keys : Current(k)' = Current(k)
  BY DEF Texts_, Current, index
<1> QED BY <1>1 DEF StoredInv, NotesTypes, RecordsInv, NoteIsKept, ReflectionIsCurrent, Reuses,
                    index, observed

LEMMA AbsentIsEntry == Absent \in Entry /\ Absent.record = NoText
  BY DEF Absent, Entry, MaybeText

LEMMA SaveKeeps ==
    ASSUME StoredInv, NEW k \in Keys, NEW text \in Texts, Save(k, text) \/ Correct(k, text)
    PROVE  StoredInv'
<1>1. /\ NotesTypes /\ WriterInv /\ NoteIsKept /\ heads[k] \in 0..MaxRevision
      /\ heads[k] # 0 => Current(k) \in Entry
  BY NotesAssumption DEF StoredInv, NotesTypes, Current, Revisions
<1>2. ASSUME NEW creation \in MaybeText, Publishes(k, heads[k] + 1, text, creation)
      PROVE  StoredInv'
  <2>1. /\ writer' = [step |-> "clear", key |-> k, revision |-> heads[k] + 1, text |-> text,
                      creation |-> creation]
        /\ heads[k] + 1 \in Revisions /\ UNCHANGED <<index, notes, reflection, observed>>
    BY <1>2 DEF Publishes
  <2>2. WriterInv'
    BY <2>1 DEF WriterInv, Publishing, index
  <2> QED BY <2>1, <2>2, StoreStays DEF StoredInv
<1>3. CASE heads[k] = 0 /\ Publishes(k, 1, text, text)
  BY <1>2, <1>3 DEF MaybeText
<1>4. CASE /\ heads[k] # 0
           /\ told' = [told EXCEPT ![k] = [revision |-> heads[k], text |-> Current(k).record]]
           /\ UNCHANGED <<index, notes, reflection, writer, reader, recorded, deaths>>
  <2>1. Current(k).record \in MaybeText /\ Current(k).text = Current(k).record
    BY <1>1, <1>4 DEF Entry, NoteIsKept
  <2>2. NotesTypes'
    BY <1>1, <1>4, <2>1 DEF NotesTypes, index
  <2>3. /\ told'[k] = [revision |-> heads[k], text |-> Current(k).record]
        /\ \A j \in Keys \ {k} : told'[j] = told[j]
    BY <1>1, <1>4 DEF NotesTypes
  <2>4. Texts_' = Texts_ /\ \A j \in Keys : Current(j)' = Current(j)
    BY <1>4 DEF Texts_, Current, index
  <2>5. NoteIsKept'
    BY <1>1, <1>4, <2>1, <2>3, <2>4 DEF NoteIsKept, index, NotesTypes
  <2>6. WriterInv' /\ RecordsInv' /\ ReflectionIsCurrent'
    BY <1>4, <2>4 DEF StoredInv, WriterInv, RecordsInv, ReflectionIsCurrent, Reuses, index
  <2> QED BY <2>2, <2>5, <2>6 DEF StoredInv
<1>5. CASE Correct(k, text)
  <2>1. Current(k).creation \in MaybeText
    BY <1>1, <1>5 DEF Correct, Entry
  <2> QED BY <1>2, <1>5, <2>1 DEF Correct
<1> QED BY <1>3, <1>4, <1>5 DEF Save

LEMMA WritesKeep == ASSUME StoredInv, Clear \/ WriteText \/ WriteRecord PROVE StoredInv'
<1> DEFINE k == writer.key
           r == writer.revision
<1>1. /\ NotesTypes /\ WriterInv /\ writer.step \in Publishing
      /\ k \in Keys /\ r \in Revisions /\ writer.text \in Texts /\ writer.creation \in MaybeText
      /\ r = heads[k] + 1 /\ heads[k] \in Nat
  BY DEF StoredInv, WriterInv, NotesTypes, Publishing, Clear, WriteText, WriteRecord, Step
<1>2. r # heads[k]
  BY <1>1
<1>3. CASE Clear
  <2>1. /\ writer' = [writer EXCEPT !.step = "text"] /\ notes' = [notes EXCEPT ![k][r] = Absent]
        /\ UNCHANGED <<index, reflection, observed>>
    BY <1>3 DEF Clear, Step, Directory
  <2>2. NotesTypes' /\ RecordsInv' /\ NoteIsKept' /\ ReflectionIsCurrent'
    BY <1>1, <1>2, <2>1, AbsentIsEntry, DirectoryKeeps DEF index, observed
  <2>3. WriterInv'
    BY <1>1, <2>1 DEF WriterInv, Publishing, index
  <2> QED BY <2>2, <2>3 DEF StoredInv
<1>4. CASE WriteText
  <2> DEFINE e == [Absent EXCEPT !.text = writer.text]
  <2>1. /\ writer' = [writer EXCEPT !.step = "record"] /\ notes' = [notes EXCEPT ![k][r] = e]
        /\ UNCHANGED <<index, reflection, observed>>
    BY <1>4 DEF WriteText, Step, Directory
  <2>2. e \in Entry /\ e.record = NoText
    BY <1>1 DEF Absent, Entry, MaybeText
  <2> HIDE DEF e
  <2>3. NotesTypes' /\ RecordsInv' /\ NoteIsKept' /\ ReflectionIsCurrent'
    BY <1>1, <1>2, <2>1, <2>2, DirectoryKeeps DEF index, observed
  <2>4. WriterInv'
    BY <1>1, <2>1 DEF WriterInv, Publishing, index
  <2> QED BY <2>3, <2>4 DEF StoredInv
<1>5. CASE WriteRecord
  <2> DEFINE e == [text |-> writer.text, record |-> writer.text, creation |-> writer.creation]
  <2>1. /\ writer' = [writer EXCEPT !.step = "index"] /\ notes' = [notes EXCEPT ![k][r] = e]
        /\ recorded' = recorded \cup {<<k, r, writer.text>>}
        /\ UNCHANGED <<index, reflection, told>>
    BY <1>5 DEF WriteRecord, Step, Directory
  <2>2. e \in Entry /\ e.record = writer.text /\ e.text = writer.text
    BY <1>1 DEF Entry, MaybeText
  <2> HIDE DEF e
  <2>3. NotesTypes' /\ RecordsInv' /\ NoteIsKept' /\ ReflectionIsCurrent' /\ notes'[k][r] = e
    BY <1>1, <1>2, <2>1, <2>2, DirectoryKeeps DEF index
  <2>4. WriterInv'
    BY <1>1, <2>1, <2>2, <2>3 DEF WriterInv, Publishing, index
  <2> QED BY <2>3, <2>4 DEF StoredInv
<1> QED BY <1>3, <1>4, <1>5

\* What the index names anew is whole, and no reflection is of the new generation.
LEMMA IndexKeeps == ASSUME StoredInv, WriteIndex \/ (\E k \in Keys : Delete(k)) PROVE StoredInv'
<1>1. NotesTypes /\ WriterInv /\ NoteIsKept /\ RecordsInv
  BY DEF StoredInv
<1>2. generation' = generation + 1 /\ UNCHANGED <<notes, reflection, recorded>>
  BY DEF WriteIndex, Delete, observed
<1>3. ReflectionIsCurrent'
  BY <1>1, <1>2 DEF NotesTypes, ReflectionIsCurrent, Reuses
<1>4. RecordsInv'
  BY <1>1, <1>2 DEF RecordsInv
<1>5. CASE WriteIndex
  <2> DEFINE k == writer.key
             r == writer.revision
  <2>1. /\ writer.step = "index" /\ k \in Keys /\ r \in Revisions /\ writer.text \in Texts
        /\ r = heads[k] + 1 /\ heads[k] \in 0..MaxRevision
        /\ notes[k][r].text = writer.text /\ notes[k][r].record = writer.text
        /\ writer' = [writer EXCEPT !.step = "unlink"]
        /\ heads' = [heads EXCEPT ![k] = r] /\ UNCHANGED told
    BY <1>1, <1>5 DEF WriteIndex, Step, WriterInv, Publishing, NotesTypes, observed
  <2>2. /\ heads'[k] = r /\ \A j \in Keys \ {k} : heads'[j] = heads[j]
        /\ heads' \in [Keys -> 0..MaxRevision]
    BY <1>1, <2>1, NotesAssumption DEF NotesTypes, Revisions
  <2>3. NotesTypes'
    BY <1>1, <1>2, <2>1, <2>2 DEF NotesTypes
  <2>4. NoteIsKept'
    <3> SUFFICES ASSUME NEW j \in Keys
                 PROVE  /\ heads'[j] # 0 => /\ Current(j)'.record # NoText
                                            /\ Current(j)'.text = Current(j)'.record
                        /\ told'[j].revision <= heads'[j]
                        /\ told'[j].revision # 0 /\ told'[j].revision = heads'[j]
                           => Current(j)'.text = told'[j].text
      BY DEF NoteIsKept
    <3>1. CASE j = k
      <4>1. Current(j)' = notes[k][r] /\ heads'[j] = r
        BY <1>2, <2>2, <3>1 DEF Current
      <4>2. told'[j].revision <= heads[k] /\ told'[j].revision \in Nat
        BY <1>1, <2>1, <3>1 DEF NoteIsKept, NotesTypes
      <4> QED BY <2>1, <4>1, <4>2, NotesAssumption
    <3>2. CASE j # k
      <4>1. Current(j)' = Current(j) /\ heads'[j] = heads[j]
        BY <1>2, <2>2, <3>2 DEF Current
      <4> QED BY <1>1, <2>1, <4>1 DEF NoteIsKept
    <3> QED BY <3>1, <3>2
  <2>5. WriterInv'
    BY <1>1, <1>2, <2>1, <2>2 DEF WriterInv, Publishing
  <2> QED BY <1>3, <1>4, <2>3, <2>4, <2>5 DEF StoredInv
<1>6. ASSUME NEW k \in Keys, Delete(k) PROVE StoredInv'
  <2>1. /\ writer' = [NoWriter EXCEPT !.step = "forget", !.key = k]
        /\ heads' = [heads EXCEPT ![k] = 0] /\ told' = [told EXCEPT ![k] = NothingTold]
    BY <1>6 DEF Delete
  <2>2. /\ heads'[k] = 0 /\ \A j \in Keys \ {k} : heads'[j] = heads[j]
        /\ heads' \in [Keys -> 0..MaxRevision]
        /\ told'[k] = NothingTold /\ \A j \in Keys \ {k} : told'[j] = told[j]
        /\ told' \in [Keys -> [revision : 0..MaxRevision, text : MaybeText]]
    BY <1>1, <2>1, NotesAssumption DEF NotesTypes, NothingTold, MaybeText
  <2>3. NotesTypes'
    BY <1>1, <1>2, <2>2 DEF NotesTypes
  <2>4. NoteIsKept'
    BY <1>1, <1>2, <2>2 DEF NoteIsKept, NothingTold, Current
  <2>5. WriterInv'
    BY <2>1, <2>2 DEF WriterInv, Publishing, NoWriter
  <2> QED BY <1>3, <1>4, <2>3, <2>4, <2>5 DEF StoredInv
<1> QED BY <1>5, <1>6

LEMMA RepliedKeeps == ASSUME StoredInv, Replied PROVE StoredInv'
<1> DEFINE k == writer.key
           r == writer.revision
<1>1. /\ NotesTypes /\ WriterInv /\ NoteIsKept /\ RecordsInv
      /\ writer.step = "unlink" /\ writer' = NoWriter /\ reflection' = NoReflection
      /\ told' = [told EXCEPT ![k] = [revision |-> r, text |-> writer.text]]
      /\ UNCHANGED <<heads, generation, notes, recorded>>
  BY DEF StoredInv, Replied, index
<1>2. /\ k \in Keys /\ r \in Revisions /\ writer.text \in Texts
      /\ heads[k] = r /\ notes[k][r].text = writer.text
  BY <1>1 DEF WriterInv
<1>3. NotesTypes'
  BY <1>1, <1>2, NotesAssumption DEF NotesTypes, NoReflection, MaybeText, Revisions
<1>4. /\ told'[k] = [revision |-> r, text |-> writer.text]
      /\ \A j \in Keys \ {k} : told'[j] = told[j]
  BY <1>1, <1>2 DEF NotesTypes
<1>5. NoteIsKept'
  <2>1. r <= r
    BY <1>2 DEF Revisions
  <2> QED BY <1>1, <1>2, <1>4, <2>1 DEF NoteIsKept, Current
<1>6. WriterInv' /\ RecordsInv'
  BY <1>1 DEF WriterInv, RecordsInv, NoWriter, Publishing
<1>7. ReflectionIsCurrent'
  BY <1>1 DEF ReflectionIsCurrent, Reuses, NoReflection, NotesTypes
<1> QED BY <1>3, <1>5, <1>6, <1>7 DEF StoredInv

LEMMA RemoveKeeps == ASSUME StoredInv, Forget \/ Remove PROVE StoredInv'
<1>1. NotesTypes /\ WriterInv /\ NoteIsKept /\ RecordsInv /\ ReflectionIsCurrent
  BY DEF StoredInv
<1>2. CASE Forget
  <2>1. /\ writer.step = "forget" /\ writer' = [writer EXCEPT !.step = "remove"]
        /\ reflection' = NoReflection /\ UNCHANGED <<heads, generation, notes, told, recorded>>
    BY <1>2 DEF Forget, Step, index, observed
  <2>2. NotesTypes'
    BY <1>1, <2>1 DEF NotesTypes, NoReflection
  <2>3. WriterInv' /\ RecordsInv' /\ NoteIsKept'
    BY <1>1, <2>1 DEF WriterInv, Publishing, RecordsInv, NoteIsKept, Current
  <2>4. ReflectionIsCurrent'
    BY <2>1 DEF ReflectionIsCurrent, Reuses, NoReflection
  <2> QED BY <2>2, <2>3, <2>4 DEF StoredInv
<1>3. CASE Remove /\ UNCHANGED writer
  <2> DEFINE Left(r) == {[notes[writer.key][r] EXCEPT !.text = NoText],
                         [notes[writer.key][r] EXCEPT !.record = NoText, !.creation = NoText]}
  <2>0. PICK r \in Revisions : \E e \in Left(r) :
            /\ notes' = [notes EXCEPT ![writer.key][r] = e]
            /\ writer.step = "remove" /\ UNCHANGED <<index, reflection, observed>>
    <3>1. writer.step = "remove" /\ NoWriter.step = "idle"
      BY <1>3 DEF Remove, NoWriter
    <3> QED BY <1>3, <3>1 DEF Remove
  <2>1. PICK e \in Left(r) :
            /\ notes' = [notes EXCEPT ![writer.key][r] = e]
            /\ writer.step = "remove" /\ UNCHANGED <<index, reflection, observed>>
    BY <2>0
  <2>2. /\ writer.key \in Keys /\ heads[writer.key] = 0 /\ r # heads[writer.key]
    BY <1>1, <2>1 DEF WriterInv, Revisions
  <2>3. e \in Entry /\ (e.record # NoText => e.record = notes[writer.key][r].record)
    <3>1. notes[writer.key][r] \in Entry
      BY <1>1, <2>2 DEF NotesTypes
    <3> QED BY <3>1 DEF Entry, MaybeText
  <2>4. e.record # NoText => <<writer.key, r, e.record>> \in recorded
    BY <1>1, <2>2, <2>3 DEF RecordsInv
  <2> HIDE DEF StoredInv
  <2>5. NotesTypes' /\ RecordsInv' /\ NoteIsKept' /\ ReflectionIsCurrent'
    BY <2>1, <2>2, <2>3, <2>4, DirectoryKeeps DEF index, observed
  <2>6. WriterInv'
    BY <1>1, <1>3, <2>1 DEF WriterInv, Publishing, index
  <2> QED BY <2>5, <2>6 DEF StoredInv
<1>4. CASE writer' = NoWriter /\ UNCHANGED <<index, notes, reflection, observed>>
  <2>1. WriterInv'
    BY <1>4 DEF WriterInv, NoWriter, Publishing
  <2> QED BY <1>4, <2>1, StoreStays DEF StoredInv
<1> QED BY <1>2, <1>3, <1>4 DEF Remove

LEMMA ReflectKeeps == ASSUME StoredInv, Reflect PROVE StoredInv'
<1>1. /\ NotesTypes /\ WriterInv /\ NoteIsKept /\ RecordsInv
      /\ reflection' = [generation |-> generation, notes |-> Texts_]
      /\ UNCHANGED <<heads, generation, notes, writer, told, recorded>>
  BY DEF StoredInv, Reflect, index, observed
<1>2. NotesTypes'
  BY <1>1 DEF NotesTypes
<1>3. WriterInv' /\ RecordsInv' /\ NoteIsKept'
  BY <1>1 DEF WriterInv, RecordsInv, NoteIsKept, Current
<1>4. ReflectionIsCurrent'
  BY <1>1 DEF ReflectionIsCurrent, Texts_, Current
<1> QED BY <1>2, <1>3, <1>4 DEF StoredInv

LEMMA DiesKeeps == ASSUME StoredInv, Dies PROVE StoredInv'
<1>1. writer' = NoWriter /\ UNCHANGED <<index, notes, reflection, observed>>
  BY DEF Dies
<1>2. WriterInv'
  BY <1>1 DEF WriterInv, NoWriter, Publishing
<1> QED BY <1>1, <1>2, StoreStays DEF StoredInv

\* A reader keeps to what was recorded: what it holds stays recorded whoever deletes the files.
LEMMA ReadsKeep ==
    ASSUME NotesInv, (\E k \in Keys : ReadIndex(k)) \/ ReadRecord \/ ReadText \/ Served
    PROVE  NotesInv'
<1>1. UNCHANGED <<index, notes, reflection, writer, observed>> /\ StoredInv
  BY DEF ReadIndex, ReadRecord, ReadText, Served, NotesInv, StoredInv
<1>2. StoredInv'
  <2>1. WriterInv'
    BY <1>1 DEF StoredInv, WriterInv, index
  <2> QED BY <1>1, <2>1, StoreStays DEF StoredInv
<1> SUFFICES ReaderInv'
  BY <1>2 DEF NotesInv, StoredInv
<1>3. ReaderInv /\ NotesTypes /\ RecordsInv /\ recorded' = recorded
  BY <1>1 DEF NotesInv, observed
<1>4. reader' = NoReader => ReaderInv'
  BY DEF ReaderInv, NoReader
<1>5. ASSUME NEW k \in Keys, ReadIndex(k) PROVE ReaderInv'
  <2>1. heads[k] \in Revisions
    BY <1>3, <1>5, NotesAssumption DEF ReadIndex, NotesTypes, Revisions
  <2> QED BY <1>5, <2>1 DEF ReadIndex, ReaderInv
<1>6. CASE ReadRecord
  <2> DEFINE record == notes[reader.key][reader.revision].record
  <2>1. CASE record = NoText
    BY <1>4, <1>6, <2>1 DEF ReadRecord
  <2>2. CASE record # NoText
    <3>1. /\ reader.key \in Keys /\ reader.revision \in Revisions
          /\ <<reader.key, reader.revision, record>> \in recorded
      BY <1>3, <1>6, <2>2 DEF ReadRecord, ReaderInv, RecordsInv
    <3>2. reader' = [reader EXCEPT !.step = "text", !.text = record]
      BY <1>6, <2>2 DEF ReadRecord
    <3> HIDE DEF record
    <3> QED BY <1>3, <3>1, <3>2 DEF ReaderInv
  <2> QED BY <2>1, <2>2
<1>7. CASE ReadText
  <2> DEFINE text == notes[reader.key][reader.revision].text
  <2>1. CASE ~Verified(text)
    BY <1>4, <1>7, <2>1 DEF ReadText
  <2>2. CASE Verified(text)
    <3>1. /\ reader' = [reader EXCEPT !.step = "served", !.text = text] /\ text = reader.text
          /\ reader.step = "text"
      BY <1>7, <2>2 DEF ReadText, Verified
    <3> HIDE DEF text
    <3> QED BY <1>3, <3>1 DEF ReaderInv
  <2> QED BY <2>1, <2>2
<1>8. CASE Served
  BY <1>4, <1>8 DEF Served
<1> QED BY <1>5, <1>6, <1>7, <1>8

\* A note survives whatever dies, the reflection that is used again is of the notes as they are,
\* and a reader without a lock is served whole notes only: for every number of keys, revisions and
\* deaths, in every interleaving of a writer, what dead writers left, and a reader
\* (WorkMemoryStore).
THEOREM NotesAreAlwaysWhole == NotesSpec => []NotesAreWhole
<1>1. NotesInit => NotesInv
  <2> SUFFICES ASSUME NotesInit PROVE NotesInv
    OBVIOUS
  <2>1. NotesTypes
    BY AbsentIsEntry, NotesAssumption DEF NotesInit, NotesTypes, NoReflection, NothingTold, MaybeText
  <2>2. WriterInv /\ ReaderInv
    BY DEF NotesInit, WriterInv, ReaderInv, NoWriter, NoReader, Publishing
  <2>3. RecordsInv /\ NoteIsKept /\ ReflectionIsCurrent
    BY AbsentIsEntry DEF NotesInit, RecordsInv, NoteIsKept, NothingTold, ReflectionIsCurrent
  <2> QED BY <2>1, <2>2, <2>3 DEF NotesInv
<1>2. NotesInv /\ [NotesNext]_notesVars => NotesInv'
  <2> SUFFICES ASSUME NotesInv, [NotesNext]_notesVars PROVE NotesInv'
    OBVIOUS
  <2>1. StoredInv /\ ReaderInv
    BY DEF NotesInv, StoredInv
  <2>2. CASE \/ \E k \in Keys : Delete(k) \/ \E text \in Texts : Save(k, text) \/ Correct(k, text)
             \/ Clear \/ WriteText \/ WriteRecord \/ WriteIndex \/ Replied
             \/ Forget \/ Remove \/ Reflect \/ Dies
    <3>1. StoredInv'
      BY <2>1, <2>2, SaveKeeps, WritesKeep, IndexKeeps, RepliedKeeps, RemoveKeeps, ReflectKeeps,
         DiesKeeps
    <3>2. reader' = reader /\ recorded \subseteq recorded'
      BY <2>2 DEF Delete, Save, Correct, Publishes, Clear, WriteText, WriteRecord, WriteIndex, Replied,
                  Forget, Remove, Reflect, Dies, observed
    <3> QED BY <2>1, <3>1, <3>2, ReaderWaits DEF NotesInv, StoredInv
  <2>3. CASE (\E k \in Keys : ReadIndex(k)) \/ ReadRecord \/ ReadText \/ Served
    BY <2>3, ReadsKeep
  <2>4. CASE UNCHANGED notesVars
    <3>1. WriterInv' /\ ReaderInv'
      BY <2>1, <2>4 DEF notesVars, index, observed, StoredInv, WriterInv, ReaderInv
    <3> QED BY <2>1, <2>4, <3>1, StoreStays DEF notesVars, NotesInv, StoredInv
  <2> QED BY <2>2, <2>3, <2>4 DEF NotesNext
<1>3. NotesInv => NotesAreWhole
  BY DEF NotesInv, ReaderInv, NotesAreWhole, ServedIsWhole
<1> QED BY <1>1, <1>2, <1>3, PTL DEF NotesSpec

-----------------------------------------------------------------------------
(* The overlay.  Whatever a name has been declared with stays declared, so  *)
(* the node it stands for, or the node added for it, is what one of its     *)
(* declarations means.  Whatever an edge binds to is known, so it is bound  *)
(* to one of these.                                                         *)

OverlayTypes ==
    /\ base = [anchor |-> base.anchor, edges |-> base.edges,
               hyperedges |-> base.hyperedges, directed |-> base.directed]
    /\ base.edges \subseteq BaseIds \X BaseIds /\ base.directed \in BOOLEAN
    /\ added = [anchor |-> added.anchor, edges |-> added.edges,
                hyperedges |-> added.hyperedges]
    /\ fragment = <<fragment[1], fragment[2]>>

\* Nothing added is where the base already has something.
Apart ==
    /\ DOMAIN added.anchor \cap BaseIds = {}
    /\ \A e \in added.edges : \A b \in base.edges :
          e = <<e[1], e[2]>> /\ {b[1], b[2]} # {e[1], e[2]}

\* What a name stands for, and the node added for it, are what a declaration of it means.
Meant(name) ==
    /\ name \in DOMAIN remapped =>
          /\ remapped[name] \in BaseIds
          /\ \E a \in Declarations(name) : Matches(a) = {remapped[name]}
    /\ name \in DOMAIN added.anchor =>
          /\ added.anchor[name] \in Declarations(name)
          /\ Matches(added.anchor[name]) = {}

Meanings ==
    /\ DOMAIN remapped \cap BaseIds = {}
    /\ \A name \in Ids : Meant(name)
    /\ fragment[2] = "nodes" => last = Nothing

OverlayInv == OverlayTypes /\ Apart /\ Meanings /\ AttachesAsNamed /\ NeverRefused

\* A composition starts with nothing added and no name declared.
LEMMA OverlayStart ==
    ASSUME OverlayInit PROVE OverlayInv
  <1>1. /\ base \in [anchor : [BaseIds -> Anchors \cup {NoAnchor}],
                     edges : SUBSET {e \in BaseIds \X BaseIds : e[1] # e[2]},
                     hyperedges : {HyperIds, {}}, directed : BOOLEAN]
        /\ fragment = <<1, "nodes">>
        /\ remapped = <<>> /\ declared = <<>> /\ last = Nothing
        /\ added = [anchor |-> <<>>, edges |-> {}, hyperedges |-> {}]
        /\ outcome = "composing"
    BY DEF OverlayInit
  <1>2. OverlayTypes
    BY <1>1 DEF OverlayTypes
  <1>3. Apart
    BY <1>1 DEF Apart
  <1>4. Meanings
    BY <1>1 DEF Meanings, Meant, Nothing
  <1>5. AttachesAsNamed /\ NeverRefused
    BY <1>1 DEF AttachesAsNamed, NeverRefused, Nothing
  <1> QED  BY <1>2, <1>3, <1>4, <1>5 DEF OverlayInv

\* A step that changes neither what is composed nor what the names mean; the phase may go on.
LEMMA OverlayFrame ==
    ASSUME OverlayInv, UNCHANGED <<base, remapped, added, declared, last, outcome>>,
           fragment' = <<fragment'[1], fragment'[2]>>,
           fragment'[2] = "nodes" => fragment[2] = "nodes"
    PROVE  OverlayInv'
  <1> USE DEF OverlayInv
  <1>1. OverlayTypes' /\ Apart'
    BY DEF OverlayTypes, Apart
  <1>2. \A a : (Matches(a))' = Matches(a)
    BY DEF Matches
  <1>3. Meanings'
    <2>1. \A name \in Ids : Meant(name)'
      BY <1>2 DEF Meanings, Meant, Declarations
    <2> QED  BY <2>1 DEF Meanings, Nothing
  <1>4. AttachesAsNamed'
    BY <1>2 DEF AttachesAsNamed, AsNamed, MeansBy, Declarations
  <1>5. NeverRefused'
    BY DEF NeverRefused
  <1> QED  BY <1>1, <1>3, <1>4, <1>5

\* A set of the base's nodes that _plan_overlay_additions takes for one node has one element.
LEMMA MatchedOnce ==
    ASSUME NEW anchor, Remaps(Matches(anchor))
    PROVE  LET b == CHOOSE b \in Matches(anchor) : TRUE
           IN  b \in BaseIds /\ Matches(anchor) = {b}
  <1> DEFINE M == Matches(anchor)
             b == CHOOSE x \in M : TRUE
  <1>1. M \subseteq BaseIds /\ IsFiniteSet(BaseIds)
    BY OverlayAssumption DEF Matches, OverlayAssumption
  <1>2. IsFiniteSet(M)
    BY <1>1, FS_Subset
  <1>3. Cardinality(M) = 1
    BY DEF Remaps
  <1> HIDE DEF M
  <1>4. PICK x : M = {x}
    BY <1>2, <1>3, FS_Singleton
  <1>5. b = x
    BY <1>4
  <1>6. b \in BaseIds /\ M = {b}
    BY <1>1, <1>4, <1>5
  <1> QED  BY <1>6 DEF M

\* Declaring a node gives its name at most one meaning, and no other name another one.
LEMMA NodeKeeps ==
    ASSUME OverlayInv, NEW id \in Ids, NEW anchor, Node(id, anchor)
    PROVE  OverlayInv'
  <1> USE DEF OverlayInv
  <1>1. /\ fragment[2] = "nodes" /\ last = Nothing
        /\ declared' = With(declared, id, Declarations(id) \cup {anchor})
        /\ UNCHANGED <<base, fragment, last, outcome>>
    BY DEF Node, InPhase, Meanings
  <1>2. \/ UNCHANGED <<remapped, added>>
        \/ /\ Remaps(Matches(anchor)) /\ id \notin Known
           /\ remapped' = With(remapped, id, CHOOSE b \in Matches(anchor) : TRUE)
           /\ added' = added
        \/ /\ id \notin Known /\ Matches(anchor) = {}
           /\ added' = [added EXCEPT !.anchor = With(added.anchor, id, anchor)]
           /\ remapped' = remapped
    BY DEF Node
  <1>3. /\ added'.edges = added.edges /\ added'.hyperedges = added.hyperedges
        /\ added' = [anchor |-> added'.anchor, edges |-> added'.edges,
                     hyperedges |-> added'.hyperedges]
        /\ \/ added'.anchor = added.anchor
           \/ /\ id \notin Known /\ Matches(anchor) = {} /\ remapped' = remapped
              /\ added'.anchor = With(added.anchor, id, anchor)
    BY <1>2 DEF OverlayTypes
  <1>4. OverlayTypes'
    BY <1>1, <1>3 DEF OverlayTypes
  <1>5. Apart'
    <2>1. DOMAIN added'.anchor \cap BaseIds = {}
      BY <1>3 DEF Apart, Known, With
    <2> QED  BY <1>1, <1>3, <2>1 DEF Apart
  <1>6. Meanings'
    <2>1. \A a : (Matches(a))' = Matches(a)
      BY <1>1 DEF Matches
    <2>2. /\ anchor \in Declarations(id)'
          /\ \A name : Declarations(name) \subseteq Declarations(name)'
      BY <1>1 DEF Declarations, With
    <2>3. ASSUME NEW name \in Ids PROVE Meant(name)'
      <3>1. Meant(name)
        BY DEF Meanings
      <3>2. name \in DOMAIN remapped' =>
               /\ remapped'[name] \in BaseIds
               /\ \E a \in Declarations(name)' : Matches(a) = {remapped'[name]}
        <4>1. CASE name \in DOMAIN remapped /\ remapped'[name] = remapped[name]
          BY <2>2, <3>1, <4>1 DEF Meant
        <4>2. CASE name = id /\ Remaps(Matches(anchor))
                   /\ remapped' = With(remapped, id, CHOOSE b \in Matches(anchor) : TRUE)
          <5>1. remapped'[id] = CHOOSE b \in Matches(anchor) : TRUE
            BY <4>2 DEF With
          <5> QED  BY <2>2, <4>2, <5>1, MatchedOnce
        <4> QED  BY <1>2, <4>1, <4>2 DEF With
      <3>3. name \in DOMAIN added'.anchor =>
               /\ added'.anchor[name] \in Declarations(name)'
               /\ Matches(added'.anchor[name]) = {}
        BY <1>3, <2>2, <3>1 DEF Meant, With
      <3> QED  BY <2>1, <3>2, <3>3 DEF Meant
    <2>4. DOMAIN remapped' \cap BaseIds = {}
      BY <1>2 DEF Meanings, Known, With
    <2> QED  BY <1>1, <2>3, <2>4 DEF Meanings, Nothing
  <1>7. AttachesAsNamed'
    BY <1>1 DEF AttachesAsNamed, Nothing
  <1>8. NeverRefused'
    BY <1>1 DEF NeverRefused
  <1> QED  BY <1>4, <1>5, <1>6, <1>7, <1>8

\* What an edge or a hyperedge binds to is what its names mean.
LEMMA BindsAsMeant ==
    ASSUME OverlayInv, NEW pair \in Ids \X Ids, \A i \in DOMAIN pair : Bound(pair)[i] \in Known,
           NEW i \in DOMAIN pair
    PROVE  AsNamed(pair[i], Bound(pair)[i])
  <1> DEFINE name == pair[i]
             node == Bound(pair)[i]
  <1>1. name \in Ids /\ node = Resolve(name) /\ node \in Known
    BY DEF Bound
  <1> HIDE DEF name, node
  <1> SUFFICES AsNamed(name, node)
    BY DEF name, node
  <1>2. Meant(name) /\ DOMAIN remapped \cap BaseIds = {}
    BY <1>1 DEF OverlayInv, Meanings
  <1>3. CASE name \in DOMAIN remapped
    BY <1>1, <1>2, <1>3 DEF Meant, Resolve, AsNamed, MeansBy
  <1>4. CASE name \notin DOMAIN remapped /\ name \in BaseIds
    BY <1>1, <1>4 DEF Resolve, AsNamed
  <1>5. CASE name \notin DOMAIN remapped /\ name \notin BaseIds
    <2>1. node = name /\ name \in DOMAIN added.anchor
      BY <1>1, <1>5 DEF Resolve, Known
    <2> QED  BY <1>2, <1>5, <2>1 DEF Meant, AsNamed, MeansBy
  <1> QED  BY <1>3, <1>4, <1>5

\* An edge is added between two known nodes that no edge joins yet.
LEMMA EdgeKeeps ==
    ASSUME OverlayInv, NEW pair \in Ids \X Ids, Edge(pair)
    PROVE  OverlayInv'
  <1> USE DEF OverlayInv
  <1>1. /\ fragment[2] = "edges"
        /\ UNCHANGED <<base, fragment, remapped, declared, outcome>>
    BY DEF Edge, InPhase
  <1>2. CASE UNCHANGED <<added, last>>
    BY <1>1, <1>2, OverlayFrame DEF OverlayTypes
  <1>3. CASE /\ Bound(pair)[1] \in Known /\ Bound(pair)[2] \in Known
             /\ ~Collides(Bound(pair)[1], Bound(pair)[2])
             /\ added' = [added EXCEPT !.edges = @ \cup {Bound(pair)}]
             /\ last' = [names |-> pair, bound |-> Bound(pair)]
    <2> DEFINE b == Bound(pair)
    <2>0. DOMAIN pair = {1, 2}
      OBVIOUS
    <2>1. b = <<b[1], b[2]>>
      <3>1. b = [i \in {1, 2} |-> Resolve(pair[i])]
        BY <2>0 DEF Bound
      <3> HIDE DEF b
      <3> QED  BY <3>1
    <2>2. \A i \in DOMAIN pair : b[i] \in Known
      BY <1>3, <2>0
    <2>3. \A e \in base.edges : {b[1], b[2]} # {e[1], e[2]}
      BY <1>3 DEF Collides
    <2>4. /\ added'.anchor = added.anchor /\ added'.edges = added.edges \cup {b}
          /\ added' = [anchor |-> added'.anchor, edges |-> added'.edges,
                       hyperedges |-> added'.hyperedges]
      BY <1>3 DEF OverlayTypes
    <2>5. OverlayTypes'
      BY <1>1, <2>4 DEF OverlayTypes
    <2>6. Apart'
      <3> HIDE DEF b
      <3> QED  BY <1>1, <2>1, <2>3, <2>4 DEF Apart
    <2>7. Meanings'
      BY <1>1, <2>4 DEF Meanings, Meant, Matches, Declarations
    <2>8. AttachesAsNamed'
      <3>1. /\ last'.names = pair /\ last'.bound = b
        BY <1>3
      <3>2. \A i \in DOMAIN pair :
               AsNamed(pair[i], b[i])
        BY <2>2, BindsAsMeant
      <3> HIDE DEF b
      <3>3. \A a : (Matches(a))' = Matches(a)
        BY <1>1 DEF Matches
      <3> QED  BY <1>1, <2>4, <3>1, <3>2, <3>3 DEF AttachesAsNamed, AsNamed, MeansBy,
                Declarations
    <2>9. NeverRefused'
      BY <1>1 DEF NeverRefused
    <2> QED  BY <2>5, <2>6, <2>7, <2>8, <2>9
  <1>4. \/ UNCHANGED <<added, last>>
        \/ /\ Bound(pair)[1] \in Known /\ Bound(pair)[2] \in Known
           /\ ~Collides(Bound(pair)[1], Bound(pair)[2])
           /\ added' = [added EXCEPT !.edges = @ \cup {Bound(pair)}]
           /\ last' = [names |-> pair, bound |-> Bound(pair)]
    BY DEF Edge
  <1> QED  BY <1>2, <1>3, <1>4

\* A hyperedge is added when all its members are known.
LEMMA HyperedgeKeeps ==
    ASSUME OverlayInv, NEW id, NEW pair \in Ids \X Ids, Hyperedge(id, pair)
    PROVE  OverlayInv'
  <1> USE DEF OverlayInv
  <1>1. /\ fragment[2] = "hyperedges"
        /\ UNCHANGED <<base, fragment, remapped, declared, outcome>>
    BY DEF Hyperedge, InPhase
  <1>2. CASE UNCHANGED <<added, last>>
    BY <1>1, <1>2, OverlayFrame DEF OverlayTypes
  <1>3. CASE /\ \A i \in DOMAIN Bound(pair) : Bound(pair)[i] \in Known
             /\ added' = [added EXCEPT !.hyperedges = @ \cup {<<id, Bound(pair)>>}]
             /\ last' = [names |-> pair, bound |-> Bound(pair)]
    <2> DEFINE b == Bound(pair)
    <2>1. DOMAIN b = DOMAIN pair
      BY DEF Bound
    <2>2. /\ added'.anchor = added.anchor /\ added'.edges = added.edges
          /\ added' = [anchor |-> added'.anchor, edges |-> added'.edges,
                       hyperedges |-> added'.hyperedges]
      BY <1>3 DEF OverlayTypes
    <2>3. OverlayTypes' /\ Apart'
      BY <1>1, <2>2 DEF OverlayTypes, Apart
    <2>4. Meanings'
      BY <1>1, <2>2 DEF Meanings, Meant, Matches, Declarations
    <2>5. AttachesAsNamed'
      <3>1. /\ last'.names = pair /\ last'.bound = b
        BY <1>3
      <3>2. \A i \in DOMAIN pair :
               AsNamed(pair[i], b[i])
        BY <1>3, <2>1, BindsAsMeant
      <3> HIDE DEF b
      <3>3. \A a : (Matches(a))' = Matches(a)
        BY <1>1 DEF Matches
      <3> QED  BY <1>1, <2>2, <3>1, <3>2, <3>3 DEF AttachesAsNamed, AsNamed, MeansBy, Declarations
    <2>6. NeverRefused'
      BY <1>1 DEF NeverRefused
    <2> QED  BY <2>3, <2>4, <2>5, <2>6
  <1>4. \/ UNCHANGED <<added, last>>
        \/ /\ \A i \in DOMAIN Bound(pair) : Bound(pair)[i] \in Known
           /\ added' = [added EXCEPT !.hyperedges = @ \cup {<<id, Bound(pair)>>}]
           /\ last' = [names |-> pair, bound |-> Bound(pair)]
    BY DEF Hyperedge
  <1> QED  BY <1>2, <1>3, <1>4

\* The next phase and the next fragment: what names stand for stays what it is.
LEMMA AdvanceKeeps ==
    ASSUME OverlayInv, NextPhase \/ NextFragment
    PROVE  OverlayInv'
  <1> USE DEF OverlayInv
  <1>1. CASE NextPhase
    <2>1. /\ \E i \in 1..2 : fragment' = <<fragment[1], Phases[i + 1]>>
          /\ UNCHANGED <<base, remapped, added, declared, last, members, outcome>>
      BY <1>1 DEF NextPhase
    <2>2. fragment' = <<fragment'[1], fragment'[2]>> /\ fragment'[2] # "nodes"
      BY <2>1 DEF Phases
    <2> QED  BY <2>1, <2>2, OverlayFrame
  <1>2. CASE NextFragment
    <2>1. /\ fragment' = <<fragment[1] + 1, "nodes">> /\ last' = Nothing
          /\ UNCHANGED <<base, remapped, added, declared, members, outcome>>
      BY <1>2 DEF NextFragment
    <2>2. DOMAIN Nothing.names = {}
      BY DEF Nothing
    <2>3. Meanings'
      BY <2>1 DEF Meanings, Meant, Matches, Declarations
    <2> QED  BY <2>1, <2>2, <2>3 DEF OverlayTypes, Apart, AttachesAsNamed, NeverRefused, Nothing
  <1> QED  BY <1>1, <1>2

\* The comparison of the candidate with the base finds nothing that was let through.
LEMMA PublishKeeps ==
    ASSUME OverlayInv, Publish
    PROVE  OverlayInv'
  <1> USE DEF OverlayInv
  <1>1. UNCHANGED <<base, fragment, remapped, added, declared, last, members>>
    BY DEF Publish
  <1>2. OverlayTypes' /\ Apart' /\ Meanings' /\ AttachesAsNamed'
    BY <1>1 DEF OverlayTypes, Apart, Meanings, Meant, Matches, Declarations, AttachesAsNamed,
                AsNamed, MeansBy
  <1>3. ASSUME ~Preserved
        PROVE  \E e, f \in base.edges : e # f /\ {e[1], e[2]} = {f[1], f[2]} /\ ~base.directed
    <2>1. ASSUME NEW e \in base.edges, NEW f \in base.edges, Place(e) = Place(f), e # f
          PROVE  {e[1], e[2]} = {f[1], f[2]} /\ ~base.directed
      <3>1. e = <<e[1], e[2]>> /\ f = <<f[1], f[2]>>
        BY DEF OverlayTypes
      <3>2. ~base.directed
        BY <2>1, <3>1 DEF Place
      <3> QED  BY <2>1, <3>2 DEF Place
    <2>2. ASSUME NEW e \in base.edges, NEW f \in added.edges, Place(e) = Place(f)
          PROVE  FALSE
      <3>1. {e[1], e[2]} # {f[1], f[2]}
        BY DEF Apart
      <3>2. CASE base.directed
        BY <2>2, <3>1, <3>2 DEF Place
      <3>3. CASE ~base.directed
        BY <2>2, <3>1, <3>3 DEF Place
      <3> QED  BY <3>2, <3>3
    <2> QED  BY <1>3, <2>1, <2>2 DEF Preserved, Apart
  <1>4. NeverRefused'
    BY <1>1, <1>3 DEF NeverRefused, Publish
  <1> QED  BY <1>2, <1>4

\* An edge or hyperedge that is accepted joins, for each of its names, a node that a declaration
\* of the name means, however often and with whatever anchors names are declared; and the comparison
\* that comes last refuses nothing but a base it could never keep (_plan_overlay_additions,
\* _candidate_baseline_records).
THEOREM OverlaysAreComposedAsMeant == OverlaySpec => []ComposedAsMeant
  <1>1. OverlayInit => OverlayInv
    BY OverlayStart
  <1>2. OverlayInv /\ [OverlayNext]_overlayVars => OverlayInv'
    <2> SUFFICES ASSUME OverlayInv, [OverlayNext]_overlayVars PROVE OverlayInv'
      OBVIOUS
    <2>1. CASE UNCHANGED overlayVars
      BY <2>1, OverlayFrame DEF overlayVars, OverlayInv, OverlayTypes
    <2> QED
      BY <2>1, NodeKeeps, EdgeKeeps, HyperedgeKeeps, AdvanceKeeps, PublishKeeps
      DEF OverlayNext
  <1>3. OverlayInv => ComposedAsMeant
    BY DEF OverlayInv, ComposedAsMeant
  <1> QED  BY <1>1, <1>2, <1>3, PTL DEF OverlaySpec

-----------------------------------------------------------------------------
(* An attempt.  What Claude delivers it delivers while it or its group     *)
(* lives, so the argument is about who is alive at each step of the        *)
(* launcher: from _cleanup_process_group on nobody can deliver any more,   *)
(* and what the board said when it was read stays what it says about a     *)
(* delivery of this run, because a delivery gives up the claim.            *)

Quiet == claude # "alive" /\ ~group   \* nobody is left who has the worker's tools

NoneSettled == procfs => "settled" \notin escaped   \* whom the scan of /proc cannot miss

TaskShape == task = [status |-> task.status, claim |-> task.claim, event |-> task.event]

AttemptActors ==
    /\ step \in {"route", "spawn"} => claude = "none" /\ ~group /\ escaped = {}
    /\ step \in {"classify", "writer", "claim", "exec"} => Quiet
    /\ step \in {"claim", "exec"} => NoneSettled
    /\ receipt # "none" => step \in {"exec", "over"} /\ Quiet
    /\ exit # "none" => step = "over"
    /\ exit = "hermes" => Quiet /\ NoneSettled

DeliveryInv ==
    /\ TaskShape
    /\ step \in {"route", "spawn", "install", "ready"} => turn = "none"
    /\ turn = "none" => ~delivered
    /\ delivered => task.claim # "mine"
    /\ step \in {"writer", "claim", "exec"} => ~(delivered /\ Moved)
    /\ step = "exec" => ~delivered
    /\ exit = "hermes" => ~delivered
    /\ delivered /\ Moved /\ receipt # "none" => exit = "0"

AttemptInv == AttemptActors /\ DeliveryInv

LEMMA LauncherProcs == ASSUME AttemptActors, Launcher \/ PassThrough \/ StdoutCloses \/ Unreadable
                       PROVE  AttemptActors'
<1> USE DEF AttemptActors, Quiet, NoneSettled, procs, talk, launcher, Goes
<1>1. CASE Prepare \/ PassThrough
  BY <1>1 DEF Prepare, PassThrough, End, WriteTransients
<1>2. CASE Spawn \/ Install
  BY <1>2 DEF Spawn, Install
<1>3. CASE Ready \/ NotReady
  BY <1>3 DEF Ready, NotReady, GiveTurn, KillGroup
<1>4. CASE OutputEnds \/ StdoutCloses \/ Restores
  BY <1>4 DEF OutputEnds, StdoutCloses, Restores
<1>5. CASE Kill
  BY <1>5 DEF Kill, KillGroup
<1>6. CASE Classify
  BY <1>6 DEF Classify, End
<1>7. CASE CheckWriter
  BY <1>7 DEF CheckWriter, End
<1>8. CASE CheckClaim \/ Exec \/ Unreadable
  BY <1>8 DEF CheckClaim, Exec, Unreadable, End
<1> QED
  BY <1>1, <1>2, <1>3, <1>4, <1>5, <1>6, <1>7, <1>8 DEF Launcher

LEMMA LauncherDelivery ==
    ASSUME AttemptInv, Launcher \/ PassThrough \/ StdoutCloses \/ Unreadable
    PROVE  DeliveryInv'
<1> USE DEF AttemptInv, DeliveryInv, TaskShape, Moved, procs, talk, launcher, Goes
<1>1. CASE Prepare \/ PassThrough
  BY <1>1 DEF Prepare, PassThrough, End, WriteTransients
<1>2. CASE Spawn \/ Install
  BY <1>2 DEF Spawn, Install, AttemptActors
<1>3. CASE Ready \/ NotReady
  BY <1>3 DEF Ready, NotReady, GiveTurn, KillGroup, AttemptActors
<1>4. CASE OutputEnds \/ StdoutCloses \/ Restores
  BY <1>4 DEF OutputEnds, StdoutCloses, Restores, AttemptActors
<1>5. CASE Kill
  BY <1>5 DEF Kill, KillGroup, AttemptActors
<1>6. CASE Classify
  <2>1. UNCHANGED <<turn, task, delivered>> /\ Quiet
    BY <1>6 DEF Classify, AttemptActors
  <2>2. CASE Moved /\ End("0", "transition")
    BY <2>1, <2>2 DEF End
  <2>3. CASE ~Moved /\ step' = "over" /\ exit' # "hermes"
    BY <2>1, <2>3
  <2>4. CASE ~Moved /\ step' = "writer" /\ UNCHANGED <<exit, receipt>>
    BY <1>6, <2>1, <2>4 DEF Classify, AttemptActors
  <2>5. \/ Moved /\ End("0", "transition")
        \/ ~Moved /\ step' = "over" /\ exit' # "hermes"
        \/ ~Moved /\ step' = "writer" /\ UNCHANGED <<exit, receipt>>
    BY <1>6, Zenon DEF Classify, End
  <2> QED BY <2>2, <2>3, <2>4, <2>5
<1>7. CASE CheckWriter
  BY <1>7 DEF CheckWriter, End
<1>8. CASE CheckClaim \/ Exec \/ Unreadable
  BY <1>8 DEF CheckClaim, Exec, Unreadable, End, AttemptActors
<1> QED
  BY <1>1, <1>2, <1>3, <1>4, <1>5, <1>6, <1>7, <1>8 DEF Launcher

ClaudeStep ==
    \/ \E g \in Gates : Answer(g)
    \/ \E error \in BOOLEAN : Result(error)
    \/ ApiRetry \/ Deliver \/ Remark \/ Fork \/ ClaudeEnds \/ OtherEnds \/ Prints

LEMMA ClaudeKeeps == ASSUME AttemptInv, ClaudeStep PROVE AttemptInv'
<1> USE DEF AttemptInv, DeliveryInv, AttemptActors, Quiet, NoneSettled, TaskShape, Moved, procs, talk, launcher
<1>1. ASSUME NEW g \in Gates, Answer(g) PROVE AttemptInv'
  BY <1>1 DEF Answer
<1>2. ASSUME NEW error \in BOOLEAN, Result(error) PROVE AttemptInv'
  BY <1>2 DEF Result
<1>3. CASE ApiRetry
  BY <1>3 DEF ApiRetry, Blame
<1>4. CASE Deliver
  BY <1>4 DEF Deliver
<1>5. CASE Remark
  BY <1>5 DEF Remark
<1>6. CASE Fork
  BY <1>6 DEF Fork
<1>7. CASE ClaudeEnds \/ Prints
  BY <1>7 DEF ClaudeEnds, Prints
<1>8. CASE OtherEnds
  <2>1. /\ UNCHANGED <<launcher, sigterm, claude, procfs, talk, task, delivered, misfires>>
        /\ group' => group
        /\ escaped = {} => escaped' = {}
        /\ "settled" \notin escaped => "settled" \notin escaped'
    BY <1>8 DEF OtherEnds
  <2> QED BY <2>1
<1> QED BY <1>1, <1>2, <1>3, <1>4, <1>5, <1>6, <1>7, <1>8 DEF ClaudeStep

LEMMA KernelKeeps == ASSUME AttemptInv, Terminate \/ TakeAway \/ Reopen PROVE AttemptInv'
<1> USE DEF AttemptInv, DeliveryInv, AttemptActors, Quiet, NoneSettled, TaskShape, Moved, procs, talk, launcher
<1>1. CASE Terminate
  BY <1>1 DEF Terminate, Over
<1>2. CASE TakeAway
  BY <1>2 DEF TakeAway
<1>3. CASE Reopen
  BY <1>3 DEF Reopen
<1> QED BY <1>1, <1>2, <1>3

\* Hermes never starts beside Claude, its process group or a writer that the scan of /proc cannot
\* miss, nor over what Claude delivered, and a delivery is reported as one: for every order of Claude's end, the kernel's signals, what happens
\* to the task on the board meanwhile, and every number of misfires.
THEOREM AlwaysOneWorker == AttemptSpec => []OneWorker
<1>1. AttemptInit => AttemptInv
  BY DEF AttemptInit, AttemptInv, AttemptActors, DeliveryInv, TaskShape, Quiet,
         NoneSettled
<1>2. AttemptInv /\ [AttemptNext]_attemptVars => AttemptInv'
  <2> SUFFICES ASSUME AttemptInv, [AttemptNext]_attemptVars PROVE AttemptInv'
    OBVIOUS
  <2>1. CASE Launcher \/ PassThrough \/ StdoutCloses \/ Unreadable
    BY <2>1, LauncherProcs, LauncherDelivery DEF AttemptInv
  <2>2. CASE ClaudeStep
    BY <2>2, ClaudeKeeps
  <2>3. CASE Terminate \/ TakeAway \/ Reopen
    BY <2>3, KernelKeeps
  <2>4. CASE UNCHANGED attemptVars
    BY <2>4 DEF attemptVars, launcher, procs, talk, AttemptInv, AttemptActors, DeliveryInv,
                TaskShape, Quiet, NoneSettled, Moved
  <2> QED BY <2>1, <2>2, <2>3, <2>4 DEF AttemptNext, ClaudeStep
<1>3. AttemptInv => OneWorker
  BY DEF AttemptInv, AttemptActors, DeliveryInv, Quiet, NoneSettled, OneWorker, OneWriter, DeliveryCounts
<1> QED BY <1>1, <1>2, <1>3, PTL DEF AttemptSpec

-----------------------------------------------------------------------------
(* A contract handed over.  prepare_handoff takes no lock, so a checkout   *)
(* may move the worktree between any two of its steps; what is handed over *)
(* is committed because commits are only ever added, and Compare looked at *)
(* the commit itself.  That a version is handed over once rests on the     *)
(* lock of the board: whoever writes the metadata is alone at the version, *)
(* and metadata that is whole is never written again.                      *)

Steps == {"idle", "base", "compare", "provision", "write", "check", "init"}
Compared == {"provision", "write", "check", "init"}
Holding == {"write", "check", "init"}   \* steps under the lock of the board

Tree == [Versions -> Nat]
Board == [metadata : {"none", "partial", "whole"}, of : Nat, base : Nat,
          database : BOOLEAN, archived : BOOLEAN]
Handoff == [step : Steps, version : Versions, read : Nat, base : Nat, moved : BOOLEAN]
Envelope == [version : Versions, base : Nat, read : Nat, digest : Nat, moved : BOOLEAN]

TreeTypes ==
    /\ finals \in [Roots -> Tree] /\ traces \in Nat
    /\ commits \in Seq(Tree) /\ tips \in [Roots -> DOMAIN commits]
BoardTypes ==
    /\ boards \in [Versions -> Board] /\ handoff \in [Roots -> Handoff]
    /\ handed \subseteq Envelope

\* What the handoff of r has read is in the worktree unless git moved it, and what it has compared
\* is committed.
ReadInv(r) ==
    /\ handoff[r].step # "idle" =>
          /\ handoff[r].read # NoFinal
          /\ ~handoff[r].moved => finals[r][handoff[r].version] = handoff[r].read
    /\ handoff[r].step \in {"compare"} \cup Compared => handoff[r].base \in DOMAIN commits
    /\ handoff[r].step \in Compared =>
          /\ commits[handoff[r].base][handoff[r].version] # NoFinal
          /\ ~handoff[r].moved => commits[handoff[r].base][handoff[r].version] = handoff[r].read

WriteInv(r) ==
    handoff[r].step = "write" => /\ boards[handoff[r].version].metadata = "partial"
                                 /\ ~boards[handoff[r].version].database

\* The lock of a board
HoldersApart ==
    \A q, r \in Roots :
        /\ q # r /\ handoff[q].step \in Holding /\ handoff[r].step \in Holding
        => handoff[q].version # handoff[r].version

Stands(e) ==
    /\ boards[e.version].database /\ boards[e.version].metadata = "whole"
    /\ boards[e.version].of = e.read /\ boards[e.version].base = e.base
Committed(e) ==
    /\ e.base \in DOMAIN commits /\ e.digest = commits[e.base][e.version]
    /\ e.digest # NoFinal /\ (~e.moved => e.digest = e.read)

ReadsInv == \A r \in Roots : ReadInv(r)
WritesInv == (\A r \in Roots : WriteInv(r)) /\ HoldersApart
HandedInv == \A e \in handed : Stands(e) /\ Committed(e)

ContractsInv == TreeTypes /\ BoardTypes /\ ReadsInv /\ WritesInv /\ HandedInv

LEMMA EmptyIsTree == Empty \in Tree
  BY DEF Empty, Tree, NoFinal

LEMMA IdleIsHandoff == Idle \in Handoff /\ Idle.step = "idle" /\ ~Idle.moved
  BY ContractsAssumption DEF Idle, Handoff, Steps, Versions, NoFinal

LEMMA FrameKeeps ==
    ASSUME ContractsInv, UNCHANGED <<finals, traces, git, boards, handoff, handed>>
    PROVE  ContractsInv'
  BY DEF ContractsInv, TreeTypes, BoardTypes, ReadsInv, ReadInv, WritesInv, WriteInv,
         HoldersApart, HandedInv, Stands, Committed, git

LEMMA AuthoringKeeps ==
    ASSUME ContractsInv, NEW r \in Roots,
           \/ Begin \/ Unlink(r) \/ \E s \in Sections : SetSection(r, s)
           \/ \E v \in Versions : Supersede(r, v)
    PROVE  ContractsInv'
<1>1. UNCHANGED <<finals, traces, git, boards, handoff, handed>>
  BY DEF Begin, Unlink, SetSection, Supersede, spent
<1> QED BY <1>1, FrameKeeps

\* A final version that is there is not written over.
LEMMA LinkKeeps == ASSUME ContractsInv, NEW r \in Roots, Link(r) PROVE ContractsInv'
<1>1. /\ finals[r][drafts[r].target] = NoFinal /\ traces' = traces + 1
      /\ finals' = [finals EXCEPT ![r][drafts[r].target] = traces']
      /\ UNCHANGED <<git, boards, handoff, handed>>
  BY DEF Link
<1>2. TreeTypes'
  <2>1. /\ finals \in [Roots -> Tree] /\ finals[r] \in [Versions -> Nat] /\ traces' \in Nat
        /\ finals' = [finals EXCEPT ![r] = [finals[r] EXCEPT ![drafts[r].target] = traces']]
    BY <1>1 DEF ContractsInv, TreeTypes, Tree
  <2>2. [finals[r] EXCEPT ![drafts[r].target] = traces'] \in Tree
    BY <2>1 DEF Tree
  <2>3. finals' \in [Roots -> Tree]
    BY <2>1, <2>2
  <2> QED BY <1>1, <2>1, <2>3 DEF ContractsInv, TreeTypes, git
<1>3. \A q \in Roots, v \in Versions :
          finals[q][v] # NoFinal => finals'[q][v] = finals[q][v]
  BY <1>1 DEF ContractsInv, TreeTypes, Tree
<1>4. \A q \in Roots : ReadInv(q)'
  <2> SUFFICES ASSUME NEW q \in Roots PROVE ReadInv(q)'
    OBVIOUS
  <2>1. ReadInv(q) /\ handoff[q].version \in Versions
    BY DEF ContractsInv, ReadsInv, BoardTypes, Handoff
  <2> QED BY <1>1, <1>3, <2>1 DEF ReadInv, git
<1>5. BoardTypes' /\ WritesInv' /\ HandedInv'
  BY <1>1 DEF ContractsInv, BoardTypes, WritesInv, WriteInv, HoldersApart, HandedInv, Stands,
              Committed, git
<1> QED BY <1>2, <1>4, <1>5 DEF ContractsInv, ReadsInv

\* Commits are only ever added.
LEMMA CommitKeeps == ASSUME ContractsInv, NEW r \in Roots, CommitFinals(r) PROVE ContractsInv'
<1>1. /\ commits' = Append(commits, finals[r]) /\ tips' = [tips EXCEPT ![r] = Len(commits')]
      /\ UNCHANGED <<files, traces, boards, handoff, handed>>
  BY DEF CommitFinals, spent
<1>2. /\ commits \in Seq(Tree) /\ finals[r] \in Tree /\ tips \in [Roots -> DOMAIN commits]
  BY DEF ContractsInv, TreeTypes
<1>3. /\ commits' \in Seq(Tree) /\ Len(commits') = Len(commits) + 1
      /\ DOMAIN commits = 1..Len(commits) /\ DOMAIN commits' = 1..Len(commits')
      /\ \A c \in DOMAIN commits : c \in DOMAIN commits' /\ commits'[c] = commits[c]
      /\ Len(commits) \in Nat
  BY <1>1, <1>2
<1>4. TreeTypes'
  <2>1. Len(commits') \in DOMAIN commits' /\ DOMAIN commits \subseteq DOMAIN commits'
    BY <1>3
  <2>2. tips' \in [Roots -> DOMAIN commits']
    BY <1>1, <1>2, <2>1
  <2> QED BY <1>1, <1>3, <2>2 DEF TreeTypes, ContractsInv, files
<1>5. ReadsInv' /\ HandedInv'
  BY <1>1, <1>3 DEF ContractsInv, ReadsInv, ReadInv, HandedInv, Stands, Committed, files
<1>6. BoardTypes' /\ WritesInv'
  BY <1>1 DEF ContractsInv, BoardTypes, WritesInv, WriteInv, HoldersApart
<1> QED BY <1>4, <1>5, <1>6 DEF ContractsInv

\* A checkout may change what was read, and is then known to have been made.
LEMMA CheckoutKeeps ==
    ASSUME ContractsInv, NEW r \in Roots, NEW c \in DOMAIN commits, Checkout(r, c)
    PROVE  ContractsInv'
<1>1. /\ tips' = [tips EXCEPT ![r] = c] /\ finals' = [finals EXCEPT ![r] = commits[c]]
      /\ handoff' = [handoff EXCEPT ![r].moved = handoff[r].step # "idle"]
      /\ UNCHANGED <<commits, boards, handed, traces>>
  BY DEF Checkout
<1>2. /\ handoff \in [Roots -> Handoff] /\ commits \in Seq(Tree) /\ finals \in [Roots -> Tree]
      /\ commits[c] \in Tree
  BY DEF ContractsInv, BoardTypes, TreeTypes
<1>3. TreeTypes'
  BY <1>1, <1>2 DEF ContractsInv, TreeTypes
<1>4. handoff' \in [Roots -> Handoff]
  BY <1>1, <1>2 DEF Handoff
<1>5. BoardTypes'
  BY <1>1, <1>4 DEF ContractsInv, BoardTypes
<1>6. \A q \in Roots : /\ handoff'[q].step = handoff[q].step /\ handoff'[q].read = handoff[q].read
                       /\ handoff'[q].version = handoff[q].version
                       /\ handoff'[q].base = handoff[q].base
                       /\ ~handoff'[q].moved /\ handoff[q].step # "idle"
                          => ~handoff[q].moved /\ finals'[q] = finals[q]
  BY <1>1, <1>2 DEF Handoff
<1>7. ReadsInv'
  BY <1>1, <1>6 DEF ContractsInv, ReadsInv, ReadInv, Compared
<1>8. WritesInv'
  BY <1>1, <1>6 DEF ContractsInv, WritesInv, WriteInv, HoldersApart
<1>9. HandedInv'
  BY <1>1 DEF ContractsInv, HandedInv, Stands, Committed
<1> QED BY <1>3, <1>5, <1>7, <1>8, <1>9 DEF ContractsInv

\* Giving up, at any step, and dying
LEMMA RefuseKeeps ==
    ASSUME ContractsInv, NEW r \in Roots, Refuse(r),
           UNCHANGED <<finals, traces, git, boards, handed>>
    PROVE  ContractsInv'
<1>1. /\ handoff' = [handoff EXCEPT ![r] = Idle] /\ handoff \in [Roots -> Handoff]
      /\ Idle \in Handoff /\ Idle.step = "idle"
  BY ContractsAssumption DEF Refuse, ContractsInv, BoardTypes, Idle, Handoff, Steps, Versions, NoFinal
<1>2. /\ handoff' \in [Roots -> Handoff] /\ handoff'[r].step = "idle"
      /\ \A q \in Roots \ {r} : handoff'[q] = handoff[q]
  BY <1>1
<1>3. TreeTypes' /\ BoardTypes' /\ HandedInv'
  BY <1>2 DEF ContractsInv, TreeTypes, BoardTypes, HandedInv, Stands, Committed, git
<1>4. ReadsInv'
  BY <1>2 DEF ContractsInv, ReadsInv, ReadInv, Compared, git
<1>5. WritesInv'
  BY <1>2 DEF ContractsInv, WritesInv, WriteInv, HoldersApart, Holding
<1> QED BY <1>3, <1>4, <1>5 DEF ContractsInv

\* A step of the handoff of r that leaves the files and git alone.
HandoffStep(r, h) ==
    /\ handoff' = [handoff EXCEPT ![r] = h]
    /\ UNCHANGED <<finals, traces, git>>

LEMMA OtherTreesKeep ==
    ASSUME ContractsInv, NEW r \in Roots, NEW h \in Handoff, HandoffStep(r, h)
    PROVE  /\ handoff' \in [Roots -> Handoff] /\ handoff'[r] = h
           /\ \A q \in Roots \ {r} : handoff'[q] = handoff[q]
           /\ \A q \in Roots \ {r} : ReadInv(q)'
           /\ TreeTypes'
<1>1. /\ handoff' \in [Roots -> Handoff] /\ handoff'[r] = h
      /\ \A q \in Roots \ {r} : handoff'[q] = handoff[q]
      /\ UNCHANGED <<finals, traces, commits, tips>>
  BY DEF HandoffStep, ContractsInv, BoardTypes, git
<1>2. \A q \in Roots \ {r} : ReadInv(q)'
  BY <1>1 DEF ContractsInv, ReadsInv, ReadInv
<1> QED BY <1>1, <1>2 DEF ContractsInv, TreeTypes

\* Reading and comparing, before the board is locked
LEMMA BeforeBoard ==
    ASSUME ContractsInv, NEW r \in Roots, NEW h \in Handoff, HandoffStep(r, h),
           UNCHANGED <<boards, handed>>, h.step \notin Holding, ReadInv(r)'
    PROVE  ContractsInv'
<1>1. /\ handoff' \in [Roots -> Handoff] /\ handoff'[r] = h /\ TreeTypes'
      /\ \A q \in Roots \ {r} : handoff'[q] = handoff[q] /\ ReadInv(q)'
  BY OtherTreesKeep
<1>2. BoardTypes' /\ ReadsInv'
  BY <1>1 DEF ContractsInv, BoardTypes, ReadsInv
<1>3. WritesInv'
  BY <1>1 DEF ContractsInv, WritesInv, WriteInv, HoldersApart, Holding
<1>4. HandedInv'
  BY DEF HandoffStep, ContractsInv, HandedInv, Stands, Committed, git
<1> QED BY <1>1, <1>2, <1>3, <1>4 DEF ContractsInv

LEMMA ReadingKeeps ==
    ASSUME ContractsInv, NEW r \in Roots,
           (\E v \in Versions : Parse(r, v)) \/ ReadHead(r) \/ Compare(r)
    PROVE  ContractsInv'
<1> DEFINE h == handoff[r]
<1>1. /\ h \in Handoff /\ ReadInv(r) /\ handoff \in [Roots -> Handoff]
      /\ finals \in [Roots -> Tree] /\ tips[r] \in DOMAIN commits /\ commits \in Seq(Tree)
  BY DEF ContractsInv, BoardTypes, ReadsInv, TreeTypes
<1>2. ASSUME NEW v \in Versions, Parse(r, v) PROVE ContractsInv'
  <2> DEFINE g == [Idle EXCEPT !.step = "base", !.version = v, !.read = finals[r][v]]
  <2>1. /\ handoff' = [handoff EXCEPT ![r] = g] /\ finals[r][v] # NoFinal
        /\ UNCHANGED <<finals, traces, git, boards, handed>>
    BY <1>2 DEF Parse, files
  <2>2. finals[r][v] \in Nat
    BY <1>1 DEF Tree
  <2>3. /\ g \in Handoff /\ g.step = "base" /\ g.version = v /\ g.read = finals[r][v]
        /\ ~g.moved
    BY <2>2, IdleIsHandoff DEF Handoff, Steps
  <2> HIDE DEF g
  <2>4. HandoffStep(r, g) /\ handoff'[r] = g
    BY <1>1, <2>1 DEF HandoffStep
  <2>5. ReadInv(r)'
    BY <2>1, <2>3, <2>4 DEF ReadInv, Compared
  <2> QED BY <2>1, <2>3, <2>4, <2>5, BeforeBoard DEF Holding
<1>3. CASE ReadHead(r)
  <2> DEFINE g == [h EXCEPT !.step = "compare", !.base = tips[r]]
  <2>1. /\ h.step = "base" /\ handoff' = [handoff EXCEPT ![r] = g]
        /\ UNCHANGED <<finals, traces, git, boards, handed>>
    BY <1>1, <1>3 DEF ReadHead, Reached, Only, files, spent, Handoff
  <2>2. tips[r] \in Nat
    BY <1>1
  <2>3. g \in Handoff /\ g.step = "compare" /\ g.base = tips[r] /\ g.read = h.read
        /\ g.moved = h.moved /\ g.version = h.version
    BY <1>1, <2>2 DEF Handoff, Steps
  <2> HIDE DEF g
  <2>4. HandoffStep(r, g) /\ handoff'[r] = g
    BY <1>1, <2>1 DEF HandoffStep
  <2>5. ReadInv(r)'
    BY <1>1, <2>1, <2>3, <2>4 DEF ReadInv, Compared, git
  <2> QED BY <2>1, <2>3, <2>4, <2>5, BeforeBoard DEF Holding
<1>4. CASE Compare(r) /\ InBase(r) /\ tips[r] = h.base
  <2> DEFINE g == [h EXCEPT !.step = "provision"]
  <2>1. /\ h.step = "compare" /\ handoff' = [handoff EXCEPT ![r] = g]
        /\ UNCHANGED <<finals, traces, git, boards, handed>>
    BY <1>1, <1>4 DEF Compare, To, Reached, Only, files, spent, Handoff
  <2>3. g \in Handoff /\ g.step = "provision" /\ g.base = h.base /\ g.read = h.read
        /\ g.moved = h.moved /\ g.version = h.version
    BY <1>1 DEF Handoff, Steps
  <2> HIDE DEF g
  <2>4. HandoffStep(r, g) /\ handoff'[r] = g
    BY <1>1, <2>1 DEF HandoffStep
  <2>5. ReadInv(r)'
    BY <1>1, <1>4, <2>1, <2>3, <2>4 DEF ReadInv, Compared, git, InBase
  <2> QED BY <2>1, <2>3, <2>4, <2>5, BeforeBoard DEF Holding
<1>5. CASE Compare(r) /\ Refuse(r)
  BY <1>5, RefuseKeeps DEF Compare, Only, files, spent
<1> QED BY <1>2, <1>3, <1>4, <1>5 DEF Compare

\* A board that somebody holds is nobody else's to hold.
LEMMA ProvisionKeeps == ASSUME ContractsInv, NEW r \in Roots, Provision(r) PROVE ContractsInv'
<1> DEFINE h == handoff[r]
           v == handoff[r].version
<1>1. /\ h \in Handoff /\ v \in Versions /\ ReadInv(r) /\ handoff \in [Roots -> Handoff]
      /\ boards \in [Versions -> Board] /\ boards[v] \in Board
      /\ h.step = "provision" /\ ~Held(v) /\ UNCHANGED <<finals, traces, git, handed>>
  BY DEF ContractsInv, BoardTypes, ReadsInv, Provision, Reached, files, spent, Handoff
<1>2. PICK to \in {"check", "write"} :
          /\ handoff' = [handoff EXCEPT ![r].step = to]
          /\ to = "check" => boards' = boards
          /\ to = "write" => /\ ~boards[v].database /\ boards[v].metadata = "none"
                             /\ boards' = [boards EXCEPT ![v].metadata = "partial"]
  BY DEF Provision, To
<1> DEFINE g == [h EXCEPT !.step = to]
<1>3. /\ handoff' = [handoff EXCEPT ![r] = g]
      /\ g \in Handoff /\ g.step = to /\ g.base = h.base /\ g.read = h.read
      /\ g.moved = h.moved /\ g.version = v
  BY <1>1, <1>2 DEF Handoff, Steps
<1> HIDE DEF g
<1>4. /\ handoff' \in [Roots -> Handoff] /\ handoff'[r] = g /\ TreeTypes'
      /\ \A q \in Roots \ {r} : handoff'[q] = handoff[q] /\ ReadInv(q)'
  BY <1>1, <1>3, OtherTreesKeep DEF HandoffStep
<1>5. ReadInv(r)'
  BY <1>1, <1>3, <1>4 DEF ReadInv, Compared, git
<1>6. /\ boards' \in [Versions -> Board]
      /\ \A u \in Versions : /\ boards'[u].database = boards[u].database
                             /\ boards'[u].of = boards[u].of /\ boards'[u].base = boards[u].base
                             /\ boards[u].metadata # "none" => boards'[u].metadata = boards[u].metadata
      /\ to = "write" => boards'[v].metadata = "partial" /\ ~boards'[v].database
  BY <1>1, <1>2 DEF Board
<1>7. \A q \in Roots \ {r} : handoff[q].step \in Holding => handoff[q].version # v
  BY <1>1 DEF Held, Holding
<1>8. HoldersApart'
  BY <1>3, <1>4, <1>7 DEF ContractsInv, WritesInv, HoldersApart
<1>9. \A q \in Roots : WriteInv(q)'
  <2> SUFFICES ASSUME NEW q \in Roots, handoff'[q].step = "write" PROVE WriteInv(q)'
    BY DEF WriteInv
  <2>1. CASE q = r
    BY <1>3, <1>4, <1>6, <2>1 DEF WriteInv
  <2>2. CASE q # r
    <3>1. handoff'[q] = handoff[q] /\ handoff[q].version \in Versions /\ WriteInv(q)
      BY <1>1, <1>4, <2>2 DEF ContractsInv, WritesInv, Handoff
    <3> QED BY <1>6, <3>1 DEF WriteInv
  <2> QED BY <2>1, <2>2
<1>10. HandedInv'
  <2> SUFFICES ASSUME NEW e \in handed PROVE Stands(e)' /\ Committed(e)'
    BY <1>1 DEF HandedInv
  <2>1. e.version \in Versions /\ Stands(e) /\ Committed(e)
    BY DEF ContractsInv, BoardTypes, HandedInv, Envelope
  <2> QED BY <1>1, <1>6, <2>1 DEF Stands, Committed, git
<1>11. BoardTypes' /\ ReadsInv'
  BY <1>1, <1>4, <1>5, <1>6 DEF ContractsInv, BoardTypes, ReadsInv
<1> QED BY <1>4, <1>8, <1>9, <1>10, <1>11 DEF ContractsInv, WritesInv

\* Metadata is written by the one who made it, while nothing of that version was handed over.
LEMMA WriteKeeps == ASSUME ContractsInv, NEW r \in Roots, Write(r) PROVE ContractsInv'
<1> DEFINE h == handoff[r]
           v == handoff[r].version
<1>1. /\ h \in Handoff /\ v \in Versions /\ ReadInv(r) /\ handoff \in [Roots -> Handoff]
      /\ boards \in [Versions -> Board] /\ boards[v] \in Board
      /\ h.step = "write" /\ UNCHANGED <<finals, traces, git, handed>>
      /\ boards[v].metadata = "partial" /\ ~boards[v].database
  BY DEF ContractsInv, BoardTypes, ReadsInv, Write, Reached, files, spent, Handoff, WritesInv, WriteInv
<1>2. PICK to \in {"check", "idle"} :
          /\ to = "check" =>
                /\ handoff' = [handoff EXCEPT ![r].step = "check"]
                /\ boards' = [boards EXCEPT ![v].metadata = "whole", ![v].of = h.read,
                                            ![v].base = h.base]
          /\ to = "idle" => /\ handoff' = [handoff EXCEPT ![r] = Idle]
                            /\ boards' = [boards EXCEPT ![v].metadata = "none"]
  BY DEF Write, To, Refuse
<1> DEFINE g == IF to = "check" THEN [h EXCEPT !.step = "check"] ELSE Idle
<1>3. /\ g \in Handoff /\ g.step = to
      /\ to = "check" => g.base = h.base /\ g.read = h.read /\ g.moved = h.moved /\ g.version = v
  <2>1. CASE to = "check"
    BY <1>1, <2>1 DEF Handoff, Steps
  <2>2. CASE to = "idle"
    BY <2>2, IdleIsHandoff
  <2> QED BY <2>1, <2>2
<1>4. handoff' = [handoff EXCEPT ![r] = g]
  BY <1>1, <1>2
<1> HIDE DEF g
<1>5. /\ handoff' \in [Roots -> Handoff] /\ handoff'[r] = g /\ TreeTypes'
      /\ \A q \in Roots \ {r} : handoff'[q] = handoff[q] /\ ReadInv(q)'
  BY <1>1, <1>3, <1>4, OtherTreesKeep DEF HandoffStep
<1>6. ReadInv(r)'
  BY <1>1, <1>2, <1>3, <1>5 DEF ReadInv, Compared, git
<1>7. /\ boards' \in [Versions -> Board]
      /\ \A u \in Versions \ {v} : boards'[u] = boards[u]
  <2>1. CASE to = "check"
    <3> DEFINE b == [boards[v] EXCEPT !.metadata = "whole", !.of = h.read, !.base = h.base]
    <3>1. boards' = [boards EXCEPT ![v] = b]
      BY <1>1, <1>2, <2>1 DEF Board
    <3>2. b \in Board
      BY <1>1 DEF Board, Handoff
    <3> HIDE DEF b
    <3> QED BY <1>1, <3>1, <3>2
  <2>2. CASE to = "idle"
    BY <1>1, <1>2, <2>2 DEF Board
  <2> QED BY <1>2, <2>1, <2>2
<1>8. HoldersApart'
  BY <1>1, <1>2, <1>3, <1>5 DEF ContractsInv, WritesInv, HoldersApart, Holding
<1>9. \A q \in Roots : WriteInv(q)'
  <2> SUFFICES ASSUME NEW q \in Roots, handoff'[q].step = "write" PROVE WriteInv(q)'
    BY DEF WriteInv
  <2>1. q # r
    BY <1>2, <1>3, <1>5
  <2>2. handoff'[q] = handoff[q] /\ handoff[q].version \in Versions /\ WriteInv(q)
    BY <1>1, <1>5, <2>1 DEF ContractsInv, WritesInv, Handoff
  <2>3. handoff[q].version # v
    BY <1>1, <2>1, <2>2 DEF ContractsInv, WritesInv, HoldersApart, Holding
  <2> QED BY <1>7, <2>2, <2>3 DEF WriteInv
<1>10. HandedInv'
  <2> SUFFICES ASSUME NEW e \in handed PROVE Stands(e)' /\ Committed(e)'
    BY <1>1 DEF HandedInv
  <2>1. e.version \in Versions /\ Stands(e) /\ Committed(e)
    BY DEF ContractsInv, BoardTypes, HandedInv, Envelope
  <2>2. e.version # v
    BY <1>1, <2>1 DEF Stands
  <2> QED BY <1>1, <1>7, <2>1, <2>2 DEF Stands, Committed, git
<1>11. BoardTypes' /\ ReadsInv'
  BY <1>1, <1>5, <1>6, <1>7 DEF ContractsInv, BoardTypes, ReadsInv
<1> QED BY <1>5, <1>8, <1>9, <1>10, <1>11 DEF ContractsInv, WritesInv

LEMMA CheckKeeps == ASSUME ContractsInv, NEW r \in Roots, Check(r) PROVE ContractsInv'
<1>1. CASE Refuse(r)
  BY <1>1, RefuseKeeps DEF Check, Only, files, spent
<1>2. CASE To(r, "init")
  <2> DEFINE h == handoff[r]
             g == [h EXCEPT !.step = "init"]
  <2>1. /\ h \in Handoff /\ ReadInv(r) /\ handoff \in [Roots -> Handoff] /\ h.step = "check"
        /\ handoff' = [handoff EXCEPT ![r] = g]
        /\ UNCHANGED <<finals, traces, git, boards, handed>>
    BY <1>2 DEF ContractsInv, BoardTypes, ReadsInv, Check, To, Reached, Only, files, spent, Handoff
  <2>2. g \in Handoff /\ g.step = "init" /\ g.base = h.base /\ g.read = h.read
        /\ g.moved = h.moved /\ g.version = h.version
    BY <2>1 DEF Handoff, Steps
  <2> HIDE DEF g
  <2>3. /\ handoff' \in [Roots -> Handoff] /\ handoff'[r] = g /\ TreeTypes'
        /\ \A q \in Roots \ {r} : handoff'[q] = handoff[q] /\ ReadInv(q)'
    BY <2>1, <2>2, OtherTreesKeep DEF HandoffStep
  <2>4. ReadInv(r)'
    BY <2>1, <2>2, <2>3 DEF ReadInv, Compared, git
  <2>5. WritesInv'
    BY <2>1, <2>2, <2>3 DEF ContractsInv, WritesInv, WriteInv, HoldersApart, Holding
  <2>6. HandedInv'
    BY <2>1 DEF ContractsInv, HandedInv, Stands, Committed, git
  <2> QED BY <2>1, <2>3, <2>4, <2>5, <2>6 DEF ContractsInv, BoardTypes, ReadsInv
<1> QED BY <1>1, <1>2 DEF Check

\* The handing over
LEMMA InitDatabaseKeeps == ASSUME ContractsInv, NEW r \in Roots, InitDatabase(r)
                           PROVE  ContractsInv'
<1> DEFINE h == handoff[r]
           v == handoff[r].version
           e0 == [version |-> v, base |-> h.base, read |-> h.read,
                  digest |-> commits[h.base][v], moved |-> h.moved]
<1>1. /\ h \in Handoff /\ v \in Versions /\ ReadInv(r) /\ handoff \in [Roots -> Handoff]
      /\ boards \in [Versions -> Board] /\ boards[v] \in Board /\ commits \in Seq(Tree)
      /\ h.step = "init" /\ UNCHANGED <<finals, traces, git>> /\ Refuse(r)
      /\ boards' = [boards EXCEPT ![v].database = TRUE]
      /\ handed' \subseteq handed \cup {e0}
      /\ ~MetadataMatches(r) => handed' = handed
  BY DEF ContractsInv, BoardTypes, TreeTypes, ReadsInv, InitDatabase, Reached, files, spent, Handoff
<1>2. /\ h.base \in DOMAIN commits /\ commits[h.base][v] # NoFinal /\ h.base \in Nat
      /\ ~h.moved => commits[h.base][v] = h.read
      /\ commits[h.base] \in Tree /\ commits[h.base][v] \in Nat
  BY <1>1 DEF ReadInv, Compared, Tree
<1>3. e0 \in Envelope
  BY <1>1, <1>2 DEF Envelope, Handoff
<1>4. /\ e0.version = v /\ e0.base = h.base /\ e0.read = h.read
      /\ e0.digest = commits[h.base][v] /\ e0.moved = h.moved
  OBVIOUS
<1> HIDE DEF e0
<1>5. /\ Idle \in Handoff /\ Idle.step = "idle" /\ handoff' = [handoff EXCEPT ![r] = Idle]
  BY <1>1, ContractsAssumption DEF Refuse, Idle, Handoff, Steps, Versions, NoFinal
<1>6. /\ handoff' \in [Roots -> Handoff] /\ handoff'[r] = Idle /\ TreeTypes'
      /\ \A q \in Roots \ {r} : handoff'[q] = handoff[q] /\ ReadInv(q)'
  BY <1>1, <1>5, OtherTreesKeep DEF HandoffStep
<1>7. ReadInv(r)'
  BY <1>5, <1>6 DEF ReadInv, Compared
<1>8. /\ boards' \in [Versions -> Board]
      /\ \A u \in Versions : /\ boards'[u].metadata = boards[u].metadata
                             /\ boards'[u].of = boards[u].of /\ boards'[u].base = boards[u].base
                             /\ boards[u].database => boards'[u].database
                             /\ u # v => boards'[u] = boards[u]
      /\ boards'[v].database
  BY <1>1 DEF Board
<1>9. HoldersApart'
  BY <1>5, <1>6 DEF ContractsInv, WritesInv, HoldersApart, Holding
<1>10. \A q \in Roots : WriteInv(q)'
  <2> SUFFICES ASSUME NEW q \in Roots, handoff'[q].step = "write" PROVE WriteInv(q)'
    BY DEF WriteInv
  <2>1. q # r
    BY <1>5, <1>6
  <2>2. handoff'[q] = handoff[q] /\ handoff[q].version \in Versions /\ WriteInv(q)
    BY <1>1, <1>6, <2>1 DEF ContractsInv, WritesInv, Handoff
  <2>3. handoff[q].version # v
    BY <1>1, <2>1, <2>2 DEF ContractsInv, WritesInv, HoldersApart, Holding
  <2> QED BY <1>8, <2>2, <2>3 DEF WriteInv
<1>11. HandedInv'
  <2> SUFFICES ASSUME NEW e \in handed' PROVE Stands(e)' /\ Committed(e)'
    BY DEF HandedInv
  <2>1. CASE e \in handed
    <3>1. e.version \in Versions /\ Stands(e) /\ Committed(e)
      BY <2>1 DEF ContractsInv, BoardTypes, HandedInv, Envelope
    <3> QED BY <1>1, <1>8, <3>1 DEF Stands, Committed, git
  <2>2. CASE e \notin handed
    <3>1. e = e0 /\ MetadataMatches(r)
      BY <1>1, <2>2
    <3>2. /\ boards[v].metadata = "whole" /\ boards[v].of = h.read /\ boards[v].base = h.base
      BY <3>1 DEF MetadataMatches
    <3> QED BY <1>1, <1>2, <1>4, <1>8, <3>1, <3>2 DEF Stands, Committed, git
  <2> QED BY <2>1, <2>2
<1>12. BoardTypes' /\ ReadsInv'
  BY <1>1, <1>3, <1>6, <1>7, <1>8 DEF ContractsInv, BoardTypes, ReadsInv
<1> QED BY <1>6, <1>9, <1>10, <1>11, <1>12 DEF ContractsInv, WritesInv

LEMMA ArchiveKeeps == ASSUME ContractsInv, NEW v \in Versions, Archive(v) PROVE ContractsInv'
<1>1. /\ boards' = [boards EXCEPT ![v].archived = TRUE] /\ boards \in [Versions -> Board]
      /\ UNCHANGED <<finals, traces, git, handoff, handed>>
  BY DEF Archive, ContractsInv, BoardTypes, files, spent
<1>2. /\ boards' \in [Versions -> Board]
      /\ \A u \in Versions : /\ boards'[u].metadata = boards[u].metadata
                             /\ boards'[u].of = boards[u].of /\ boards'[u].base = boards[u].base
                             /\ boards'[u].database = boards[u].database
  BY <1>1 DEF Board
<1>3. WritesInv'
  <2>1. \A q \in Roots : handoff[q].version \in Versions
    BY DEF ContractsInv, BoardTypes, Handoff
  <2> QED BY <1>1, <1>2, <2>1 DEF ContractsInv, WritesInv, WriteInv, HoldersApart
<1>4. HandedInv'
  <2>1. \A e \in handed : e.version \in Versions
    BY DEF ContractsInv, BoardTypes, Envelope
  <2> QED BY <1>1, <1>2, <2>1 DEF ContractsInv, HandedInv, Stands, Committed, git
<1>5. TreeTypes' /\ BoardTypes' /\ ReadsInv'
  BY <1>1, <1>2 DEF ContractsInv, TreeTypes, BoardTypes, ReadsInv, ReadInv, git
<1> QED BY <1>3, <1>4, <1>5 DEF ContractsInv

LEMMA CrashKeeps == ASSUME ContractsInv, NEW r \in Roots, Crash(r) PROVE ContractsInv'
  BY RefuseKeeps DEF Crash

LEMMA InvHands == ContractsInv => OneCommittedHandoff
<1> SUFFICES ASSUME ContractsInv PROVE OneCommittedHandoff
  OBVIOUS
<1>1. \A e \in handed : Stands(e) /\ Committed(e)
  BY DEF ContractsInv, HandedInv
<1>2. HandoffIsCommitted
  BY <1>1 DEF HandoffIsCommitted, Committed
<1>3. OneHandoffPerVersion
  BY <1>1 DEF OneHandoffPerVersion, Stands, Committed
<1> QED BY <1>2, <1>3 DEF OneCommittedHandoff

\* However many worktrees author, finalize, check out and crash, of each version one text is handed
\* over, with one base, and it is committed there and is what the board of that version names.
THEOREM AlwaysOneCommittedHandoff == ContractsSpec => []OneCommittedHandoff
<1>1. ContractsInit => ContractsInv
  <2> SUFFICES ASSUME ContractsInit PROVE ContractsInv
    OBVIOUS
  <2>1. Idle \in Handoff /\ NoBoard \in Board
    BY ContractsAssumption DEF Idle, Handoff, Steps, Versions, NoFinal, NoBoard, Board
  <2>2. TreeTypes
    BY EmptyIsTree DEF ContractsInit, TreeTypes
  <2>3. BoardTypes
    BY <2>1 DEF ContractsInit, BoardTypes
  <2>4. ReadsInv /\ WritesInv /\ HandedInv
    BY DEF ContractsInit, ReadsInv, ReadInv, WritesInv, WriteInv, HoldersApart, HandedInv, Idle,
           Compared, Holding
  <2> QED BY <2>2, <2>3, <2>4 DEF ContractsInv
<1>2. ContractsInv /\ [ContractsNext]_contractsVars => ContractsInv'
  <2> SUFFICES ASSUME ContractsInv, ContractsNext PROVE ContractsInv'
    BY FrameKeeps DEF contractsVars, files, spent
  <2>1. CASE \/ Begin \/ \E v \in Versions : Archive(v)
    <3>1. Author \in Roots
      BY ContractsAssumption
    <3> QED BY <2>1, <3>1, AuthoringKeeps, ArchiveKeeps
  <2>2. ASSUME NEW r \in Roots, 
               \/ \E s \in Sections : SetSection(r, s)
               \/ Link(r) \/ Unlink(r) \/ CommitFinals(r) \/ Crash(r)
               \/ \E c \in DOMAIN commits : Checkout(r, c)
               \/ \E v \in Versions : Supersede(r, v)
        PROVE  ContractsInv'
    BY <2>2, AuthoringKeeps, LinkKeeps, CommitKeeps, CrashKeeps, CheckoutKeeps
  <2>3. ASSUME NEW r \in Roots, 
               \/ \E v \in Versions : Parse(r, v)
               \/ ReadHead(r) \/ Compare(r)
               \/ Provision(r) \/ Write(r) \/ Check(r) \/ InitDatabase(r)
        PROVE  ContractsInv'
    BY <2>3, ReadingKeeps, ProvisionKeeps, WriteKeeps, CheckKeeps, InitDatabaseKeeps
  <2> QED BY <2>1, <2>2, <2>3 DEF ContractsNext
<1>3. ContractsInv => OneCommittedHandoff
  BY InvHands
<1> QED BY <1>1, <1>2, <1>3, PTL DEF ContractsSpec
=============================================================================
