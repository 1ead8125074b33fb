----------------------------- MODULE Projection ------------------------------
(***************************************************************************)
(* The SQLite projection of a project and its rebuild beside readers       *)
(* (observation/storage.py, locking.py, ingest_pending).                   *)
(*                                                                         *)
(* Whoever opens the projection holds a shared lease while it is           *)
(* connected.  A pass over the journal holds the storage-transition lock   *)
(* first; when the database lacks a derivation proof the pass closes it,   *)
(* opens it again and rebuilds it: it writes an empty candidate, drains    *)
(* all leases, checkpoints, and renames the candidate over the live name.  *)
(* A database is known by its inode.  Any step may fail and any process    *)
(* may die; the operating system then gives up its locks.                  *)
(***************************************************************************)
EXTENDS Naturals

CONSTANTS Procs, Rows,
          Nobody,
          MaxOpenings, MaxCasualties

ASSUME ProjectionAssumption == Nobody \notin Procs /\ {MaxOpenings, MaxCasualties} \subseteq Nat

VARIABLES
    doing,      \* doing[p]: the step process p is at
    passing,    \* p is in a pass over the journal, and not only reading or summarising
    rebuilding, \* "no", "due" or "done" in the pass of p
    holder,     \* who holds the storage-transition lock
    lease,      \* lease[p] on projection-readers.lock: "none", "shared" or "exclusive"
    live,       \* the inode of the schema's name; 0: there is none
    candidate,  \* the inode of a rebuild candidate's name; 0: there is none
    inodes,     \* how many inodes were made
    conn,       \* conn[p]: the inode p is connected to; 0: none
    \* the rows of an inode's file, of its write-ahead log, and all that were committed to it
    file, wal, committed,
    openings, casualties

projectionVars == <<doing, passing, rebuilding, holder, lease, live, candidate, inodes, conn,
                    file, wal, committed, openings, casualties>>
names == <<live, candidate, inodes>>
contents == <<file, wal, committed>>
counts == <<openings, casualties>>

Inodes == 1 .. 2 * MaxOpenings + 1
At(p, here, there) == doing[p] = here /\ doing' = [doing EXCEPT ![p] = there]
Connected(ino) == {q \in Procs : conn[q] = ino}

-----------------------------------------------------------------------------
(* The two locks *)

BeforeLock_Leased ==   \* the model is opened before the lock is asked for
    "shared"
\* A pass asks for the lock with nothing else in its hands.
BeforeLock == "none"

StartPass(p) ==
    /\ openings < MaxOpenings /\ openings' = openings + 1
    /\ At(p, "out", "queued") /\ passing' = [passing EXCEPT ![p] = TRUE]
    /\ lease' = [lease EXCEPT ![p] = BeforeLock]
    /\ UNCHANGED <<rebuilding, holder, names, conn, contents, casualties>>
StartRead(p) ==
    /\ openings < MaxOpenings /\ openings' = openings + 1
    /\ At(p, "out", "opening")
    /\ UNCHANGED <<passing, rebuilding, holder, lease, names, conn, contents, casualties>>
TakeLock(p) ==
    /\ At(p, "queued", "opening") /\ holder = Nobody /\ holder' = p
    /\ UNCHANGED <<passing, rebuilding, lease, names, conn, contents, counts>>

Leave(p) ==   \* the connection, the lease and the lock are given up on every way out
    /\ doing' = [doing EXCEPT ![p] = "out"]
    /\ passing' = [passing EXCEPT ![p] = FALSE] /\ rebuilding' = [rebuilding EXCEPT ![p] = "no"]
    /\ lease' = [lease EXCEPT ![p] = "none"] /\ conn' = [conn EXCEPT ![p] = 0]
    /\ holder' = IF holder = p THEN Nobody ELSE holder

\* lock_timeout_s is up; a pass of the lifecycle has no such limit.
GiveUp(p) ==
    /\ doing[p] = "queued" /\ holder # Nobody /\ Leave(p)
    /\ UNCHANGED <<names, contents, counts>>

Lease(p) ==
    /\ At(p, "opening", "leased")
    /\ \A q \in Procs \ {p} : lease[q] # "exclusive"
    /\ lease' = [lease EXCEPT ![p] = "shared"]
    /\ UNCHANGED <<passing, rebuilding, holder, names, conn, contents, counts>>

-----------------------------------------------------------------------------
(* Connections *)

\* The name is opened, created if there is none, and compared with what was opened.
Connect(p) ==
    /\ At(p, "leased", IF rebuilding[p] = "due" THEN "building" ELSE "open")
    /\ IF live = 0 THEN inodes' = inodes + 1 /\ live' = inodes + 1 ELSE UNCHANGED <<inodes, live>>
    /\ conn' = [conn EXCEPT ![p] = live']
    /\ UNCHANGED <<passing, rebuilding, holder, lease, candidate, contents, counts>>

Commit(p, r) ==
    /\ doing[p] = "open" /\ r \notin committed[conn[p]]
    /\ wal' = [wal EXCEPT ![conn[p]] = @ \cup {r}]
    /\ committed' = [committed EXCEPT ![conn[p]] = @ \cup {r}]
    /\ UNCHANGED <<doing, passing, rebuilding, holder, lease, names, conn, file, counts>>

\* SQLite moves the log into the file when the last connection closes.
Folded(p) ==
    IF conn[p] # 0 /\ Connected(conn[p]) = {p}
    THEN /\ file' = [file EXCEPT ![conn[p]] = @ \cup wal[conn[p]]]
         /\ wal' = [wal EXCEPT ![conn[p]] = {}]
    ELSE UNCHANGED <<file, wal>>

Close(p) ==
    /\ doing[p] \in {"leased", "open"} /\ Leave(p) /\ Folded(p)
    /\ UNCHANGED <<names, committed, counts>>

\* ProjectionRebuildRequired, once in a pass: the model is closed and opened again.
RebuildRequired(p) ==
    /\ At(p, "open", "opening") /\ passing[p] /\ rebuilding[p] = "no"
    /\ rebuilding' = [rebuilding EXCEPT ![p] = "due"]
    /\ lease' = [lease EXCEPT ![p] = "none"] /\ conn' = [conn EXCEPT ![p] = 0] /\ Folded(p)
    /\ UNCHANGED <<passing, holder, names, committed, counts>>

-----------------------------------------------------------------------------
(* The rebuild *)

\* Stale candidates are removed; an empty one is made, checked and fsynced.
Build(p) ==
    /\ At(p, "building", "upgrading")
    /\ inodes' = inodes + 1 /\ candidate' = inodes + 1
    /\ lease' = [lease EXCEPT ![p] = "none"]   \* converting a flock gives up the old one first
    /\ UNCHANGED <<passing, rebuilding, holder, live, conn, contents, counts>>

Drained_Assumed(p) ==   \* readers are not waited for
    TRUE
Drained(p) == \A q \in Procs \ {p} : lease[q] = "none"

Upgrade(p) ==
    /\ At(p, "upgrading", "exclusive") /\ Drained(p)
    /\ lease' = [lease EXCEPT ![p] = "exclusive"]
    /\ UNCHANGED <<passing, rebuilding, holder, names, conn, contents, counts>>

\* wal_checkpoint(TRUNCATE), and the old connection is closed.
Checkpoint(p) ==
    /\ At(p, "exclusive", "sealed")
    /\ file' = [file EXCEPT ![conn[p]] = @ \cup wal[conn[p]]]
    /\ wal' = [wal EXCEPT ![conn[p]] = {}]
    /\ conn' = [conn EXCEPT ![p] = 0]
    /\ UNCHANGED <<passing, rebuilding, holder, lease, names, committed, counts>>

RemoveSidecars(p) ==
    /\ At(p, "sealed", "bare") /\ wal' = [wal EXCEPT ![live] = {}]
    /\ UNCHANGED <<passing, rebuilding, holder, lease, names, conn, file, committed, counts>>

Replace(p) ==
    /\ At(p, "bare", "replaced") /\ live' = candidate /\ candidate' = 0
    /\ UNCHANGED <<passing, rebuilding, holder, lease, inodes, conn, contents, counts>>

Reconnect(p) ==
    /\ At(p, "replaced", "rebuilt")
    /\ conn' = [conn EXCEPT ![p] = live] /\ lease' = [lease EXCEPT ![p] = "shared"]
    /\ UNCHANGED <<passing, rebuilding, holder, names, contents, counts>>

\* The model is closed once more, and the pass starts anew on the empty database.
StartAnew(p) ==
    /\ At(p, "rebuilt", "opening") /\ rebuilding' = [rebuilding EXCEPT ![p] = "done"]
    /\ lease' = [lease EXCEPT ![p] = "none"] /\ conn' = [conn EXCEPT ![p] = 0] /\ Folded(p)
    /\ UNCHANGED <<passing, holder, names, committed, counts>>

\* A step of the rebuild fails.  The lease is shared again before the old name is reconnected,
\* whichever database has it now, and the candidate is removed.
RebuildFails(p) ==
    /\ At(p, doing[p], "failed")
    /\ doing[p] \in {"building", "exclusive", "sealed", "bare", "replaced"}
    /\ casualties < MaxCasualties /\ casualties' = casualties + 1
    /\ lease' = [lease EXCEPT ![p] = "shared"] /\ candidate' = 0
    /\ UNCHANGED <<passing, rebuilding, holder, live, inodes, conn, contents, openings>>
FallBack(p) ==
    /\ At(p, "failed", "restored") /\ conn' = [conn EXCEPT ![p] = live]
    /\ UNCHANGED <<passing, rebuilding, holder, lease, names, contents, counts>>
Raised(p) ==   \* the exception leaves the pass, with or without a connection
    /\ doing[p] \in {"failed", "restored"} /\ Leave(p) /\ Folded(p)
    /\ UNCHANGED <<names, committed, counts>>

ProcessDies(p) ==
    /\ doing[p] # "out" /\ casualties < MaxCasualties /\ casualties' = casualties + 1
    /\ Leave(p) /\ UNCHANGED <<names, contents, openings>>

-----------------------------------------------------------------------------
ProjectionInit ==
    /\ doing = [p \in Procs |-> "out"] /\ passing = [p \in Procs |-> FALSE]
    /\ rebuilding = [p \in Procs |-> "no"] /\ holder = Nobody
    /\ lease = [p \in Procs |-> "none"] /\ conn = [p \in Procs |-> 0]
    /\ live = 0 /\ candidate = 0 /\ inodes = 0
    /\ file = [n \in Inodes |-> {}] /\ wal = file /\ committed = file
    /\ openings = 0 /\ casualties = 0

\* What a process that was started goes on with.
GoesOn(p) ==
    \/ TakeLock(p) \/ Lease(p) \/ Connect(p) \/ Close(p) \/ RebuildRequired(p)
    \/ Build(p) \/ Upgrade(p) \/ Checkpoint(p) \/ RemoveSidecars(p) \/ Replace(p)
    \/ Reconnect(p) \/ StartAnew(p) \/ FallBack(p) \/ Raised(p)
    \/ \E r \in Rows : Commit(p, r)

ProjectionNext ==
    \E p \in Procs :
        \/ StartPass(p) \/ StartRead(p) \/ GiveUp(p) \/ GoesOn(p) \/ RebuildFails(p) \/ ProcessDies(p)

ProjectionSpec == ProjectionInit /\ [][ProjectionNext]_projectionVars
ProjectionLiveSpec == ProjectionSpec /\ \A p \in Procs : WF_projectionVars(GoesOn(p))

-----------------------------------------------------------------------------
(* Whoever is connected is connected to the database that has the name, so that nobody writes
   to one that was replaced; and that database holds every row committed to it, also when a
   rebuild fails or dies after it closed it or removed its log (_rebuild_locked). *)
OneDatabase ==
    /\ \A p \in Procs : conn[p] # 0 => conn[p] = live
    /\ live # 0 => file[live] \cup wal[live] = committed[live]

(* A rebuild that waits for the readers does not wait for ever: nobody who holds a lease waits
   for the lock the rebuilding pass holds (ingest_pending, _ProjectionReaderLease.upgrade). *)
DrainEnds == \A p \in Procs : doing[p] = "upgrading" ~> doing[p] # "upgrading"
=============================================================================
