------------------------------- MODULE Ingest -------------------------------
(***************************************************************************)
(* Ingestion of a journal into the read model (observation/reduce/ingest   *)
(* .py, with the batches and rows of observation/storage.py): one pass at  *)
(* a time under the storage-transition lock, over segments that a live     *)
(* process appends to and rotates, and that retention moves between        *)
(* passes.  A pass may be late, fail or die between any two transactions.  *)
(*                                                                         *)
(* The segments are those of one producer epoch, in order, and its lines   *)
(* belong to one trace: two epochs share nothing but the pass.             *)
(***************************************************************************)
EXTENDS Naturals, Sequences, FiniteSets

CONSTANTS MaxSegments,
          MaxLines,     \* lines ever written
          MaxOdd,       \* of them, lines that are not events of this release
          BatchSize,    \* events per transaction
          MaxFaults     \* failures, expired deadlines, interruptions

ASSUME BoundsAssumption ==
    /\ MaxSegments \in Nat \ {0} /\ MaxLines \in Nat /\ MaxOdd \in Nat
    /\ BatchSize \in Nat \ {0} /\ MaxFaults \in Nat

Segments == 1..MaxSegments

\* An event, an event of an unknown schema version, bytes nobody can parse.
Kinds == {"event", "unknown", "bad"}

\* A segment has a representation, with a cursor of its own, in each directory it is in.
Places == <<"active", "closed", "archive">>
Keys == Segments \X (1..3)
Seg(k) == k[1]
Place(k) == Places[k[2]]
NoKey == <<0, 1>>

VARIABLES
    lines,       \* the whole lines of each segment
    files,       \* the places of its files; "orphan": an archive without its manifest
    alive,       \* the process that writes them
    mirrored,    \* event rows, each with everything derived from it
    proved,      \* those with a derivation proof
    quarantined, \* indexed lines of unknown schema, <<representation, line>>
    cursor,      \* lines of a representation that are done with
    gaps,        \* <<representation, reason, line>>
    pc, todo,    \* the pass: its next step, representations to come
    key, snap, pos, known, \* this one, lines read, lines passed, is its trace known
    batch, count, after,   \* the open transaction: new rows, events; what follows its flush
    exhausted, incomplete, corrupt, rebuilt,
    atStart,     \* observation: lines there were when the pass began
    faults

journal == <<lines, files, alive>>
rows == <<mirrored, proved>>
db == <<rows, quarantined, cursor, gaps>>
reading == <<key, snap, pos, known>>
transaction == <<batch, count, after>>
report == <<exhausted, incomplete, corrupt, rebuilt, atStart>>
pass == <<pc, todo, reading, transaction, report>>
vars == <<journal, db, pass, faults>>

Present(k) == \/ Place(k) \in files[Seg(k)]
              \/ Place(k) = "archive" /\ "orphan" \in files[Seg(k)]
Verified(k) == Place(k) = "archive" => "archive" \in files[Seg(k)]

\* A settled line is a row, or indexed for a release that can read it.
Settled == mirrored \cup {<<Seg(q[1]), q[2]>> : q \in quarantined}

Written == {x \in Segments \X (1..MaxLines) : x[2] <= Len(lines[x[1]])}
Odd == {x \in Written : lines[x[1]][x[2]] # "event"}

Fault == faults < MaxFaults /\ faults' = faults + 1

-----------------------------------------------------------------------------
(* The process that writes, and retention *)

WriteLine(s, kind) ==
    /\ alive /\ "active" \in files[s]
    /\ Cardinality(Written) < MaxLines
    /\ kind # "event" => Cardinality(Odd) < MaxOdd
    /\ lines' = [lines EXCEPT ![s] = Append(@, kind)]
    /\ UNCHANGED <<files, alive>>

Rotate(s) ==
    /\ alive /\ "active" \in files[s] /\ lines[s] # <<>>
    /\ s + 1 \in Segments
    /\ files' = [files EXCEPT ![s] = {"closed"}, ![s + 1] = {"active"}]
    /\ UNCHANGED <<lines, alive>>

CloseJournal(s) ==
    /\ alive /\ "active" \in files[s]
    /\ files' = [files EXCEPT ![s] = IF lines[s] = <<>> THEN {} ELSE {"closed"}]
    /\ alive' = FALSE
    /\ UNCHANGED lines

Die ==
    /\ alive
    /\ alive' = FALSE
    /\ UNCHANGED <<lines, files>>

\* Under the lock of the passes, a segment with only events is archived, an archiving is
\* left half done or completed, half of an archive is discarded.
Retain(s) ==
    /\ pc = "idle"
    /\ files[s] \notin {{}, {"active"}}
    /\ \A i \in 1..Len(lines[s]) : lines[s][i] = "event"
    /\ \E f \in IF "archive" \in files[s] THEN {{"archive"}}
                ELSE {{"closed"}, {"closed", "orphan"}, {"closed", "archive"}, {"archive"}} :
          files' = [files EXCEPT ![s] = f]
    /\ UNCHANGED <<lines, alive>>

Environment ==
    /\ \/ \E s \in Segments : \/ \E kind \in Kinds : WriteLine(s, kind)
                              \/ Rotate(s) \/ CloseJournal(s) \/ Retain(s)
       \/ Die
    /\ UNCHANGED <<db, pass, faults>>

-----------------------------------------------------------------------------
(* ingest_pending, _ingest_pending_once *)

Release ==
    /\ pc' = "idle" /\ todo' = {}
    /\ key' = NoKey /\ snap' = 0 /\ pos' = 0 /\ known' = FALSE
    /\ batch' = {} /\ count' = 0 /\ after' = "line"
    /\ exhausted' = FALSE /\ incomplete' = FALSE /\ corrupt' = {} /\ rebuilt' = FALSE
    /\ atStart' = [s \in Segments |-> 0]

Begin ==
    /\ pc = "idle"
    /\ pc' = "list"
    /\ atStart' = [s \in Segments |-> Len(lines[s])]
    /\ UNCHANGED <<journal, db, todo, reading, transaction, exhausted, incomplete,
                   corrupt, rebuilt, faults>>

ListedFirst_Moved == {"closed", "archive"}   \* the directories in the other order
\* active/ is listed before the directories its segments move to.
ListedFirst == {"active"}
ListedLater_Closed == {"closed"}   \* archives are taken to have been read when they were closed
ListedLater == {Places[p] : p \in 1..3} \ ListedFirst

Listing(places) == {k \in Keys : Place(k) \in places /\ Present(k)}

List ==
    /\ \/ pc = "list" /\ todo' = Listing(ListedFirst) /\ pc' = "rest"
       \/ pc = "rest" /\ todo' = todo \cup Listing(ListedLater) /\ pc' = "next"
    /\ UNCHANGED <<journal, db, reading, transaction, report, faults>>

\* By first sequence, then in the order of the listing.
First(keys) == CHOOSE k \in keys : \A j \in keys :
    Seg(k) < Seg(j) \/ (Seg(k) = Seg(j) /\ k[2] <= j[2])

TraceKnown_Never == FALSE   \* only what the pass itself has read counts
TraceKnown == mirrored # {}

NextSegment ==
    /\ pc = "next" /\ todo # {} /\ ~incomplete /\ ~exhausted
    /\ key' = First(todo) /\ todo' = todo \ {key'}
    /\ known' = TraceKnown
    /\ pc' = "open"
    /\ UNCHANGED <<journal, db, snap, pos, transaction, report, faults>>

Complete == ~incomplete /\ todo = {}

EndPass ==
    /\ pc = "next" /\ (todo = {} \/ incomplete \/ exhausted)
    /\ Release
    /\ UNCHANGED <<journal, db, faults>>

\* An active segment of a dead process has an unclean tail.
ProbeEpoch ==
    /\ pc = "probe"
    /\ gaps' = IF /\ Place(key) = "active" /\ ~alive /\ mirrored # {}
                  /\ \E s \in Segments : "active" \in files[s]
               THEN gaps \cup {<<key, "unclean", 0>>} ELSE gaps
    /\ pc' = "next"
    /\ key' = NoKey /\ snap' = 0 /\ pos' = 0 /\ known' = FALSE
    /\ UNCHANGED <<journal, rows, quarantined, cursor, todo, transaction, report, faults>>

-----------------------------------------------------------------------------
(* _ingest_segment *)

Gap(reason, line) ==
    gaps' = IF known THEN gaps \cup {<<key, reason, line>>} ELSE gaps

\* The segment is reported corrupt, and nothing more of it is read.
Corrupt(reason, line) ==
    /\ Gap(reason, line)
    /\ corrupt' = corrupt \cup {Seg(key)}
    /\ pc' = "probe"
    /\ UNCHANGED <<journal, rows, quarantined, cursor, todo, reading, transaction,
                   exhausted, incomplete, rebuilt, atStart, faults>>

Readable(k) == Verified(k) /\ Present(k)

OpenFails ==
    /\ pc = "open" /\ ~Readable(key)
    /\ Corrupt(IF Verified(key) THEN "unreadable" ELSE "unverified", 0)

\* The cursor's digest is not that of a prefix any more.
PrefixChanged ==
    /\ pc = "open" /\ Readable(key)
    /\ cursor[key] > Len(lines[Seg(key)])
    /\ Corrupt("prefix", 0)

ReadSegment ==
    /\ pc = "open" /\ Readable(key)
    /\ cursor[key] <= Len(lines[Seg(key)])
    /\ snap' = Len(lines[Seg(key)]) /\ pos' = cursor[key]
    /\ pc' = "line"
    /\ UNCHANGED <<journal, db, todo, key, known, transaction, report, faults>>

\* The next line, unless the time is up before a transaction is begun.
Reading(kind) ==
    /\ pc = "line" /\ pos < snap
    /\ ~(exhausted /\ count = 0)
    /\ lines[Seg(key)][pos + 1] = kind
Event == <<Seg(key), pos + 1>>

\* What there is of a transaction is committed and the cursor written, then the pass
\* goes on at the given step.
Flush(step) ==
    /\ pc' = IF count > 0 THEN "commit" ELSE step
    /\ after' = IF count > 0 THEN step ELSE "line"
    /\ UNCHANGED <<batch, count>>

ProjectEvent ==
    /\ Reading("event")
    /\ Event \notin mirrored \ proved
    /\ batch' = batch \cup ({Event} \ mirrored)
    /\ count' = count + 1 /\ pos' = pos + 1 /\ known' = TRUE
    /\ pc' = IF count' = BatchSize \/ exhausted THEN "commit" ELSE "line"
    /\ UNCHANGED <<journal, db, todo, key, snap, after, report, faults>>

\* A row whose derivation is unproved ends the pass; a rebuild leaves no such row, and
\* the error of a second one cannot occur.
RebuildRequired ==
    /\ Reading("event")
    /\ Event \in mirrored \ proved /\ ~rebuilt
    /\ batch' = {} /\ count' = 0 /\ after' = "line"
    /\ pc' = "rebuild"
    /\ UNCHANGED <<journal, db, todo, reading, report, faults>>

\* The row or what is derived from it is refused: the savepoint undoes the event alone.
ProjectionFails ==
    /\ Reading("event") /\ Fault
    /\ known' = TRUE
    /\ Flush("stop")
    /\ UNCHANGED <<journal, db, todo, key, snap, pos, report>>

UnknownSchema ==
    /\ Reading("unknown")
    /\ known' = TRUE
    /\ Flush("index")
    /\ UNCHANGED <<journal, db, todo, key, snap, pos, report, faults>>

BadLine ==
    /\ Reading("bad")
    /\ Flush("stop")
    /\ UNCHANGED <<journal, db, todo, reading, report, faults>>

\* The cursor stays before the line, which the next pass reads again.
Stop == pc = "stop" /\ Corrupt("line", pos + 1)

BudgetStop ==
    /\ pc = "line" /\ pos < snap /\ exhausted /\ count = 0
    /\ incomplete' = TRUE
    /\ pc' = "probe"
    /\ UNCHANGED <<journal, db, todo, reading, transaction, exhausted, corrupt, rebuilt,
                   atStart, faults>>

EndOfLines ==
    /\ pc = "line" /\ pos = snap
    /\ Flush("probe")
    /\ UNCHANGED <<journal, db, todo, reading, report, faults>>

Commit ==
    /\ pc = "commit"
    /\ mirrored' = mirrored \cup batch /\ proved' = proved \cup batch
    /\ batch' = {} /\ pc' = "checkpoint"
    /\ UNCHANGED <<journal, quarantined, cursor, gaps, todo, reading, count, after, report,
                   faults>>

\* A transaction flushed for want of time is the last of the pass.
Checkpoint ==
    /\ pc = "checkpoint"
    /\ cursor' = [cursor EXCEPT ![key] = pos]
    /\ count' = 0 /\ after' = "line"
    /\ pc' = IF after = "line" /\ exhausted THEN "probe" ELSE after
    /\ incomplete' = (after = "line" /\ exhausted)
    /\ UNCHANGED <<journal, rows, quarantined, gaps, todo, reading, batch, exhausted, corrupt,
                   rebuilt, atStart, faults>>

\* A line of unknown schema is indexed, passed, and reported: three transactions.
Quarantine ==
    /\ pc = "index"
    /\ quarantined' = quarantined \cup {<<key, pos + 1>>}
    /\ pc' = "pass"
    /\ UNCHANGED <<journal, rows, cursor, gaps, todo, reading, transaction, report, faults>>

PassQuarantined ==
    /\ pc = "pass"
    /\ cursor' = [cursor EXCEPT ![key] = pos + 1]
    /\ pos' = pos + 1
    /\ pc' = "note"
    /\ UNCHANGED <<journal, rows, quarantined, gaps, todo, key, snap, known, transaction,
                   report, faults>>

ReportQuarantined ==
    /\ pc = "note"
    /\ Gap("schema", pos)
    /\ pc' = "line"
    /\ UNCHANGED <<journal, rows, quarantined, cursor, todo, reading, transaction, report,
                   faults>>

NoCursors == [k \in Keys |-> 0]

Rebuild_KeepsCursors ==   \* the new database inherits the cursors of the old one
    /\ pc = "rebuild"
    /\ mirrored' = {} /\ proved' = {} /\ quarantined' = {} /\ gaps' = {}
    /\ pc' = "list" /\ rebuilt' = TRUE
    /\ todo' = {} /\ corrupt' = {}
    /\ key' = NoKey /\ snap' = 0 /\ pos' = 0 /\ known' = FALSE
    /\ UNCHANGED <<journal, cursor, transaction, exhausted, incomplete, atStart, faults>>
\* An empty database replaces the old one by a rename, and the pass starts over.
Rebuild ==
    /\ pc = "rebuild"
    /\ mirrored' = {} /\ proved' = {} /\ quarantined' = {} /\ gaps' = {}
    /\ cursor' = NoCursors
    /\ pc' = "list" /\ rebuilt' = TRUE
    /\ todo' = {} /\ corrupt' = {}
    /\ key' = NoKey /\ snap' = 0 /\ pos' = 0 /\ known' = FALSE
    /\ UNCHANGED <<journal, transaction, exhausted, incomplete, atStart, faults>>

-----------------------------------------------------------------------------
Deadline ==
    /\ pc # "idle" /\ ~exhausted /\ Fault
    /\ exhausted' = TRUE
    /\ UNCHANGED <<journal, db, pc, todo, reading, transaction, incomplete, corrupt, rebuilt,
                   atStart>>

\* The process of the pass dies, or an exception ends the pass, which then tries to
\* save the events it has projected.
Interrupt ==
    /\ pc # "idle" /\ Fault
    /\ \/ UNCHANGED <<rows, cursor>>
       \/ /\ pc = "line" /\ count > 0
          /\ mirrored' = mirrored \cup batch /\ proved' = proved \cup batch
          /\ cursor' \in {cursor, [cursor EXCEPT ![key] = pos]}
    /\ Release
    /\ UNCHANGED <<journal, quarantined, gaps>>

\* The machine stops: of the active segment a prefix survives.  Of the database the last
\* transactions may be lost too, which is where a pass interrupted earlier had left it.
PowerLoss ==
    /\ Fault
    /\ \E s \in Segments, n \in 0..MaxLines :
          /\ "active" \in files[s] /\ n <= Len(lines[s])
          /\ lines' = [lines EXCEPT ![s] = SubSeq(@, 1, n)]
    /\ alive' = FALSE
    /\ Release
    /\ UNCHANGED <<files, db>>

\* The database may come from a release that recorded no derivation proofs.
Init ==
    /\ \E old \in {<<>>} \cup (IF MaxLines > 0 THEN {<<"event">>} ELSE {}) :
          /\ lines = [s \in Segments |-> IF s = 1 THEN old ELSE <<>>]
          /\ mirrored = {1} \X (1..Len(old))
          /\ cursor = [NoCursors EXCEPT ![<<1, 1>>] = Len(old)]
    /\ files = [s \in Segments |-> IF s = 1 THEN {"active"} ELSE {}]
    /\ alive = TRUE
    /\ proved = {} /\ quarantined = {} /\ gaps = {}
    /\ pc = "idle" /\ todo = {}
    /\ key = NoKey /\ snap = 0 /\ pos = 0 /\ known = FALSE
    /\ batch = {} /\ count = 0 /\ after = "line"
    /\ exhausted = FALSE /\ incomplete = FALSE /\ corrupt = {} /\ rebuilt = FALSE
    /\ atStart = [s \in Segments |-> 0]
    /\ faults = 0

Step == \/ List \/ NextSegment \/ EndPass \/ ProbeEpoch
        \/ OpenFails \/ PrefixChanged \/ ReadSegment
        \/ ProjectEvent \/ RebuildRequired \/ UnknownSchema \/ BadLine
        \/ BudgetStop \/ EndOfLines \/ Stop
        \/ Commit \/ Checkpoint
        \/ Quarantine \/ PassQuarantined \/ ReportQuarantined \/ Rebuild

Next == Environment \/ Begin \/ Step \/ ProjectionFails \/ Deadline \/ Interrupt \/ PowerLoss

Spec == Init /\ [][Next]_vars

\* Passes are run again and again, and one that runs takes its next step.
LiveSpec == Spec /\ WF_vars(Begin) /\ WF_vars(Step)

-----------------------------------------------------------------------------
\* Every variable keeps to the values the code gives it, and a pass never stands behind
\* the end of what it read.
TypeOK ==
    /\ DOMAIN lines = Segments
    /\ \A s \in Segments : /\ Len(lines[s]) <= MaxLines
                           /\ \A i \in 1..Len(lines[s]) : lines[s][i] \in Kinds
    /\ files \in [Segments -> SUBSET {"active", "closed", "archive", "orphan"}]
    /\ alive \in BOOLEAN
    /\ mirrored \subseteq Segments \X (1..MaxLines) /\ proved \subseteq mirrored
    /\ quarantined \subseteq Keys \X (1..MaxLines)
    /\ cursor \in [Keys -> 0..MaxLines]
    /\ gaps \subseteq Keys \X {"unreadable", "unverified", "prefix", "line", "schema",
                               "unclean"} \X (0..MaxLines)
    /\ pc \in {"idle", "list", "rest", "next", "open", "line", "stop", "probe", "commit",
               "checkpoint", "index", "pass", "note", "rebuild"}
    /\ todo \subseteq Keys /\ key \in Keys \cup {NoKey}
    /\ snap \in 0..MaxLines /\ pos \in 0..snap
    /\ batch \subseteq Segments \X (1..MaxLines) /\ count \in 0..BatchSize
    /\ after \in {"line", "stop", "index", "probe"}
    /\ {known, exhausted, incomplete, rebuilt} \subseteq BOOLEAN
    /\ corrupt \subseteq Segments
    /\ atStart \in [Segments -> 0..MaxLines] /\ faults \in 0..MaxFaults

\* No representation's cursor stands behind a line that is neither a row nor indexed: an
\* interrupted pass never skips what it had not made durable.
CursorCovers == \A k \in Keys : \A i \in 1..cursor[k] : <<Seg(k), i>> \in Settled

\* Of each segment a prefix is mirrored, through whichever representation: nothing
\* behind a line that could not be read or stored.
PrefixMirrored ==
    \A x \in Settled : \A i \in 1..x[2] : <<x[1], i>> \in Settled

\* A pass that reports complete coverage has settled every line there was when it began,
\* except in a segment it counted corrupt: rotations and archivings hide no segment.
CompleteIsSettled ==
    [][EndPass /\ Complete =>
          \A s \in Segments \ corrupt : \A i \in 1..atStart[s] : <<s, i>> \in Settled]_vars

\* A complete pass leaves a gap for every line that stops a segment and was there when it
\* began, whenever the trace of the segment is known from the lines before.
BadLineReported ==
    [][EndPass /\ Complete =>
          \A k \in Keys :
              LET text == lines[Seg(k)] IN
              /\ Present(k) /\ cursor[k] < atStart[Seg(k)]
              /\ text[cursor[k] + 1] = "bad"
              /\ \E i \in 1..cursor[k] : text[i] = "event"
              => <<k, "line", cursor[k] + 1>> \in gaps]_vars

Owing(s) == \E i \in 1..Len(lines[s]) :
    /\ <<s, i>> \notin Settled
    /\ \A j \in 1..i : lines[s][j] # "bad"

\* A segment that has unsettled lines with nothing unreadable before them is caught up
\* with in the end, whatever is renamed, archived, interrupted or rebuilt in between.
CatchesUp == \A s \in Segments : Owing(s) ~> ~Owing(s)
=============================================================================
