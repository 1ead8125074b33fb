---------------------------- MODULE IngestProofs ----------------------------
(***************************************************************************)
(* Proofs about Ingest, for every number of segments, lines, events to a   *)
(* transaction and faults: the types, that no cursor skips a line, that    *)
(* what is mirrored of a segment is a prefix, and that a pass which        *)
(* reports complete coverage has settled every line it found.              *)
(***************************************************************************)
EXTENDS Ingest, FiniteSetTheorems, FunctionTheorems, SequenceTheorems,
        WellFoundedInduction, TLAPS

-----------------------------------------------------------------------------
(* The inductive invariant: types *)

\* The steps at a line of the segment that is read, the steps at a segment, the loop.
AtLine == {"line", "stop", "commit", "checkpoint", "index", "pass", "note"}
AtSegment == {"open"} \cup AtLine
InLoop == {"next", "probe"} \cup AtSegment

JournalOK ==
    /\ lines \in [Segments -> Seq(Kinds)]
    /\ \A s \in Segments : Len(lines[s]) <= MaxLines
    /\ files \in [Segments -> SUBSET {"active", "closed", "archive", "orphan"}]
    /\ alive \in BOOLEAN

Reasons == {"unreadable", "unverified", "prefix", "line", "schema", "unclean"}
DbOK ==
    /\ mirrored \subseteq Segments \X (1..MaxLines) /\ proved \subseteq mirrored
    /\ quarantined \subseteq Keys \X (1..MaxLines)
    /\ cursor \in [Keys -> 0..MaxLines]
    /\ gaps \subseteq Keys \X Reasons \X (0..MaxLines)

ReadingOK ==
    /\ todo \subseteq Keys /\ key \in Keys \cup {NoKey}
    /\ snap \in 0..MaxLines /\ pos \in 0..snap /\ known \in BOOLEAN
TransactionOK ==
    /\ batch \subseteq Segments \X (1..MaxLines) /\ count \in 0..BatchSize
    /\ after \in {"line", "stop", "index", "probe"}
ReportOK ==
    /\ {exhausted, incomplete, rebuilt} \subseteq BOOLEAN
    /\ corrupt \subseteq Segments
    /\ atStart \in [Segments -> 0..MaxLines]

KeyGiven == pc \in {"probe"} \cup AtSegment => key \in Keys

\* A transaction is flushed before it is larger than a batch, and none is left open
\* where another could be begun.
Counting ==
    /\ pc = "line" => count < BatchSize
    /\ pc = "commit" => count > 0
    /\ pc \notin {"line", "commit", "checkpoint"} => count = 0
    /\ pc \notin {"commit", "checkpoint"} => after = "line"

\* What the pass stops at, or indexes, is a line that was read.
AtNextLine ==
    \/ pc \in {"index", "pass", "stop"}
    \/ pc \in {"commit", "checkpoint"} /\ after \in {"index", "stop"}
    => pos < snap

StepOK ==
    /\ pc \in {"idle", "list", "rest", "next", "open", "line", "stop", "probe", "commit",
               "checkpoint", "index", "pass", "note", "rebuild"}
    /\ KeyGiven /\ Counting /\ AtNextLine

PassOK == ReadingOK /\ TransactionOK /\ ReportOK /\ StepOK
Types == JournalOK /\ DbOK /\ PassOK /\ faults \in 0..MaxFaults

-----------------------------------------------------------------------------
(* The inductive invariant: what is settled *)

\* Only lines that the pass has gone by are in the open transaction.
BatchOpen == /\ batch # {} => pc \in {"line", "commit"} /\ count > 0
             /\ batch \subseteq {Seg(key)} \X (1..pos)

\* The lines before the position are settled or in the open transaction.
Reached == pc \in AtLine => \A i \in 1..pos : <<Seg(key), i>> \in Settled \cup batch

\* A line of unknown schema is passed only when it is indexed.
Indexed == pc = "pass" => <<key, pos + 1>> \in quarantined

Durable == CursorCovers /\ PrefixMirrored /\ BatchOpen /\ Reached /\ Indexed

-----------------------------------------------------------------------------
(* The inductive invariant: what the pass has still to settle *)

\* Behind the segment that is written there is nothing.
Newest == \A s, t \in Segments :
    "active" \in files[s] /\ s < t => files[t] = {} /\ lines[t] = <<>>

\* What was there when the pass began is still there, in some file of its segment.
InJournal == \A s \in Segments :
    /\ atStart[s] <= Len(lines[s])
    /\ lines[s] # <<>> => files[s] \cap {"active", "closed", "archive"} # {}

\* It is in what is read of the segment.
SnapCurrent == pc \in AtLine => atStart[Seg(key)] <= snap

\* A segment that the first half of the listing misses is not active any more.
HalfListed == pc = "rest" =>
    \A s \in Segments : atStart[s] > 0 => <<s, 1>> \in todo \/ "active" \notin files[s]

\* The last transaction of a segment reaches its end.
FlushedAll == pc \in {"commit", "checkpoint"} /\ after = "probe" => pos = snap

\* Every segment is settled, counted corrupt, or still to be read, unless the pass knows
\* that it is incomplete.
DoneWith(s) == \A i \in 1..atStart[s] : <<s, i>> \in Settled
Awaited(s) == \/ \E k \in todo : Seg(k) = s
              \/ pc \in AtSegment /\ Seg(key) = s
Accounted == pc \in InLoop =>
    incomplete \/ \A s \in Segments : DoneWith(s) \/ s \in corrupt \/ Awaited(s)

\* A pass that is incomplete reads no further segment.
OpenEnded == pc \in AtSegment => ~incomplete

Covered ==
    Newest /\ InJournal /\ SnapCurrent /\ HalfListed /\ FlushedAll /\ OpenEnded /\ Accounted

-----------------------------------------------------------------------------
(* The inductive invariant: what the pass has still to report.  The gap of *)
(* a line is recorded when the pass stops there, which is a step of a pass *)
(* that read the representation again: so each one whose cursor is past    *)
(* its start, and that is still there, was listed.                         *)

\* A segment that is written is in one file, and no cursor is about another.
ActiveAlone == \A s \in Segments : "active" \in files[s] =>
    files[s] = {"active"} /\ cursor[<<s, 2>>] = 0 /\ cursor[<<s, 3>>] = 0

ArchivedEvents == \A s \in Segments : files[s] \cap {"archive", "orphan"} # {} =>
    \A i \in 1..Len(lines[s]) : lines[s][i] = "event"

\* As long as the journal grows, no line is settled before it is written.
SettledWritten == alive => \A x \in Settled : x[2] <= Len(lines[x[1]])

IndexedUnknown == \A q \in quarantined :
    q[2] <= Len(lines[Seg(q[1])]) => lines[Seg(q[1])][q[2]] = "unknown"

SnapWritten == pc \in AtLine => snap <= Len(lines[Seg(key)])

\* What the pass has listed of a segment that is not written any more stays until it ends.
ListedStays == \A k \in Keys :
    \/ k \in todo /\ pc \in {"rest"} \cup InLoop
    \/ k = key /\ pc \in {"probe"} \cup AtSegment
    => (Place(k) # "active" => Present(k))

\* The cursor is where the pass is, unless a transaction is open.
Placed == pc \in {"stop", "index", "pass", "note"} \/ (pc = "line" /\ count = 0) =>
    cursor[key] = pos

AtUnknown == pc \in {"index", "pass"} \/ (pc \in {"commit", "checkpoint"} /\ after = "index") =>
    lines[Seg(key)][pos + 1] = "unknown"

\* The trace of a segment is known once one of its events is behind.
EventBefore(k, n) == \E i \in 1..n : i <= Len(lines[Seg(k)]) /\ lines[Seg(k)][i] = "event"
KnownOfRead == /\ pc = "open" /\ EventBefore(key, cursor[key]) => known
               /\ pc \in AtLine /\ EventBefore(key, pos) => known

HalfAwaited == pc = "rest" => \A s \in Segments :
    "active" \in files[s] /\ cursor[<<s, 1>>] > 0 => <<s, 1>> \in todo

\* Every line that has to be reported is, or its representation is still to be read.
Noted(k) == /\ Present(k) /\ cursor[k] < atStart[Seg(k)]
            /\ lines[Seg(k)][cursor[k] + 1] = "bad"
            /\ EventBefore(k, cursor[k])
            => <<k, "line", cursor[k] + 1>> \in gaps
AllNoted == pc \in InLoop => incomplete \/ \A k \in Keys :
    Noted(k) \/ k \in todo \/ (pc \in AtSegment /\ k = key)

Stored == ActiveAlone /\ ArchivedEvents /\ SettledWritten /\ IndexedUnknown
Reporting == /\ SnapWritten /\ ListedStays /\ Placed /\ AtUnknown /\ KnownOfRead
             /\ HalfAwaited /\ AllNoted
Reports == Stored /\ Reporting

IngestInv == Types /\ Durable /\ Covered /\ Reports

-----------------------------------------------------------------------------
(* Lemmas about the helpers *)

LEMMA Least ==
    ASSUME NEW S \in SUBSET Nat, S # {}
    PROVE  \E n \in S : \A m \in S : n <= m
<1> DEFINE R == {ss \in Nat \X Nat : ss[1] < ss[2]}
<1>1. IsWellFoundedOn(R, Nat)
  BY NatLessThanWellFounded DEF OpToRel
<1> HIDE DEF R
<1>2. PICK n \in S : \A m \in S : <<m, n>> \notin R
  BY <1>1, WFMin
<1>3. ASSUME NEW m \in S PROVE n <= m
  <2>1. ~(m < n)
    BY <1>2 DEF R
  <2> QED BY <2>1
<1> QED BY <1>3

\* The segment to be read next is one of those that are to be read.
LEMMA FirstIsOne ==
    ASSUME NEW keys \in SUBSET Keys, keys # {}
    PROVE  First(keys) \in keys
<1> DEFINE Firsts == {k[1] : k \in keys}
<1>1. Firsts \subseteq Nat /\ Firsts # {}
  BY BoundsAssumption DEF Keys, Segments, BoundsAssumption
<1>2. PICK s \in Firsts : \A t \in Firsts : s <= t
  BY <1>1, Least
<1> DEFINE Seconds == {k[2] : k \in {j \in keys : j[1] = s}}
<1>3. Seconds \subseteq Nat /\ Seconds # {}
  BY <1>1, <1>2 DEF Keys
<1>4. PICK p \in Seconds : \A q \in Seconds : p <= q
  BY <1>3, Least
<1>5. PICK k \in keys : k[1] = s /\ k[2] = p
  BY <1>4
<1>6. \A j \in keys : Seg(k) < Seg(j) \/ (Seg(k) = Seg(j) /\ k[2] <= j[2])
  <2> TAKE j \in keys
  <2>1. s <= j[1] /\ (j[1] = s => p <= j[2]) /\ s \in Nat /\ j[1] \in Nat
    BY <1>1, <1>2, <1>4
  <2> QED BY <2>1, <1>5 DEF Seg
<1> QED BY <1>5, <1>6 DEF First

\* While fewer lines are written than the bound, every segment is shorter than it.
LEMMA Room ==
    ASSUME JournalOK, Cardinality(Written) < MaxLines, NEW s \in Segments
    PROVE  Len(lines[s]) < MaxLines
<1>1. MaxLines \in Int /\ MaxSegments \in Int /\ Len(lines[s]) \in Nat
      /\ Len(lines[s]) <= MaxLines
  BY BoundsAssumption DEF BoundsAssumption, JournalOK
<1>2. IsFiniteSet(Segments) /\ IsFiniteSet(1..MaxLines)
  BY <1>1, FS_Interval DEF Segments
<1> IsFiniteSet(Segments \X (1..MaxLines))
  BY <1>2, FS_Product
<1>3. IsFiniteSet(Written)
  BY FS_Subset DEF Written
<1> DEFINE f == [i \in 1..Len(lines[s]) |-> <<s, i>>]
<1>4. f \in Injection(1..Len(lines[s]), Written)
  BY <1>1 DEF Injection, IsInjective, Written
<1>5. Cardinality(1..Len(lines[s])) <= Cardinality(Written)
  BY <1>3, <1>4, FS_Injection
<1>6. Cardinality(1..Len(lines[s])) = Len(lines[s])
  BY <1>1, FS_Interval
<1>7. Cardinality(Written) \in Nat
  BY <1>3, FS_CardinalityType
<1> QED BY <1>1, <1>5, <1>6, <1>7

-----------------------------------------------------------------------------
(* Types *)

LEMMA TypesGiveTypeOK == Types => TypeOK
<1>1. ASSUME lines \in [Segments -> Seq(Kinds)]
      PROVE  /\ DOMAIN lines = Segments
             /\ \A s \in Segments : \A i \in 1..Len(lines[s]) : lines[s][i] \in Kinds
  BY <1>1
<1> QED BY <1>1 DEF Types, TypeOK, JournalOK, DbOK, PassOK, ReadingOK, TransactionOK,
            ReportOK, StepOK, Reasons

LEMMA SegmentOfKey == ASSUME NEW k \in Keys PROVE Seg(k) \in Segments
BY DEF Keys, Seg

LEMMA JournalFrame == ASSUME JournalOK, UNCHANGED journal PROVE JournalOK'
BY DEF JournalOK, journal

LEMMA DbFrame == ASSUME DbOK, UNCHANGED db PROVE DbOK'
BY DEF DbOK, db, rows

LEMMA ReadingFrame == ASSUME ReadingOK, UNCHANGED <<todo, reading>> PROVE ReadingOK'
BY DEF ReadingOK, reading

LEMMA TransactionFrame == ASSUME TransactionOK, UNCHANGED transaction PROVE TransactionOK'
BY DEF TransactionOK, transaction

LEMMA ReportFrame == ASSUME ReportOK, UNCHANGED report PROVE ReportOK'
BY DEF ReportOK, report

\* What releasing the pass leaves is typed.
LEMMA ReleaseOK == ASSUME Release PROVE PassOK'
<1> USE BoundsAssumption DEF BoundsAssumption, Release
<1>1. ReadingOK'
  <2>1. 0 \in 0..MaxLines /\ 0 \in 0..0
    OBVIOUS
  <2> QED BY <2>1 DEF ReadingOK
<1>2. TransactionOK'
  BY DEF TransactionOK
<1>3. ReportOK'
  <2>1. atStart' \in [Segments -> {0}] /\ 0 \in 0..MaxLines
    OBVIOUS
  <2> QED BY <2>1 DEF ReportOK
<1>4. StepOK'
  BY DEF StepOK, KeyGiven, Counting, AtNextLine, AtSegment, AtLine
<1> QED BY <1>1, <1>2, <1>3, <1>4 DEF PassOK

LEMMA ListTypes ==
    ASSUME JournalOK, DbOK, PassOK, List
    PROVE  JournalOK' /\ DbOK' /\ PassOK'
<1> USE BoundsAssumption DEF BoundsAssumption, PassOK, List, Listing
<1>1. JournalOK' /\ DbOK' /\ TransactionOK' /\ ReportOK'
  BY JournalFrame, DbFrame, TransactionFrame, ReportFrame
<1>2. ReadingOK'
  BY DEF ReadingOK, Listing, reading
<1>3. StepOK'
  BY DEF StepOK, KeyGiven, Counting, AtNextLine, AtSegment, AtLine, transaction
<1> QED BY <1>1, <1>2, <1>3

LEMMA NextSegmentTypes ==
    ASSUME JournalOK, DbOK, PassOK, NextSegment
    PROVE  JournalOK' /\ DbOK' /\ PassOK'
<1> USE BoundsAssumption DEF BoundsAssumption, PassOK, NextSegment
<1>0. key' \in todo
  BY FirstIsOne DEF ReadingOK
<1>1. JournalOK' /\ DbOK' /\ TransactionOK' /\ ReportOK'
  BY JournalFrame, DbFrame, TransactionFrame, ReportFrame
<1>2. ReadingOK'
  BY <1>0 DEF ReadingOK, TraceKnown
<1>3. StepOK'
  BY <1>0 DEF StepOK, KeyGiven, Counting, AtNextLine, AtSegment, AtLine, ReadingOK,
     transaction
<1> QED BY <1>1, <1>2, <1>3

LEMMA ProbeEpochTypes ==
    ASSUME JournalOK, DbOK, PassOK, ProbeEpoch
    PROVE  JournalOK' /\ DbOK' /\ PassOK'
<1> USE BoundsAssumption DEF BoundsAssumption, PassOK, ProbeEpoch
<1>0. 0 \in 0..MaxLines /\ 0 \in 0..0
  OBVIOUS
<1>1. JournalOK' /\ TransactionOK' /\ ReportOK'
  BY JournalFrame, TransactionFrame, ReportFrame
<1>2. DbOK'
  BY DEF DbOK, Reasons, rows, StepOK, KeyGiven, AtSegment, AtLine
<1>3. ReadingOK'
  BY <1>0 DEF ReadingOK
<1>4. StepOK'
  BY DEF StepOK, KeyGiven, Counting, AtNextLine, AtSegment, AtLine, transaction
<1> QED BY <1>1, <1>2, <1>3, <1>4

LEMMA OpenFailsTypes ==
    ASSUME JournalOK, DbOK, PassOK, OpenFails
    PROVE  JournalOK' /\ DbOK' /\ PassOK'
<1> USE BoundsAssumption DEF BoundsAssumption, PassOK, OpenFails, Corrupt, Gap, Readable
<1>1. JournalOK' /\ ReadingOK' /\ TransactionOK'
  BY JournalFrame, ReadingFrame, TransactionFrame
<1>2. DbOK'
  BY DEF DbOK, Reasons, rows, StepOK, KeyGiven, AtSegment, AtLine
<1>3. ReportOK'
  BY SegmentOfKey DEF ReportOK, StepOK, KeyGiven, AtSegment, AtLine
<1>4. StepOK'
  BY DEF StepOK, KeyGiven, Counting, AtNextLine, AtSegment, AtLine, reading, transaction
<1> QED BY <1>1, <1>2, <1>3, <1>4

LEMMA PrefixChangedTypes ==
    ASSUME JournalOK, DbOK, PassOK, PrefixChanged
    PROVE  JournalOK' /\ DbOK' /\ PassOK'
<1> USE BoundsAssumption DEF BoundsAssumption, PassOK, PrefixChanged, Corrupt, Gap
<1>1. JournalOK' /\ ReadingOK' /\ TransactionOK'
  BY JournalFrame, ReadingFrame, TransactionFrame
<1>2. DbOK'
  BY DEF DbOK, Reasons, rows, StepOK, KeyGiven, AtSegment, AtLine
<1>3. ReportOK'
  BY SegmentOfKey DEF ReportOK, StepOK, KeyGiven, AtSegment, AtLine
<1>4. StepOK'
  BY DEF StepOK, KeyGiven, Counting, AtNextLine, AtSegment, AtLine, reading, transaction
<1> QED BY <1>1, <1>2, <1>3, <1>4

LEMMA ReadSegmentTypes ==
    ASSUME JournalOK, DbOK, PassOK, ReadSegment
    PROVE  JournalOK' /\ DbOK' /\ PassOK'
<1> USE BoundsAssumption DEF BoundsAssumption, PassOK, ReadSegment
<1>0. /\ snap' \in 0..MaxLines /\ pos' \in 0..snap'
  BY SegmentOfKey DEF JournalOK, DbOK, StepOK, KeyGiven, AtSegment, AtLine
<1>1. JournalOK' /\ DbOK' /\ TransactionOK' /\ ReportOK'
  BY JournalFrame, DbFrame, TransactionFrame, ReportFrame
<1>2. ReadingOK'
  BY <1>0 DEF ReadingOK
<1>3. StepOK'
  BY DEF StepOK, KeyGiven, Counting, AtNextLine, AtSegment, AtLine, transaction
<1> QED BY <1>1, <1>2, <1>3

LEMMA ProjectEventTypes ==
    ASSUME JournalOK, DbOK, PassOK, ProjectEvent
    PROVE  JournalOK' /\ DbOK' /\ PassOK'
<1> USE BoundsAssumption DEF BoundsAssumption, PassOK, ProjectEvent, Reading, Event
<1>0. <<Seg(key), pos + 1>> \in Segments \X (1..MaxLines)
  BY SegmentOfKey DEF ReadingOK, StepOK, KeyGiven, AtSegment, AtLine
<1>1. JournalOK' /\ DbOK' /\ ReportOK'
  BY JournalFrame, DbFrame, ReportFrame
<1>2. ReadingOK'
  BY DEF ReadingOK
<1>3. TransactionOK'
  BY <1>0 DEF TransactionOK, StepOK, Counting
<1>4. StepOK'
  BY DEF StepOK, KeyGiven, Counting, AtNextLine, AtSegment, AtLine, TransactionOK
<1> QED BY <1>1, <1>2, <1>3, <1>4

LEMMA RebuildRequiredTypes ==
    ASSUME JournalOK, DbOK, PassOK, RebuildRequired
    PROVE  JournalOK' /\ DbOK' /\ PassOK'
<1> USE BoundsAssumption DEF BoundsAssumption, PassOK, RebuildRequired, Reading, Event
<1>1. JournalOK' /\ DbOK' /\ ReadingOK' /\ ReportOK'
  BY JournalFrame, DbFrame, ReadingFrame, ReportFrame
<1>2. TransactionOK'
  BY DEF TransactionOK
<1>3. StepOK'
  BY DEF StepOK, KeyGiven, Counting, AtNextLine, AtSegment, AtLine, reading
<1> QED BY <1>1, <1>2, <1>3

LEMMA UnknownSchemaTypes ==
    ASSUME JournalOK, DbOK, PassOK, UnknownSchema
    PROVE  JournalOK' /\ DbOK' /\ PassOK'
<1> USE BoundsAssumption DEF BoundsAssumption, PassOK, UnknownSchema, Reading, Flush
<1>1. JournalOK' /\ DbOK' /\ ReportOK'
  BY JournalFrame, DbFrame, ReportFrame
<1>2. ReadingOK'
  BY DEF ReadingOK
<1>3. TransactionOK'
  BY DEF TransactionOK
<1>4. StepOK'
  BY DEF StepOK, KeyGiven, Counting, AtNextLine, AtSegment, AtLine, TransactionOK,
     ReadingOK
<1> QED BY <1>1, <1>2, <1>3, <1>4

LEMMA BadLineTypes ==
    ASSUME JournalOK, DbOK, PassOK, BadLine
    PROVE  JournalOK' /\ DbOK' /\ PassOK'
<1> USE BoundsAssumption DEF BoundsAssumption, PassOK, BadLine, Reading, Flush
<1>1. JournalOK' /\ DbOK' /\ ReadingOK' /\ ReportOK'
  BY JournalFrame, DbFrame, ReadingFrame, ReportFrame
<1>2. TransactionOK'
  BY DEF TransactionOK
<1>3. StepOK'
  BY DEF StepOK, KeyGiven, Counting, AtNextLine, AtSegment, AtLine, reading,
     TransactionOK, ReadingOK
<1> QED BY <1>1, <1>2, <1>3

LEMMA ProjectionFailsTypes ==
    ASSUME JournalOK, DbOK, PassOK, ProjectionFails
    PROVE  JournalOK' /\ DbOK' /\ PassOK'
<1> USE BoundsAssumption DEF BoundsAssumption, PassOK, ProjectionFails, Reading, Flush,
        Fault
<1>1. JournalOK' /\ DbOK' /\ ReportOK'
  BY JournalFrame, DbFrame, ReportFrame
<1>2. ReadingOK'
  BY DEF ReadingOK
<1>3. TransactionOK'
  BY DEF TransactionOK
<1>4. StepOK'
  BY DEF StepOK, KeyGiven, Counting, AtNextLine, AtSegment, AtLine, TransactionOK,
     ReadingOK
<1> QED BY <1>1, <1>2, <1>3, <1>4

LEMMA BudgetStopTypes ==
    ASSUME JournalOK, DbOK, PassOK, BudgetStop
    PROVE  JournalOK' /\ DbOK' /\ PassOK'
<1> USE BoundsAssumption DEF BoundsAssumption, PassOK, BudgetStop
<1>1. JournalOK' /\ DbOK' /\ ReadingOK' /\ TransactionOK'
  BY JournalFrame, DbFrame, ReadingFrame, TransactionFrame
<1>2. ReportOK'
  BY DEF ReportOK
<1>3. StepOK'
  BY DEF StepOK, KeyGiven, Counting, AtNextLine, AtSegment, AtLine, reading, transaction
<1> QED BY <1>1, <1>2, <1>3

LEMMA EndOfLinesTypes ==
    ASSUME JournalOK, DbOK, PassOK, EndOfLines
    PROVE  JournalOK' /\ DbOK' /\ PassOK'
<1> USE BoundsAssumption DEF BoundsAssumption, PassOK, EndOfLines, Flush
<1>1. JournalOK' /\ DbOK' /\ ReadingOK' /\ ReportOK'
  BY JournalFrame, DbFrame, ReadingFrame, ReportFrame
<1>2. TransactionOK'
  BY DEF TransactionOK
<1>3. StepOK'
  BY DEF StepOK, KeyGiven, Counting, AtNextLine, AtSegment, AtLine, reading, TransactionOK
<1> QED BY <1>1, <1>2, <1>3

LEMMA StopTypes ==
    ASSUME JournalOK, DbOK, PassOK, Stop
    PROVE  JournalOK' /\ DbOK' /\ PassOK'
<1> USE BoundsAssumption DEF BoundsAssumption, PassOK, Stop, Corrupt, Gap
<1>1. JournalOK' /\ ReadingOK' /\ TransactionOK'
  BY JournalFrame, ReadingFrame, TransactionFrame
<1>2. DbOK'
  BY DEF DbOK, Reasons, rows, ReadingOK, AtNextLine, StepOK, KeyGiven, AtSegment, AtLine
<1>3. ReportOK'
  BY SegmentOfKey DEF ReportOK, StepOK, KeyGiven, AtSegment, AtLine
<1>4. StepOK'
  BY DEF StepOK, KeyGiven, Counting, AtNextLine, AtSegment, AtLine, reading, transaction
<1> QED BY <1>1, <1>2, <1>3, <1>4

LEMMA CommitTypes ==
    ASSUME JournalOK, DbOK, PassOK, Commit
    PROVE  JournalOK' /\ DbOK' /\ PassOK'
<1> USE BoundsAssumption DEF BoundsAssumption, PassOK, Commit
<1>1. JournalOK' /\ ReadingOK' /\ ReportOK'
  BY JournalFrame, ReadingFrame, ReportFrame
<1>2. DbOK'
  BY DEF DbOK, TransactionOK
<1>3. TransactionOK'
  BY DEF TransactionOK
<1>4. StepOK'
  BY DEF StepOK, KeyGiven, Counting, AtNextLine, AtSegment, AtLine, reading
<1> QED BY <1>1, <1>2, <1>3, <1>4

LEMMA CheckpointTypes ==
    ASSUME JournalOK, DbOK, PassOK, Checkpoint
    PROVE  JournalOK' /\ DbOK' /\ PassOK'
<1> USE BoundsAssumption DEF BoundsAssumption, PassOK, Checkpoint
<1>0. pos \in 0..MaxLines
  BY DEF ReadingOK
<1>1. JournalOK' /\ ReadingOK'
  BY JournalFrame, ReadingFrame
<1>2. DbOK'
  BY <1>0 DEF DbOK, rows
<1>3. TransactionOK'
  BY DEF TransactionOK
<1>4. ReportOK'
  BY DEF ReportOK
<1>5. StepOK'
  BY DEF StepOK, KeyGiven, Counting, AtNextLine, AtSegment, AtLine, reading, TransactionOK
<1> QED BY <1>1, <1>2, <1>3, <1>4, <1>5

LEMMA QuarantineTypes ==
    ASSUME JournalOK, DbOK, PassOK, Quarantine
    PROVE  JournalOK' /\ DbOK' /\ PassOK'
<1> USE BoundsAssumption DEF BoundsAssumption, PassOK, Quarantine
<1>1. JournalOK' /\ ReadingOK' /\ TransactionOK' /\ ReportOK'
  BY JournalFrame, ReadingFrame, TransactionFrame, ReportFrame
<1>2. DbOK'
  BY DEF DbOK, rows, ReadingOK, AtNextLine, StepOK, KeyGiven, AtSegment, AtLine
<1>3. StepOK'
  BY DEF StepOK, KeyGiven, Counting, AtNextLine, AtSegment, AtLine, reading, transaction
<1> QED BY <1>1, <1>2, <1>3

LEMMA PassQuarantinedTypes ==
    ASSUME JournalOK, DbOK, PassOK, PassQuarantined
    PROVE  JournalOK' /\ DbOK' /\ PassOK'
<1> USE BoundsAssumption DEF BoundsAssumption, PassOK, PassQuarantined
<1>0. /\ pos' = pos + 1 /\ pos' \in 0..MaxLines /\ pos' \in 0..snap
  BY DEF ReadingOK, StepOK, AtNextLine
<1>1. JournalOK' /\ TransactionOK' /\ ReportOK'
  BY JournalFrame, TransactionFrame, ReportFrame
<1>2. DbOK'
  BY <1>0 DEF DbOK, rows
<1>3. ReadingOK'
  BY <1>0 DEF ReadingOK
<1>4. StepOK'
  BY DEF StepOK, KeyGiven, Counting, AtNextLine, AtSegment, AtLine, transaction
<1> QED BY <1>1, <1>2, <1>3, <1>4

LEMMA ReportQuarantinedTypes ==
    ASSUME JournalOK, DbOK, PassOK, ReportQuarantined
    PROVE  JournalOK' /\ DbOK' /\ PassOK'
<1> USE BoundsAssumption DEF BoundsAssumption, PassOK, ReportQuarantined, Gap
<1>1. JournalOK' /\ ReadingOK' /\ TransactionOK' /\ ReportOK'
  BY JournalFrame, ReadingFrame, TransactionFrame, ReportFrame
<1>2. DbOK'
  BY DEF DbOK, Reasons, rows, ReadingOK, StepOK, KeyGiven, AtSegment, AtLine
<1>3. StepOK'
  BY DEF StepOK, KeyGiven, Counting, AtNextLine, AtSegment, AtLine, reading, transaction
<1> QED BY <1>1, <1>2, <1>3

LEMMA RebuildTypes ==
    ASSUME JournalOK, DbOK, PassOK, Rebuild
    PROVE  JournalOK' /\ DbOK' /\ PassOK'
<1> USE BoundsAssumption DEF BoundsAssumption, PassOK, Rebuild, NoCursors
<1>0. 0 \in 0..MaxLines /\ 0 \in 0..0
  OBVIOUS
<1>1. JournalOK' /\ TransactionOK'
  BY JournalFrame, TransactionFrame
<1>2. DbOK'
  BY <1>0 DEF DbOK
<1>3. ReadingOK'
  BY <1>0 DEF ReadingOK
<1>4. ReportOK'
  BY DEF ReportOK
<1>5. StepOK'
  BY DEF StepOK, KeyGiven, Counting, AtNextLine, AtSegment, AtLine, transaction
<1> QED BY <1>1, <1>2, <1>3, <1>4, <1>5

LEMMA BeginTypes ==
    ASSUME JournalOK, DbOK, PassOK, Begin
    PROVE  JournalOK' /\ DbOK' /\ PassOK'
<1> USE BoundsAssumption DEF BoundsAssumption, PassOK, Begin
<1>1. JournalOK' /\ DbOK' /\ ReadingOK' /\ TransactionOK'
  BY JournalFrame, DbFrame, ReadingFrame, TransactionFrame
<1>2. ReportOK'
  BY DEF ReportOK, JournalOK
<1>3. StepOK'
  BY DEF StepOK, KeyGiven, Counting, AtNextLine, AtSegment, AtLine, reading, transaction
<1> QED BY <1>1, <1>2, <1>3

LEMMA DeadlineTypes ==
    ASSUME JournalOK, DbOK, PassOK, Deadline
    PROVE  JournalOK' /\ DbOK' /\ PassOK'
<1> USE BoundsAssumption DEF BoundsAssumption, PassOK, Deadline, Fault
<1>1. JournalOK' /\ DbOK' /\ ReadingOK' /\ TransactionOK'
  BY JournalFrame, DbFrame, ReadingFrame, TransactionFrame
<1>2. ReportOK'
  BY DEF ReportOK
<1>3. StepOK'
  BY DEF StepOK, KeyGiven, Counting, AtNextLine, AtSegment, AtLine, reading, transaction
<1> QED BY <1>1, <1>2, <1>3

\* There is room for the line that is written.
LEMMA WriteLineTypes ==
    ASSUME JournalOK, NEW s \in Segments, NEW kind \in Kinds, WriteLine(s, kind)
    PROVE  JournalOK'
<1>1. Append(lines[s], kind) \in Seq(Kinds)
      /\ Len(Append(lines[s], kind)) = Len(lines[s]) + 1
  BY AppendProperties DEF JournalOK
<1>2. Len(lines[s]) + 1 <= MaxLines
  BY Room, BoundsAssumption DEF WriteLine, JournalOK, BoundsAssumption
<1> QED BY <1>1, <1>2 DEF WriteLine, JournalOK

LEMMA EnvironmentTypes ==
    ASSUME JournalOK, DbOK, PassOK, Environment
    PROVE  JournalOK' /\ DbOK' /\ PassOK'
<1>1. JournalOK'
  <2>1. CASE \E s \in Segments : \E kind \in Kinds : WriteLine(s, kind)
    BY <2>1, WriteLineTypes
  <2>2. CASE \E s \in Segments : Rotate(s)
    BY <2>2 DEF Rotate, JournalOK
  <2>3. CASE \E s \in Segments : CloseJournal(s)
    BY <2>3 DEF CloseJournal, JournalOK
  <2>4. CASE \E s \in Segments : Retain(s)
    <3>1. PICK s \in Segments : Retain(s)
      BY <2>4
    <3>2. PICK f \in SUBSET {"active", "closed", "archive", "orphan"} :
              files' = [files EXCEPT ![s] = f]
      BY <3>1 DEF Retain
    <3> QED BY <3>1, <3>2 DEF Retain, JournalOK
  <2>5. CASE Die
    BY <2>5 DEF Die, JournalOK
  <2> QED BY <2>1, <2>2, <2>3, <2>4, <2>5 DEF Environment
<1>2. DbOK' /\ ReadingOK' /\ TransactionOK' /\ ReportOK'
  BY DbFrame, ReadingFrame, TransactionFrame, ReportFrame DEF Environment, pass, PassOK
<1>3. StepOK'
  BY DEF Environment, pass, PassOK, StepOK, KeyGiven, Counting, AtNextLine, reading,
         transaction
<1> QED BY <1>1, <1>2, <1>3 DEF PassOK

LEMMA InterruptTypes ==
    ASSUME JournalOK, DbOK, PassOK, Interrupt
    PROVE  JournalOK' /\ DbOK' /\ PassOK'
<1> USE DEF Interrupt
<1>1. JournalOK' /\ PassOK'
  BY JournalFrame, ReleaseOK
<1>2. DbOK'
  <2>1. CASE UNCHANGED <<rows, cursor>>
    BY <2>1, DbFrame DEF db
  <2>2. CASE /\ pc = "line"
             /\ mirrored' = mirrored \cup batch /\ proved' = proved \cup batch
             /\ cursor' \in {cursor, [cursor EXCEPT ![key] = pos]}
    <3>1. pos \in 0..MaxLines /\ batch \subseteq Segments \X (1..MaxLines)
      BY BoundsAssumption DEF BoundsAssumption, PassOK, ReadingOK, TransactionOK
    <3> QED BY <2>2, <3>1 DEF DbOK
  <2> QED BY <2>1, <2>2
<1> QED BY <1>1, <1>2

LEMMA PowerLossTypes ==
    ASSUME JournalOK, DbOK, PassOK, PowerLoss
    PROVE  JournalOK' /\ DbOK' /\ PassOK'
<1> USE DEF PowerLoss
<1>1. JournalOK'
  <2>1. PICK s \in Segments, n \in 0..MaxLines :
            n <= Len(lines[s]) /\ lines' = [lines EXCEPT ![s] = SubSeq(@, 1, n)]
    OBVIOUS
  <2>2. \A i \in 1..n : lines[s][i] \in Kinds
    BY <2>1, BoundsAssumption DEF BoundsAssumption, JournalOK
  <2>3. SubSeq(lines[s], 1, n) \in Seq(Kinds) /\ Len(SubSeq(lines[s], 1, n)) = n
    BY <2>2, SubSeqProperties, BoundsAssumption DEF BoundsAssumption
  <2>4. n <= MaxLines
    BY <2>1, BoundsAssumption DEF BoundsAssumption
  <2> HIDE DEF PowerLoss
  <2>5. UNCHANGED files /\ alive' = FALSE
    BY DEF PowerLoss
  <2> QED BY <2>1, <2>3, <2>4, <2>5 DEF JournalOK
<1>2. DbOK' /\ PassOK'
  BY DbFrame, ReleaseOK
<1> QED BY <1>1, <1>2

LEMMA InitTypes == Init => Types
<1> SUFFICES ASSUME Init PROVE Types
  OBVIOUS
<1> USE BoundsAssumption DEF BoundsAssumption, Init
<1>1. PICK old \in {<<>>} \cup (IF MaxLines > 0 THEN {<<"event">>} ELSE {}) :
          /\ lines = [s \in Segments |-> IF s = 1 THEN old ELSE <<>>]
          /\ mirrored = {1} \X (1..Len(old))
          /\ cursor = [NoCursors EXCEPT ![<<1, 1>>] = Len(old)]
  OBVIOUS
<1>2. old \in Seq(Kinds) /\ Len(old) \in 0..MaxLines /\ 0 \in 0..MaxLines
  <2>1. <<>> \in Seq(Kinds) /\ Len(<<>>) = 0
    BY EmptySeq
  <2>2. <<"event">> \in Seq(Kinds) /\ Len(<<"event">>) = 1
    BY DEF Kinds
  <2>3. old = <<>> \/ (MaxLines > 0 /\ old = <<"event">>)
    BY <1>1
  <2>4. 0 \in 0..MaxLines
    OBVIOUS
  <2> HIDE DEF Init
  <2>5. CASE old = <<>>
    BY <2>1, <2>4, <2>5
  <2>6. CASE MaxLines > 0 /\ old = <<"event">>
    <3>1. 1 \in 0..MaxLines
      BY <2>6
    <3> QED BY <2>2, <2>4, <2>6, <3>1
  <2> QED BY <2>3, <2>5, <2>6
<1>3. JournalOK
  BY <1>1, <1>2 DEF JournalOK
<1>4. 1 \in Segments /\ NoKey \notin Keys
  BY DEF Segments, NoKey, Keys
<1>5. DbOK
  <2>1. mirrored \subseteq Segments \X (1..MaxLines)
    BY <1>1, <1>2, <1>4
  <2>2. cursor \in [Keys -> 0..MaxLines]
    BY <1>1, <1>2 DEF NoCursors
  <2> QED BY <2>1, <2>2 DEF DbOK
<1>6. ReadingOK
  <2>1. 0 \in 0..0
    OBVIOUS
  <2> QED BY <1>2, <2>1 DEF ReadingOK
<1>7. TransactionOK /\ StepOK
  BY DEF TransactionOK, StepOK, KeyGiven, Counting, AtNextLine, AtSegment, AtLine
<1>8. ReportOK
  BY <1>2 DEF ReportOK
<1>9. faults \in 0..MaxFaults
  OBVIOUS
<1> QED BY <1>3, <1>5, <1>6, <1>7, <1>8, <1>9 DEF Types, PassOK

LEMMA FaultsCounted ==
    ASSUME faults \in 0..MaxFaults, Next
    PROVE  faults' \in 0..MaxFaults
<1>1. ASSUME Fault PROVE faults' \in 0..MaxFaults
  BY <1>1, BoundsAssumption DEF Fault, BoundsAssumption
<1>2. CASE Step
  BY <1>2 DEF Step, List, NextSegment, EndPass, ProbeEpoch, OpenFails, PrefixChanged,
     Corrupt,
     ReadSegment, ProjectEvent, RebuildRequired, UnknownSchema, BadLine, BudgetStop,
     EndOfLines, Stop, Commit, Checkpoint, Quarantine, PassQuarantined, ReportQuarantined,
     Rebuild
<1>3. CASE Environment \/ Begin
  BY <1>3 DEF Environment, Begin
<1>4. CASE ProjectionFails \/ Deadline \/ Interrupt \/ PowerLoss
  BY <1>1, <1>4 DEF ProjectionFails, Deadline, Interrupt, PowerLoss
<1> QED BY <1>2, <1>3, <1>4 DEF Next

LEMMA EndPassTypes ==
    ASSUME JournalOK, DbOK, PassOK, EndPass
    PROVE  JournalOK' /\ DbOK' /\ PassOK'
BY JournalFrame, DbFrame, ReleaseOK DEF EndPass

LEMMA TypesStep ==
    ASSUME Types, [Next]_vars
    PROVE  Types'
<1> USE DEF Types
<1>1. CASE Next
  <2> faults' \in 0..MaxFaults
    BY <1>1, FaultsCounted
  <2>1. CASE Step
    BY <2>1, ListTypes, NextSegmentTypes, EndPassTypes, ProbeEpochTypes, OpenFailsTypes,
       PrefixChangedTypes, ReadSegmentTypes, ProjectEventTypes, RebuildRequiredTypes,
       UnknownSchemaTypes, BadLineTypes, BudgetStopTypes, EndOfLinesTypes, StopTypes,
       CommitTypes, CheckpointTypes, QuarantineTypes, PassQuarantinedTypes,
       ReportQuarantinedTypes, RebuildTypes DEF Step
  <2>2. CASE Environment \/ Begin \/ ProjectionFails \/ Deadline \/ Interrupt \/ PowerLoss
    BY <2>2, EnvironmentTypes, BeginTypes, ProjectionFailsTypes, DeadlineTypes,
       InterruptTypes, PowerLossTypes
  <2> QED BY <1>1, <2>1, <2>2 DEF Next
<1>2. CASE UNCHANGED vars
  <2>1. JournalOK' /\ DbOK' /\ ReadingOK' /\ TransactionOK' /\ ReportOK'
    BY <1>2, JournalFrame, DbFrame, ReadingFrame, TransactionFrame, ReportFrame
    DEF vars, pass, PassOK
  <2>2. StepOK' /\ faults' = faults
    BY <1>2 DEF vars, pass, PassOK, StepOK, KeyGiven, Counting, AtNextLine, reading,
       transaction
  <2> QED BY <2>1, <2>2 DEF PassOK
<1> QED BY <1>1, <1>2

-----------------------------------------------------------------------------
(* What is settled *)

\* Nothing changes while the read model does not.
LEMMA SettledFrame ==
    ASSUME CursorCovers, PrefixMirrored, UNCHANGED <<mirrored, quarantined, cursor>>
    PROVE  CursorCovers' /\ PrefixMirrored'
BY DEF CursorCovers, PrefixMirrored, Settled

\* What is settled stays so when rows are added.
LEMMA SettledGrows ==
    ASSUME mirrored \subseteq mirrored', quarantined \subseteq quarantined'
    PROVE  Settled \subseteq Settled'
BY DEF Settled

\* Steps that leave the rows and the cursors alone.
LEMMA TransactionDurable ==
    ASSUME Types, Durable,
           \/ Environment \/ Begin \/ List \/ NextSegment \/ EndPass \/ ProbeEpoch
           \/ OpenFails \/ PrefixChanged \/ ProjectEvent \/ RebuildRequired
           \/ UnknownSchema \/ BadLine \/ BudgetStop \/ EndOfLines \/ Stop
           \/ ReportQuarantined \/ ProjectionFails \/ Deadline \/ PowerLoss
    PROVE  BatchOpen' /\ Reached' /\ Indexed'
<1> USE DEF Durable, Types, PassOK, StepOK, Counting, ReadingOK, TransactionOK, BatchOpen,
            Reached, Indexed, AtLine, Settled, rows, db, reading, transaction
<1>1. CASE Environment
  BY <1>1 DEF Environment, pass
<1>2. CASE Begin
  BY <1>2 DEF Begin
<1>3. CASE List
  BY <1>3 DEF List
<1>4. CASE NextSegment
  BY <1>4 DEF NextSegment
<1>5. CASE EndPass
  BY <1>5 DEF EndPass, Release
<1>6. CASE ProbeEpoch
  BY <1>6 DEF ProbeEpoch
<1>7. CASE OpenFails
  BY <1>7 DEF OpenFails, Corrupt
<1>8. CASE PrefixChanged
  BY <1>8 DEF PrefixChanged, Corrupt
<1>9. CASE ProjectEvent
  BY <1>9 DEF ProjectEvent, Reading, Event
<1>10. CASE RebuildRequired
  BY <1>10 DEF RebuildRequired, Reading, Event
<1>11. CASE UnknownSchema
  BY <1>11 DEF UnknownSchema, Reading, Flush
<1>12. CASE BadLine
  BY <1>12 DEF BadLine, Reading, Flush
<1>13. CASE BudgetStop
  BY <1>13 DEF BudgetStop
<1>14. CASE EndOfLines
  BY <1>14 DEF EndOfLines, Flush
<1>15. CASE Stop
  BY <1>15 DEF Stop, Corrupt
<1>16. CASE ReportQuarantined
  BY <1>16 DEF ReportQuarantined
<1>17. CASE ProjectionFails
  BY <1>17 DEF ProjectionFails, Reading, Flush
<1>18. CASE Deadline
  BY <1>18 DEF Deadline
<1>19. CASE PowerLoss
  BY <1>19 DEF PowerLoss, Release
<1> QED BY <1>1, <1>2, <1>3, <1>4, <1>5, <1>6, <1>7, <1>8, <1>9, <1>10, <1>11, <1>12,
           <1>13, <1>14, <1>15, <1>16, <1>17, <1>18, <1>19

LEMMA RowsUntouched ==
    ASSUME \/ Environment \/ Begin \/ List \/ NextSegment \/ EndPass \/ ProbeEpoch
           \/ OpenFails \/ PrefixChanged \/ ReadSegment \/ ProjectEvent \/ RebuildRequired
           \/ UnknownSchema \/ BadLine \/ BudgetStop \/ EndOfLines \/ Stop
           \/ ReportQuarantined \/ ProjectionFails \/ Deadline \/ PowerLoss
    PROVE  UNCHANGED <<mirrored, quarantined, cursor>>
BY DEF db, rows, Environment, Begin, List, NextSegment, EndPass, ProbeEpoch, OpenFails,
       PrefixChanged, ReadSegment, ProjectEvent, RebuildRequired, UnknownSchema, BadLine,
       BudgetStop, EndOfLines, Stop, ReportQuarantined, ProjectionFails, Deadline,
       PowerLoss, Corrupt

\* Reading goes on behind the cursor.
LEMMA ReadSegmentDurable ==
    ASSUME Types, Durable, ReadSegment
    PROVE  Durable'
<1> USE DEF ReadSegment, Durable
<1>1. CursorCovers' /\ PrefixMirrored'
  BY SettledFrame, RowsUntouched
<1>2. BatchOpen' /\ Indexed'
  BY DEF BatchOpen, Indexed, transaction
<1>3. Reached'
  <2>1. key \in Keys /\ Settled' = Settled
    BY DEF Types, PassOK, StepOK, KeyGiven, AtSegment, Settled, db, rows
  <2> QED BY <2>1 DEF CursorCovers, Reached
<1> QED BY <1>1, <1>2, <1>3

\* A transaction makes a prefix longer.
LEMMA CommittedDurable ==
    ASSUME Types, Durable, pc \in {"line", "commit"},
           mirrored' = mirrored \cup batch, UNCHANGED quarantined
    PROVE  /\ PrefixMirrored'
           /\ \A i \in 1..pos : <<Seg(key), i>> \in Settled'
           /\ UNCHANGED cursor => CursorCovers'
<1>1. Settled' = Settled \cup batch
  BY DEF Settled
<1>2. \A i \in 1..pos : <<Seg(key), i>> \in Settled'
  BY <1>1 DEF Durable, Reached, AtLine
<1>3. PrefixMirrored'
  <2> SUFFICES ASSUME NEW x \in Settled', NEW i \in 1..x[2]
               PROVE  <<x[1], i>> \in Settled'
    BY DEF PrefixMirrored
  <2>1. CASE x \in Settled
    BY <1>1, <2>1 DEF Durable, PrefixMirrored
  <2>2. CASE x \in batch
    <3>1. x[1] = Seg(key) /\ x[2] \in 1..pos /\ pos \in Nat
      BY <2>2, BoundsAssumption
      DEF BoundsAssumption, Durable, BatchOpen, Types, PassOK, ReadingOK
    <3>2. i \in 1..pos
      BY <3>1
    <3> QED BY <1>2, <3>1, <3>2
  <2> QED BY <1>1, <2>1, <2>2
<1>4. UNCHANGED cursor => CursorCovers'
  BY <1>1 DEF Durable, CursorCovers
<1> QED BY <1>2, <1>3, <1>4

LEMMA CommitDurable ==
    ASSUME Types, Durable, Commit
    PROVE  Durable'
<1> USE DEF Commit
<1>1. CursorCovers' /\ PrefixMirrored'
  BY CommittedDurable
<1>2. BatchOpen' /\ Indexed'
  BY DEF BatchOpen, Indexed
<1>3. Reached'
  BY CommittedDurable DEF Reached, reading
<1> QED BY <1>1, <1>2, <1>3 DEF Durable

\* The cursor is moved to what has been committed.
LEMMA MovedDurable ==
    ASSUME CursorCovers, NEW n \in Nat, cursor' = [cursor EXCEPT ![key] = n],
           Settled \subseteq Settled', \A i \in 1..n : <<Seg(key), i>> \in Settled',
           cursor \in [Keys -> 0..MaxLines]
    PROVE  CursorCovers'
<1> SUFFICES ASSUME NEW k \in Keys, NEW i \in 1..cursor'[k]
             PROVE  <<Seg(k), i>> \in Settled'
  BY DEF CursorCovers
<1>1. CASE k = key
  BY <1>1
<1>2. CASE k # key
  BY <1>2 DEF CursorCovers
<1> QED BY <1>1, <1>2

LEMMA CheckpointDurable ==
    ASSUME Types, Durable, Checkpoint
    PROVE  Durable'
<1> USE DEF Checkpoint
<1>1. Settled' = Settled /\ batch = {} /\ pos \in Nat
  BY BoundsAssumption
  DEF BoundsAssumption, Settled, rows, Durable, BatchOpen, Types, PassOK, ReadingOK
<1>2. CursorCovers'
  BY <1>1, MovedDurable DEF Durable, Reached, AtLine, Types, DbOK
<1>3. PrefixMirrored'
  BY <1>1 DEF Durable, PrefixMirrored
<1>4. BatchOpen' /\ Reached' /\ Indexed'
  BY <1>1 DEF Durable, BatchOpen, Reached, Indexed, AtLine, reading, Types, PassOK,
              TransactionOK
<1> QED BY <1>2, <1>3, <1>4 DEF Durable

LEMMA QuarantineDurable ==
    ASSUME Types, Durable, Quarantine
    PROVE  Durable'
<1> USE DEF Quarantine
<1>1. batch = {} /\ pos \in Nat
  BY BoundsAssumption DEF BoundsAssumption, Durable, BatchOpen, Types, PassOK, ReadingOK
<1>2. Settled' = Settled \cup {<<Seg(key), pos + 1>>}
  <2>1. mirrored' = mirrored /\ quarantined' = quarantined \cup {<<key, pos + 1>>}
    BY DEF rows
  <2>2. ASSUME NEW x \in Settled' PROVE x \in Settled \/ x = <<Seg(key), pos + 1>>
    <3>1. CASE x \in mirrored
      BY <3>1 DEF Settled
    <3>2. CASE \E q \in quarantined' : x = <<Seg(q[1]), q[2]>>
      BY <2>1, <3>2 DEF Settled
    <3> QED BY <2>1, <2>2, <3>1, <3>2 DEF Settled
  <2>3. Settled \subseteq Settled'
    BY <2>1, SettledGrows
  <2>4. <<Seg(key), pos + 1>> \in Settled'
    <3>1. \E q \in quarantined' : <<Seg(key), pos + 1>> = <<Seg(q[1]), q[2]>>
      <4> HIDE DEF Quarantine
      <4> DEFINE q == <<key, pos + 1>>
      <4>1. q[1] = key /\ q[2] = pos + 1 /\ q \in quarantined'
        BY <2>1
      <4> HIDE DEF q
      <4> QED BY <4>1
    <3> QED BY <3>1 DEF Settled
  <2> QED BY <2>2, <2>3, <2>4
<1>3. \A i \in 1..pos : <<Seg(key), i>> \in Settled
  BY <1>1 DEF Durable, Reached, AtLine
<1>4. CursorCovers'
  BY <1>2 DEF Durable, CursorCovers
<1>5. PrefixMirrored'
  <2> SUFFICES ASSUME NEW x \in Settled', NEW i \in 1..x[2]
               PROVE  <<x[1], i>> \in Settled'
    BY DEF PrefixMirrored
  <2>1. CASE x \in Settled
    BY <1>2, <2>1 DEF Durable, PrefixMirrored
  <2>2. CASE x = <<Seg(key), pos + 1>>
    <3>1. i \in 1..pos \/ i = pos + 1
      BY <1>1, <2>2
    <3> QED BY <1>2, <1>3, <2>2, <3>1
  <2> QED BY <1>2, <2>1, <2>2
<1>6. BatchOpen' /\ Reached' /\ Indexed'
  BY <1>1, <1>2, <1>3 DEF BatchOpen, Reached, Indexed, reading, transaction
<1> QED BY <1>4, <1>5, <1>6 DEF Durable

LEMMA PassQuarantinedDurable ==
    ASSUME Types, Durable, PassQuarantined
    PROVE  Durable'
<1> USE DEF PassQuarantined
<1>1. Settled' = Settled /\ batch = {} /\ pos \in Nat
  BY BoundsAssumption
  DEF BoundsAssumption, Settled, rows, Durable, BatchOpen, Types, PassOK, ReadingOK
<1>2. <<Seg(key), pos + 1>> \in Settled
  <2>1. <<key, pos + 1>> \in quarantined
    BY DEF Durable, Indexed
  <2> QED BY <2>1 DEF Settled
<1>3. \A i \in 1..pos + 1 : <<Seg(key), i>> \in Settled
  <2>1. \A i \in 1..pos + 1 : i \in 1..pos \/ i = pos + 1
    BY <1>1
  <2> QED BY <1>1, <1>2, <2>1 DEF Durable, Reached, AtLine
<1>4. CursorCovers'
  <2>1. pos + 1 \in Nat /\ \A i \in 1..pos + 1 : <<Seg(key), i>> \in Settled'
    BY <1>1, <1>3
  <2>2. CursorCovers /\ cursor \in [Keys -> 0..MaxLines] /\ Settled \subseteq Settled'
    BY <1>1 DEF Durable, Types, DbOK
  <2> QED BY <2>1, <2>2, MovedDurable
<1>5. PrefixMirrored'
  BY <1>1 DEF Durable, PrefixMirrored
<1>6. BatchOpen' /\ Reached' /\ Indexed'
  BY <1>1, <1>3 DEF BatchOpen, Reached, Indexed, transaction
<1> QED BY <1>4, <1>5, <1>6 DEF Durable

LEMMA RebuildDurable ==
    ASSUME Types, Durable, Rebuild
    PROVE  Durable'
<1> USE DEF Rebuild
<1>1. Settled' = {}
  BY DEF Settled
<1>2. CursorCovers' /\ PrefixMirrored'
  BY <1>1 DEF CursorCovers, PrefixMirrored, NoCursors
<1>3. BatchOpen' /\ Reached' /\ Indexed'
  BY DEF Durable, BatchOpen, Reached, Indexed, AtLine, transaction
<1> QED BY <1>2, <1>3 DEF Durable

\* A pass that ends by an exception has saved its transaction, with the cursor, without
\* it, or not at all.
LEMMA InterruptDurable ==
    ASSUME Types, Durable, Interrupt
    PROVE  Durable'
<1> USE DEF Interrupt
<1>1. CursorCovers' /\ PrefixMirrored'
  <2>1. CASE UNCHANGED <<rows, cursor>>
    BY <2>1, SettledFrame DEF rows, Durable
  <2>2. CASE /\ pc = "line"
             /\ mirrored' = mirrored \cup batch
             /\ cursor' \in {cursor, [cursor EXCEPT ![key] = pos]}
    <3>1. /\ PrefixMirrored' /\ (UNCHANGED cursor => CursorCovers')
          /\ \A i \in 1..pos : <<Seg(key), i>> \in Settled'
      BY <2>2, CommittedDurable
    <3>2. Settled \subseteq Settled'
      BY <2>2, SettledGrows
    <3>3. ASSUME cursor' = [cursor EXCEPT ![key] = pos] PROVE CursorCovers'
      <4>1. pos \in Nat
        BY BoundsAssumption DEF BoundsAssumption, Types, PassOK, ReadingOK
      <4> QED BY <3>1, <3>2, <3>3, <4>1, MovedDurable DEF Durable, Types, DbOK
    <3> QED BY <2>2, <3>1, <3>3
  <2> QED BY <2>1, <2>2
<1>2. BatchOpen' /\ Reached' /\ Indexed'
  BY DEF Release, BatchOpen, Reached, Indexed, AtLine
<1> QED BY <1>1, <1>2 DEF Durable

LEMMA DurableStep ==
    ASSUME Types, Durable, [Next]_vars
    PROVE  Durable'
<1>1. CASE UNCHANGED vars
  <2>1. UNCHANGED <<mirrored, quarantined, cursor, pc, key, pos, batch, count>>
    BY <1>1 DEF vars, db, rows, pass, reading, transaction
  <2>2. CursorCovers' /\ PrefixMirrored'
    BY <2>1, SettledFrame DEF Durable
  <2> QED BY <2>1, <2>2 DEF Durable, BatchOpen, Reached, Indexed, Settled
<1>2. CASE \/ Environment \/ Begin \/ List \/ NextSegment \/ EndPass \/ ProbeEpoch
           \/ OpenFails \/ PrefixChanged \/ ProjectEvent \/ RebuildRequired
           \/ UnknownSchema \/ BadLine \/ BudgetStop \/ EndOfLines \/ Stop
           \/ ReportQuarantined \/ ProjectionFails \/ Deadline \/ PowerLoss
  <2>1. CursorCovers' /\ PrefixMirrored'
    BY <1>2, RowsUntouched, SettledFrame DEF Durable
  <2> QED BY <1>2, <2>1, TransactionDurable DEF Durable
<1>3. CASE \/ ReadSegment \/ Commit \/ Checkpoint \/ Quarantine \/ PassQuarantined
           \/ Rebuild \/ Interrupt
  BY <1>3, ReadSegmentDurable, CommitDurable, CheckpointDurable, QuarantineDurable,
     PassQuarantinedDurable, RebuildDurable, InterruptDurable
<1> QED BY <1>1, <1>2, <1>3 DEF Next, Step

LEMMA InitDurable == Init => Durable
<1> SUFFICES ASSUME Init PROVE Durable
  OBVIOUS
<1> USE DEF Init
<1>1. PICK n \in Nat : /\ mirrored = {1} \X (1..n)
                       /\ cursor = [NoCursors EXCEPT ![<<1, 1>>] = n]
  OBVIOUS
<1>2. Settled = {1} \X (1..n)
  BY <1>1 DEF Settled
<1>3. PrefixMirrored
  BY <1>1, <1>2 DEF PrefixMirrored
<1>4. CursorCovers
  BY <1>1, <1>2 DEF CursorCovers, NoCursors, Seg
<1>5. BatchOpen /\ Reached /\ Indexed
  BY DEF BatchOpen, Reached, Indexed, AtLine
<1> QED BY <1>3, <1>4, <1>5 DEF Durable

-----------------------------------------------------------------------------
(* What is still to be settled *)

\* The journal while a pass runs.
LEMMA JournalCovered ==
    ASSUME Newest, InJournal, UNCHANGED <<lines, files, atStart>>
    PROVE  Newest' /\ InJournal'
BY DEF Newest, InJournal

\* A segment that is done with stays so.
LEMMA DoneStays ==
    ASSUME Settled \subseteq Settled', UNCHANGED atStart, NEW s \in Segments, DoneWith(s)
    PROVE  DoneWith(s)'
BY DEF DoneWith

\* No pass, nothing to be settled.
LEMMA IdleCovered ==
    ASSUME Newest', InJournal', pc' = "idle"
    PROVE  Covered'
BY DEF Covered, SnapCurrent, HalfListed, FlushedAll, OpenEnded, Accounted, AtLine,
   AtSegment,
       InLoop

LEMMA WriteLineCovered ==
    ASSUME JournalOK, ReportOK, Newest, InJournal, HalfListed,
           UNCHANGED <<atStart, pc, todo>>,
           NEW s \in Segments, NEW kind \in Kinds, WriteLine(s, kind)
    PROVE  Newest' /\ InJournal' /\ HalfListed'
<1> USE DEF WriteLine, JournalOK
<1>1. /\ Len(Append(lines[s], kind)) = Len(lines[s]) + 1
      /\ \A t \in Segments \ {s} : lines'[t] = lines[t]
      /\ lines'[s] = Append(lines[s], kind)
  BY AppendProperties
<1>2. Newest'
  BY <1>1 DEF Newest, Segments
<1>3. InJournal'
  <2> SUFFICES ASSUME NEW t \in Segments
               PROVE  /\ atStart[t] <= Len(lines'[t])
                      /\ lines'[t] # <<>> => files[t] \cap {"active", "closed", "archive"} # {}
    BY DEF InJournal
  <2>1. CASE t = s
    <3>1. atStart[t] \in Nat /\ Len(lines[t]) \in Nat /\ atStart[t] <= Len(lines[t])
      BY BoundsAssumption DEF BoundsAssumption, ReportOK, InJournal
    <3> QED BY <1>1, <2>1, <3>1
  <2>2. CASE t # s
    BY <1>1, <2>2 DEF InJournal
  <2> QED BY <2>1, <2>2
<1>4. HalfListed'
  BY DEF HalfListed
<1> QED BY <1>2, <1>3, <1>4

LEMMA RotateCovered ==
    ASSUME JournalOK, ReportOK, Newest, InJournal, HalfListed,
           UNCHANGED <<atStart, pc, todo>>,
           NEW s \in Segments, Rotate(s)
    PROVE  Newest' /\ InJournal' /\ HalfListed'
<1> USE DEF Rotate, JournalOK
<1>1. /\ files'[s] = {"closed"} /\ files'[s + 1] = {"active"}
      /\ \A t \in Segments \ {s, s + 1} : files'[t] = files[t]
      /\ lines' = lines /\ lines[s + 1] = <<>> /\ s + 1 \in Segments /\ s \in Nat
  BY DEF Newest, Segments
<1> HIDE DEF Rotate
<1>2. \A t \in Segments : t < s => "active" \notin files[t]
  BY DEF Newest, Rotate
<1>3. \A t \in Segments : s + 1 < t => files[t] = {} /\ lines[t] = <<>>
  BY <1>1 DEF Newest, Rotate, Segments
<1>4. Newest'
  <2> SUFFICES ASSUME NEW r \in Segments, NEW t \in Segments, "active" \in files'[r], r < t
               PROVE  files'[t] = {} /\ lines[t] = <<>>
    BY <1>1 DEF Newest
  <2>1. r = s + 1
    <3>1. r # s /\ ~(r < s)
      BY <1>1, <1>2
    <3>2. ~(s + 1 < r)
      BY <1>1, <1>3
    <3> QED BY <1>1, <3>1, <3>2 DEF Segments
  <2> QED BY <1>1, <1>3, <2>1 DEF Segments
<1>5. InJournal'
  BY <1>1 DEF InJournal
<1>6. HalfListed'
  <2>1. Len(lines[s + 1]) = 0
    BY <1>1
  <2>2. ~(atStart[s + 1] > 0)
    BY <1>1, <2>1, BoundsAssumption DEF BoundsAssumption, InJournal, ReportOK
  <2> QED BY <1>1, <2>2 DEF HalfListed
<1> QED BY <1>4, <1>5, <1>6

LEMMA CloseJournalCovered ==
    ASSUME JournalOK, ReportOK, Newest, InJournal, HalfListed,
           UNCHANGED <<atStart, pc, todo>>,
           NEW s \in Segments, CloseJournal(s)
    PROVE  Newest' /\ InJournal' /\ HalfListed'
<1>1. /\ "active" \in files[s] /\ "active" \notin files'[s] /\ lines' = lines
      /\ lines[s] = <<>> \/ "closed" \in files'[s]
      /\ \A t \in Segments \ {s} : files'[t] = files[t]
  BY DEF CloseJournal, JournalOK
<1>2. Newest'
  BY <1>1 DEF Newest
<1>3. InJournal' /\ HalfListed'
  BY <1>1 DEF InJournal, HalfListed
<1> QED BY <1>2, <1>3

LEMMA RetainCovered ==
    ASSUME JournalOK, Newest, InJournal, UNCHANGED atStart, NEW s \in Segments, Retain(s)
    PROVE  Newest' /\ InJournal'
<1>1. /\ files[s] # {} /\ lines' = lines
      /\ "active" \notin files'[s] /\ files'[s] \cap {"closed", "archive"} # {}
      /\ \A t \in Segments \ {s} : files'[t] = files[t]
  <2>1. PICK f : /\ "active" \notin f /\ f \cap {"closed", "archive"} # {}
                 /\ files' = [files EXCEPT ![s] = f]
    BY DEF Retain
  <2> QED BY <2>1 DEF Retain, JournalOK
<1>2. Newest'
  BY <1>1 DEF Newest
<1>3. InJournal'
  BY <1>1 DEF InJournal
<1> QED BY <1>2, <1>3

LEMMA EnvironmentCovered ==
    ASSUME Types, Covered, Environment
    PROVE  Covered'
<1>1. UNCHANGED <<mirrored, quarantined, pc, todo, key, snap, pos, batch, after, incomplete,
                  corrupt, atStart>>
  BY DEF Environment, db, rows, pass, reading, transaction, report
<1>2. Newest' /\ InJournal' /\ HalfListed'
  <2>1. CASE \E s \in Segments : \E kind \in Kinds : WriteLine(s, kind)
    BY <1>1, <2>1, WriteLineCovered DEF Covered, Types, PassOK
  <2>2. CASE \E s \in Segments : Rotate(s)
    BY <1>1, <2>2, RotateCovered DEF Covered, Types, PassOK
  <2>3. CASE \E s \in Segments : CloseJournal(s)
    BY <1>1, <2>3, CloseJournalCovered DEF Covered, Types, PassOK
  <2>4. CASE \E s \in Segments : Retain(s)
    BY <1>1, <2>4, RetainCovered DEF Covered, Types, Retain, HalfListed
  <2>5. CASE Die
    BY <1>1, <2>5 DEF Die, Covered, Newest, InJournal, HalfListed
  <2> QED BY <2>1, <2>2, <2>3, <2>4, <2>5 DEF Environment
<1>3. SnapCurrent' /\ FlushedAll' /\ OpenEnded' /\ Accounted'
  BY <1>1 DEF Covered, SnapCurrent, FlushedAll, OpenEnded, Accounted, DoneWith, Awaited,
              Settled
<1> QED BY <1>2, <1>3 DEF Covered

\* The steps of the pass leave the journal alone.
LEMMA StepJournal ==
    ASSUME Newest, InJournal, UNCHANGED journal, atStart' = atStart
    PROVE  Newest' /\ InJournal'
BY JournalCovered DEF journal

\* A step within a segment settles more or nothing.
LEMMA WithinCovered ==
    ASSUME Covered, UNCHANGED journal, pc \in AtSegment, pc' \in AtSegment,
           UNCHANGED <<todo, key, incomplete, corrupt, atStart>>,
           mirrored \subseteq mirrored', quarantined \subseteq quarantined',
           SnapCurrent', FlushedAll'
    PROVE  Covered'
<1>1. Newest' /\ InJournal'
  BY StepJournal DEF Covered
<1>2. HalfListed' /\ OpenEnded'
  BY DEF HalfListed, OpenEnded, Covered, AtSegment, AtLine
<1>3. Accounted'
  <2>1. \A s \in Segments : DoneWith(s) \/ s \in corrupt \/ Awaited(s)
    BY DEF Covered, Accounted, OpenEnded, InLoop
  <2>2. \A s \in Segments : DoneWith(s) => DoneWith(s)'
    BY SettledGrows, DoneStays
  <2> QED BY <2>1, <2>2 DEF Accounted, Awaited
<1> QED BY <1>1, <1>2, <1>3 DEF Covered

\* A step that leaves its segment settled or counted corrupt, or makes the pass
\* incomplete.
LEMMA LeaveCovered ==
    ASSUME Covered, UNCHANGED journal, pc \in AtSegment, pc' = "probe",
           UNCHANGED <<todo, key, atStart, mirrored, quarantined>>,
           corrupt \subseteq corrupt',
           incomplete' \/ DoneWith(Seg(key)) \/ Seg(key) \in corrupt'
    PROVE  Covered'
<1>1. Newest' /\ InJournal'
  BY StepJournal DEF Covered
<1>2. SnapCurrent' /\ HalfListed' /\ FlushedAll' /\ OpenEnded'
  BY DEF SnapCurrent, HalfListed, FlushedAll, OpenEnded, AtSegment, AtLine
<1>3. Accounted'
  <2>1. \A s \in Segments : DoneWith(s) \/ s \in corrupt \/ Awaited(s)
    BY DEF Covered, Accounted, OpenEnded, InLoop
  <2>2. \A s \in Segments : DoneWith(s) => DoneWith(s)'
    BY SettledGrows, DoneStays
  <2>3. CASE incomplete'
    BY <2>3 DEF Accounted
  <2>4. CASE ~incomplete'
    <3> SUFFICES ASSUME NEW s \in Segments
                 PROVE  DoneWith(s)' \/ s \in corrupt' \/ Awaited(s)'
      BY DEF Accounted
    <3>1. CASE Seg(key) = s
      BY <2>2, <2>4, <3>1
    <3>2. CASE Seg(key) # s
      BY <2>1, <2>2, <3>2 DEF Awaited
    <3> QED BY <3>1, <3>2
  <2> QED BY <2>3, <2>4
<1> QED BY <1>1, <1>2, <1>3 DEF Covered

\* A segment whose lines are all behind the position is settled.
LEMMA EndReached ==
    ASSUME Types, Durable, Covered, pc \in AtLine, batch = {}, pos = snap
    PROVE  DoneWith(Seg(key))
<1>1. Seg(key) \in Segments
  BY SegmentOfKey DEF Types, PassOK, StepOK, KeyGiven, AtSegment
<1>2. atStart[Seg(key)] \in Nat /\ pos \in Nat /\ atStart[Seg(key)] <= pos
  BY <1>1, BoundsAssumption DEF BoundsAssumption, Types, PassOK, ReadingOK, ReportOK,
     Covered,
     SnapCurrent
<1>3. \A i \in 1..pos : <<Seg(key), i>> \in Settled
  BY DEF Durable, Reached
<1> QED BY <1>2, <1>3 DEF DoneWith

\* Everything there is when the pass begins is in a file that the listing looks for.
LEMMA BeginCovered ==
    ASSUME Types, Covered, Begin
    PROVE  Covered'
<1> USE DEF Begin
<1>1. Newest' /\ InJournal'
  BY DEF Covered, Newest, InJournal, journal, Types, JournalOK
<1> QED BY <1>1 DEF Covered, SnapCurrent, HalfListed, FlushedAll, OpenEnded, Accounted,
           AtLine,
                    AtSegment, InLoop

LEMMA ListCovered ==
    ASSUME Types, Covered, List
    PROVE  Covered'
<1> USE DEF List
<1>1. UNCHANGED <<lines, files, atStart, mirrored, quarantined>>
  BY DEF journal, report, db, rows
<1>2. Newest' /\ InJournal'
  BY <1>1, JournalCovered DEF Covered
<1>3. SnapCurrent' /\ FlushedAll' /\ OpenEnded'
  BY DEF SnapCurrent, FlushedAll, OpenEnded, AtLine, AtSegment
<1>4. \A s \in Segments, p \in 1..3 : \E k \in Keys :
          k = <<s, p>> /\ Seg(k) = s /\ Place(k) = Places[p]
  <2> TAKE s \in Segments, p \in 1..3
  <2>1. <<s, p>> \in Keys
    BY DEF Keys
  <2>2. <<s, p>>[1] = s /\ <<s, p>>[2] = p
    OBVIOUS
  <2> QED BY <2>1, <2>2 DEF Seg, Place
<1>0. Places[1] = "active" /\ Places[2] = "closed" /\ Places[3] = "archive"
  BY DEF Places
<1>5. CASE pc = "list"
  <2>1. \A s \in Segments : "active" \in files[s] => <<s, 1>> \in todo'
    <3> TAKE s \in Segments
    <3> HAVE "active" \in files[s]
    <3>1. PICK k \in Keys : k = <<s, 1>> /\ Seg(k) = s /\ Place(k) = "active"
      BY <1>0, <1>4
    <3>2. k \in todo'
      BY <1>5, <3>1 DEF Listing, ListedFirst, Present
    <3> QED BY <3>1, <3>2
  <2>2. HalfListed'
    BY <1>1, <2>1 DEF HalfListed
  <2>3. Accounted'
    BY <1>5 DEF Accounted, InLoop, AtSegment, AtLine
  <2> QED BY <1>2, <1>3, <2>2, <2>3 DEF Covered
<1>6. CASE pc = "rest"
  <2>1. HalfListed'
    BY <1>6 DEF HalfListed
  <2>2. ASSUME NEW s \in Segments, atStart[s] > 0 PROVE Awaited(s)'
    <3>1. CASE <<s, 1>> \in todo
      <4>1. PICK k \in Keys : k = <<s, 1>> /\ Seg(k) = s
        BY <1>4
      <4>2. k \in todo'
        BY <1>6, <3>1, <4>1
      <4> QED BY <4>1, <4>2 DEF Awaited
    <3>2. CASE "active" \notin files[s]
      <4>1. lines[s] # <<>>
        BY <2>2, BoundsAssumption
        DEF BoundsAssumption, Covered, InJournal, Types, PassOK, ReportOK, JournalOK
      <4>2. "closed" \in files[s] \/ "archive" \in files[s]
        BY <3>2, <4>1 DEF Covered, InJournal
      <4>3. "closed" \in ListedLater /\ "archive" \in ListedLater
        BY <1>0 DEF ListedLater, ListedFirst
      <4>4. PICK k \in Keys : Seg(k) = s /\ Place(k) \in files[s]
                             /\ Place(k) \in {"closed", "archive"}
        BY <1>0, <1>4, <4>2
      <4>5. k \in todo'
        BY <1>6, <4>3, <4>4 DEF Listing, Present
      <4> QED BY <4>4, <4>5 DEF Awaited
    <3> QED BY <1>6, <2>2, <3>1, <3>2 DEF Covered, HalfListed
  <2>3. ASSUME NEW s \in Segments, ~(atStart[s] > 0) PROVE DoneWith(s)'
    BY <1>1, <2>3, BoundsAssumption
    DEF BoundsAssumption, DoneWith, Types, PassOK, ReportOK
  <2>4. Accounted'
    BY <2>2, <2>3 DEF Accounted
  <2> QED BY <1>2, <1>3, <2>1, <2>4 DEF Covered
<1> QED BY <1>5, <1>6

LEMMA NextSegmentCovered ==
    ASSUME Types, Covered, NextSegment
    PROVE  Covered'
<1> USE DEF NextSegment
<1>1. Newest' /\ InJournal'
  BY StepJournal DEF Covered, report
<1>2. SnapCurrent' /\ HalfListed' /\ FlushedAll' /\ OpenEnded'
  BY DEF SnapCurrent, HalfListed, FlushedAll, OpenEnded, AtLine, report
<1>3. Accounted'
  <2>1. \A s \in Segments : DoneWith(s) \/ s \in corrupt \/ \E k \in todo : Seg(k) = s
    BY DEF Covered, Accounted, Awaited, InLoop, AtSegment, AtLine
  <2>2. \A s \in Segments : DoneWith(s) => DoneWith(s)'
    BY DoneStays, SettledGrows DEF db, rows, report
  <2>3. \A s \in Segments : (\E k \in todo : Seg(k) = s) => Awaited(s)'
    BY DEF Awaited, AtSegment
  <2> QED BY <2>1, <2>2, <2>3 DEF Accounted, report
<1> QED BY <1>1, <1>2, <1>3 DEF Covered

LEMMA ProbeEpochCovered ==
    ASSUME Types, Covered, ProbeEpoch
    PROVE  Covered'
<1> USE DEF ProbeEpoch
<1>1. Newest' /\ InJournal'
  BY StepJournal DEF Covered, report
<1>2. SnapCurrent' /\ HalfListed' /\ FlushedAll' /\ OpenEnded'
  BY DEF SnapCurrent, HalfListed, FlushedAll, OpenEnded, AtLine, AtSegment
<1>3. Accounted'
  BY DEF Covered, Accounted, Awaited, DoneWith, Settled, InLoop, AtSegment, AtLine,
     report, rows
<1> QED BY <1>1, <1>2, <1>3 DEF Covered

\* The journal is what it was, or has lost the end of its active segment.
LEMMA EndCovered ==
    ASSUME Types, Covered, EndPass \/ Interrupt \/ PowerLoss
    PROVE  Covered'
<1>1. Release
  BY DEF EndPass, Interrupt, PowerLoss
<1>2. /\ files' = files
      /\ \A s \in Segments : /\ Len(lines'[s]) \in Nat
                             /\ lines[s] = <<>> => lines'[s] = <<>>
  <2>1. CASE EndPass \/ Interrupt
    BY <2>1 DEF EndPass, Interrupt, journal, Types, JournalOK
  <2>2. CASE PowerLoss
    <3>1. JournalOK'
      BY <2>2, PowerLossTypes DEF Types
    <3>2. PICK s \in Segments, n \in 0..MaxLines :
              n <= Len(lines[s]) /\ lines' = [lines EXCEPT ![s] = SubSeq(@, 1, n)]
      BY <2>2 DEF PowerLoss
    <3>3. lines[s] = <<>> => SubSeq(lines[s], 1, n) = <<>>
      <4> HAVE lines[s] = <<>>
      <4>1. n < 1 /\ n \in Int
        BY <3>2, BoundsAssumption DEF BoundsAssumption
      <4> QED BY <4>1, SubSeqEmpty
    <3> QED BY <2>2, <3>1, <3>2, <3>3 DEF PowerLoss, Types, JournalOK
  <2> QED BY <2>1, <2>2
<1>3. Newest' /\ InJournal'
  BY <1>1, <1>2 DEF Covered, Newest, InJournal, Release
<1> QED BY <1>1, <1>3, IdleCovered DEF Release

\* A rebuilt read model is filled by a pass that lists the directories again.
LEMMA RebuiltCovered ==
    ASSUME Types, Covered, RebuildRequired \/ Rebuild
    PROVE  Covered'
<1>1. UNCHANGED journal /\ atStart' = atStart /\ pc' \in {"rebuild", "list"}
  BY DEF RebuildRequired, Rebuild, report
<1>2. Newest' /\ InJournal'
  BY <1>1, StepJournal DEF Covered
<1> QED BY <1>1, <1>2 DEF Covered, SnapCurrent, HalfListed, FlushedAll, OpenEnded,
           Accounted,
                          AtLine, AtSegment, InLoop

\* A segment that cannot be read on is counted corrupt.
LEMMA CorruptCovered ==
    ASSUME Types, Covered, OpenFails \/ PrefixChanged \/ Stop
    PROVE  Covered'
<1>1. /\ pc \in AtSegment /\ pc' = "probe" /\ UNCHANGED journal
      /\ corrupt' = corrupt \cup {Seg(key)}
      /\ UNCHANGED <<todo, key, atStart, mirrored, quarantined>>
  BY DEF OpenFails, PrefixChanged, Stop, Corrupt, AtSegment, AtLine, reading, rows
<1> QED BY <1>1, LeaveCovered

LEMMA ReadSegmentCovered ==
    ASSUME Types, Covered, ReadSegment
    PROVE  Covered'
<1> USE DEF ReadSegment
<1>1. Seg(key) \in Segments
  BY SegmentOfKey DEF Types, PassOK, StepOK, KeyGiven, AtSegment
<1>2. SnapCurrent' /\ FlushedAll'
  BY <1>1 DEF SnapCurrent, FlushedAll, Covered, InJournal, report
<1> QED BY <1>2, WithinCovered DEF AtSegment, AtLine, db, rows, report

\* A line is projected, or what there is of a transaction is flushed before it.
LEMMA LineCovered ==
    ASSUME Types, Covered, ProjectEvent \/ UnknownSchema \/ BadLine \/ ProjectionFails
    PROVE  Covered'
<1>1. UNCHANGED journal /\ UNCHANGED <<todo, key, incomplete, corrupt, atStart, snap>>
      /\ UNCHANGED <<mirrored, quarantined>> /\ pc = "line"
  BY DEF ProjectEvent, UnknownSchema, BadLine, ProjectionFails, Reading, reading,
     report, db,
     rows
<1>2. pc' \in AtSegment /\ FlushedAll'
  BY DEF ProjectEvent, UnknownSchema, BadLine, ProjectionFails, Reading, Flush, AtSegment,
     AtLine, FlushedAll, Types, PassOK, StepOK, Counting
<1>3. SnapCurrent'
  BY <1>1, <1>2 DEF Covered, SnapCurrent, AtLine
<1> QED BY <1>1, <1>2, <1>3, WithinCovered DEF AtSegment, AtLine

LEMMA EndOfLinesCovered ==
    ASSUME Types, Durable, Covered, EndOfLines
    PROVE  Covered'
<1> USE DEF EndOfLines, Flush
<1>1. CASE count > 0
  <2>1. SnapCurrent' /\ FlushedAll'
    BY <1>1 DEF Covered, SnapCurrent, FlushedAll, reading, report, AtLine
  <2> QED BY <1>1, <2>1, WithinCovered DEF AtSegment, AtLine, db, rows, reading, report
<1>2. CASE ~(count > 0)
  <2>1. DoneWith(Seg(key))
    BY <1>2, EndReached DEF AtLine, Durable, BatchOpen
  <2> QED BY <1>2, <2>1, LeaveCovered DEF AtSegment, AtLine, db, rows, reading, report
<1> QED BY <1>1, <1>2

LEMMA BudgetStopCovered ==
    ASSUME Types, Covered, BudgetStop
    PROVE  Covered'
BY LeaveCovered DEF BudgetStop, AtSegment, AtLine, db, rows, reading

LEMMA DeadlineCovered ==
    ASSUME Types, Covered, Deadline
    PROVE  Covered'
<1> USE DEF Deadline
<1>1. Newest' /\ InJournal'
  BY StepJournal DEF Covered
<1>2. UNCHANGED <<pc, todo, key, snap, pos, after, incomplete, corrupt, atStart>>
      /\ Settled' = Settled
  BY DEF Settled, db, rows, reading, transaction
<1>3. SnapCurrent' /\ HalfListed' /\ FlushedAll' /\ OpenEnded'
  BY <1>1, <1>2 DEF Covered, SnapCurrent, HalfListed, FlushedAll, OpenEnded, journal
<1>4. Accounted'
  BY <1>2 DEF Covered, Accounted, DoneWith, Awaited
<1> QED BY <1>1, <1>3, <1>4 DEF Covered

LEMMA CommitCovered ==
    ASSUME Types, Covered, Commit
    PROVE  Covered'
<1> USE DEF Commit
<1>1. SnapCurrent' /\ FlushedAll'
  BY DEF Covered, SnapCurrent, FlushedAll, reading, report, AtLine
<1> QED BY <1>1, WithinCovered DEF AtSegment, AtLine, reading, report

\* The cursor is at the end of the segment, or before a line that is to be dealt with, or
\* the time is up.
LEMMA CheckpointCovered ==
    ASSUME Types, Durable, Covered, Checkpoint
    PROVE  Covered'
<1> USE DEF Checkpoint
<1>1. ~incomplete /\ pc \in AtLine /\ batch = {}
  BY DEF Covered, OpenEnded, AtSegment, AtLine, Durable, BatchOpen
<1>2. after \in {"line", "stop", "index", "probe"}
  BY DEF Types, PassOK, TransactionOK
<1>3. CASE after = "line" /\ exhausted
  BY <1>1, <1>3, LeaveCovered DEF AtSegment, rows, reading
<1>4. CASE after = "probe"
  <2>1. DoneWith(Seg(key))
    BY <1>1, <1>4, EndReached DEF Covered, FlushedAll
  <2> QED BY <1>1, <1>4, <2>1, LeaveCovered DEF AtSegment, rows, reading
<1>5. CASE after # "probe" /\ ~(after = "line" /\ exhausted)
  <2>1. pc' \in AtSegment /\ pc' \in AtLine
    BY <1>2, <1>5 DEF AtSegment, AtLine
  <2>3. incomplete' = incomplete
    <3>1. incomplete \in BOOLEAN
      BY DEF Types, PassOK, ReportOK
    <3>2. incomplete' = FALSE
      BY <1>5
    <3> QED BY <1>1, <3>1, <3>2
  <2>2. SnapCurrent' /\ FlushedAll'
    BY <1>1, <1>2, <1>5 DEF Covered, SnapCurrent, FlushedAll, reading
  <2> QED BY <1>1, <2>1, <2>2, <2>3, WithinCovered DEF AtSegment, rows, reading
<1> QED BY <1>3, <1>4, <1>5

LEMMA QuarantineCovered ==
    ASSUME Types, Covered, Quarantine \/ PassQuarantined \/ ReportQuarantined
    PROVE  Covered'
<1>1. /\ UNCHANGED journal /\ UNCHANGED <<todo, key, incomplete, corrupt, atStart, snap>>
      /\ mirrored' = mirrored /\ quarantined \subseteq quarantined'
      /\ pc \in AtLine /\ pc' \in {"pass", "note", "line"}
  BY DEF Quarantine, PassQuarantined, ReportQuarantined, rows, reading, report, AtLine
<1>2. SnapCurrent' /\ FlushedAll'
  BY <1>1 DEF Covered, SnapCurrent, FlushedAll
<1> QED BY <1>1, <1>2, WithinCovered DEF AtSegment, AtLine

LEMMA CoveredStep ==
    ASSUME Types, Durable, Covered, [Next]_vars
    PROVE  Covered'
<1>1. CASE Step
  BY <1>1, ListCovered, NextSegmentCovered, EndCovered, ProbeEpochCovered, CorruptCovered,
     ReadSegmentCovered, LineCovered, RebuiltCovered, BudgetStopCovered, EndOfLinesCovered,
     CommitCovered, CheckpointCovered, QuarantineCovered DEF Step
<1>2. CASE Environment \/ Begin \/ ProjectionFails \/ Deadline \/ Interrupt \/ PowerLoss
  BY <1>2, EnvironmentCovered, BeginCovered, LineCovered, DeadlineCovered, EndCovered
<1>3. CASE UNCHANGED vars
  <2>1. UNCHANGED <<lines, files, mirrored, quarantined, pc, todo, key, snap, pos, after,
                    incomplete, corrupt, atStart>>
    BY <1>3 DEF vars, journal, db, rows, pass, reading, transaction, report
  <2> QED BY <2>1 DEF Covered, Newest, InJournal, SnapCurrent, HalfListed, FlushedAll,
                      OpenEnded, Accounted, DoneWith, Awaited, Settled
<1> QED BY <1>1, <1>2, <1>3 DEF Next

LEMMA InitCovered == Init => Covered
<1> SUFFICES ASSUME Init PROVE Covered
  OBVIOUS
<1>1. Types
  BY InitTypes
<1>2. /\ \A s \in Segments : s # 1 => lines[s] = <<>> /\ files[s] = {}
      /\ 1 \in Segments => files[1] = {"active"}
      /\ atStart = [s \in Segments |-> 0] /\ pc = "idle"
  BY DEF Init
<1>3. InJournal
  <2> SUFFICES ASSUME NEW s \in Segments
               PROVE  /\ atStart[s] <= Len(lines[s])
                      /\ lines[s] # <<>> => files[s] \cap {"active", "closed", "archive"} # {}
    BY DEF InJournal
  <2>1. Len(lines[s]) \in Nat
    BY <1>1 DEF Types, JournalOK
  <2> QED BY <1>2, <2>1
<1>4. Newest
  BY <1>2 DEF Newest, Segments
<1> QED BY <1>2, <1>3, <1>4 DEF Covered, SnapCurrent, HalfListed, FlushedAll, OpenEnded,
                                Accounted, AtLine, AtSegment, InLoop

-----------------------------------------------------------------------------
(* What is still to be reported *)

LEMMA IdleReports ==
    ASSUME pc' = "idle"
    PROVE  Reporting'
BY DEF Reporting, SnapWritten, ListedStays, Placed, AtUnknown, KnownOfRead, HalfAwaited,
       AllNoted, AtLine, AtSegment, InLoop

\* A cursor moves only of a file that is not beside the one that is written.
LEMMA CursorMoves ==
    ASSUME Types, ActiveAlone, ListedStays, pc \in AtSegment, UNCHANGED files,
           NEW n, cursor' \in {cursor, [cursor EXCEPT ![key] = n]}
    PROVE  ActiveAlone'
<1>1. cursor \in [Keys -> 0..MaxLines] /\ key \in Keys
  BY DEF Types, DbOK, PassOK, StepOK, KeyGiven
<1>2. ASSUME NEW s \in Segments, "active" \in files[s], key[1] = s
      PROVE  key = <<s, 1>>
  <2>1. Place(key) # "active" => Present(key)
    BY <1>1 DEF ListedStays
  <2>2. files[s] = {"active"}
    BY <1>2 DEF ActiveAlone
  <2>3. Place(key) = "active"
    BY <1>2, <2>1, <2>2 DEF Present, Seg
  <2>4. PICK j \in 1..3 : key = <<s, j>>
    BY <1>1, <1>2 DEF Keys
  <2>5. j = 1 \/ j = 2 \/ j = 3
    OBVIOUS
  <2> QED BY <2>3, <2>4, <2>5 DEF Place, Places
<1>3. \A s \in Segments : <<s, 2>> \in Keys /\ <<s, 3>> \in Keys
  BY DEF Keys
<1> SUFFICES ASSUME NEW s \in Segments, "active" \in files[s]
             PROVE  files[s] = {"active"} /\ cursor'[<<s, 2>>] = 0 /\ cursor'[<<s, 3>>] = 0
  BY DEF ActiveAlone
<1>4. key # <<s, 2>> /\ key # <<s, 3>>
  BY <1>2
<1> QED BY <1>1, <1>3, <1>4 DEF ActiveAlone

\* What a transaction holds was read from what is written.
LEMMA BatchWritten ==
    ASSUME Types, Durable, SettledWritten, SnapWritten, UNCHANGED journal,
           pc \in AtLine, mirrored' = mirrored \cup batch, quarantined' = quarantined
    PROVE  SettledWritten'
<1>1. pos \in Nat /\ snap \in Nat /\ pos <= snap
  BY BoundsAssumption DEF BoundsAssumption, Types, PassOK, ReadingOK
<1>2. key \in Keys /\ Seg(key) \in Segments
  BY SegmentOfKey DEF Types, PassOK, StepOK, KeyGiven, AtSegment
<1>3. Len(lines[Seg(key)]) \in Nat
  BY <1>2 DEF Types, JournalOK
<1>4. \A x \in batch : x[2] <= Len(lines[x[1]])
  BY <1>1, <1>2, <1>3 DEF Durable, BatchOpen, SnapWritten
<1>5. Settled' \subseteq Settled \cup batch
  BY DEF Settled
<1> QED BY <1>4, <1>5 DEF SettledWritten, journal

LEMMA EndReports ==
    ASSUME Types, Durable, Stored, Reporting, EndPass \/ Interrupt \/ PowerLoss
    PROVE  Reports'
<1>1. Reporting'
  BY IdleReports DEF EndPass, Interrupt, PowerLoss, Release
<1>2. CASE EndPass
  BY <1>1, <1>2 DEF EndPass, journal, db, rows, Stored, Reports, ActiveAlone, ArchivedEvents,
     SettledWritten, IndexedUnknown, Settled
<1>3. CASE Interrupt
  <2>1. UNCHANGED journal /\ quarantined' = quarantined
    BY <1>3 DEF Interrupt
  <2>2. ArchivedEvents' /\ IndexedUnknown'
    BY <2>1 DEF Stored, ArchivedEvents, IndexedUnknown, journal
  <2>3. CASE UNCHANGED <<rows, cursor>>
    BY <1>1, <2>1, <2>2, <2>3 DEF Stored, Reports, ActiveAlone, SettledWritten, Settled, journal, rows
  <2>4. CASE /\ pc = "line" /\ mirrored' = mirrored \cup batch
             /\ cursor' \in {cursor, [cursor EXCEPT ![key] = pos]}
    <3>1. ActiveAlone'
      BY <2>1, <2>4, CursorMoves DEF Stored, Reporting, AtSegment, AtLine, journal
    <3>2. SettledWritten'
      BY <2>1, <2>4, BatchWritten DEF Stored, Reporting, AtLine
    <3> QED BY <1>1, <2>2, <3>1, <3>2 DEF Reports, Stored
  <2> QED BY <1>3, <2>3, <2>4 DEF Interrupt
<1>4. CASE PowerLoss
  <2>1. PICK s \in Segments, n \in 0..MaxLines :
            /\ "active" \in files[s] /\ n <= Len(lines[s])
            /\ lines' = [lines EXCEPT ![s] = SubSeq(@, 1, n)]
    BY <1>4 DEF PowerLoss
  <2>2. n \in Nat /\ lines[s] \in Seq(Kinds) /\ DOMAIN lines = Segments
    BY BoundsAssumption DEF BoundsAssumption, Types, JournalOK
  <2>3. /\ Len(lines'[s]) = n /\ \A i \in 1..n : lines'[s][i] = lines[s][i]
        /\ \A t \in Segments \ {s} : lines'[t] = lines[t]
    BY <2>1, <2>2
  <2>4. UNCHANGED <<files, mirrored, quarantined, cursor>> /\ alive' = FALSE
    BY <1>4 DEF PowerLoss, db, rows
  <2>5. ActiveAlone' /\ SettledWritten'
    BY <2>4 DEF Stored, ActiveAlone, SettledWritten
  <2>6. ArchivedEvents'
    <3> SUFFICES ASSUME NEW t \in Segments, files[t] \cap {"archive", "orphan"} # {}
                 PROVE  \A i \in 1..Len(lines'[t]) : lines'[t][i] = "event"
      BY <2>4 DEF ArchivedEvents
    <3>1. t # s
      BY <2>1 DEF Stored, ActiveAlone
    <3> QED BY <2>3, <3>1 DEF Stored, ArchivedEvents
  <2>7. IndexedUnknown'
    <3> SUFFICES ASSUME NEW q \in quarantined, q[2] <= Len(lines'[Seg(q[1])])
                 PROVE  lines'[Seg(q[1])][q[2]] = "unknown"
      BY <2>4 DEF IndexedUnknown
    <3>1. q[1] \in Keys /\ q[2] \in 1..MaxLines /\ Seg(q[1]) \in Segments
      BY SegmentOfKey DEF Types, DbOK
    <3>2. q[2] \in Nat /\ q[2] >= 1 /\ Len(lines[s]) \in Nat
      BY <2>2, <3>1, BoundsAssumption DEF BoundsAssumption
    <3>3. CASE Seg(q[1]) = s
      BY <2>1, <2>2, <2>3, <3>2, <3>3 DEF Stored, IndexedUnknown
    <3>4. CASE Seg(q[1]) # s
      BY <2>3, <3>1, <3>4 DEF Stored, IndexedUnknown
    <3> QED BY <3>3, <3>4
  <2> QED BY <1>1, <2>5, <2>6, <2>7 DEF Reports, Stored
<1> QED BY <1>2, <1>3, <1>4

\* The journal only grows while a pass reads it; what it was asked to report it still is.
LEMMA GrowthReports ==
    ASSUME Types, Durable, Covered, Stored, Reporting, JournalOK', UNCHANGED <<db, pass>>,
           \A s \in Segments : /\ Len(lines[s]) <= Len(lines'[s])
                               /\ \A i \in 1..Len(lines[s]) : lines'[s][i] = lines[s][i],
           pc # "idle" => \A k \in Keys : Present(k)' => Present(k) \/ cursor[k] = 0,
           ActiveAlone', ArchivedEvents',
           \A s \in Segments : lines'[s] # lines[s] => alive,
           alive' => alive,
           ListedStays',
           \A s \in Segments : "active" \in files'[s] => "active" \in files[s] \/ cursor[<<s, 1>>] = 0
    PROVE  Reports'
<1> DEFINE len(s) == Len(lines[s])
<1>1. /\ \A s \in Segments : len(s) \in Nat /\ len(s)' \in Nat
      /\ cursor \in [Keys -> 0..MaxLines] /\ MaxLines \in Nat
      /\ UNCHANGED <<mirrored, quarantined, cursor, gaps, pc, todo, key, snap, pos, known, count,
                     after, incomplete, atStart>>
      /\ \A k \in Keys : Seg(k) \in Segments /\ cursor[k] \in Nat
  BY SegmentOfKey, BoundsAssumption DEF BoundsAssumption, Types, JournalOK, DbOK, db, rows, pass,
     reading, transaction, report
<1>2. /\ snap \in Nat /\ pos \in Nat /\ pos <= snap /\ atStart \in [Segments -> 0..MaxLines]
      /\ pc \in AtSegment => key \in Keys /\ Seg(key) \in Segments
  BY <1>1, SegmentOfKey DEF Types, PassOK, ReadingOK, ReportOK, StepOK, KeyGiven
<1>3. SettledWritten'
  <2> SUFFICES ASSUME alive', NEW x \in Settled PROVE x[2] <= len(x[1])'
    BY <1>1 DEF SettledWritten, Settled
  <2>1. x \in Segments \X (1..MaxLines)
    BY DEF Types, DbOK, Settled, Keys, Seg
  <2>2. x[1] \in Segments /\ x[2] \in Nat /\ x[2] <= len(x[1])
    BY <1>1, <2>1 DEF Stored, SettledWritten
  <2> QED BY <1>1, <2>2
<1>4. IndexedUnknown'
  <2> SUFFICES ASSUME NEW q \in quarantined, q[2] <= len(Seg(q[1]))'
               PROVE  lines'[Seg(q[1])][q[2]] = "unknown"
    BY <1>1 DEF IndexedUnknown
  <2> DEFINE s == Seg(q[1])
  <2>1. s \in Segments /\ q[2] \in Nat /\ q[2] >= 1
    BY <1>1 DEF Types, DbOK
  <2>2. q[2] <= len(s)
    <3>1. CASE lines'[s] = lines[s]
      BY <3>1
    <3>2. CASE lines'[s] # lines[s]
      <4>1. <<s, q[2]>> \in Settled
        BY DEF Settled
      <4> QED BY <2>1, <3>2, <4>1 DEF Stored, SettledWritten
    <3> QED BY <3>1, <3>2
  <2>3. q[2] \in 1..len(s)
    BY <1>1, <2>1, <2>2
  <2> QED BY <2>1, <2>2, <2>3 DEF Stored, IndexedUnknown
<1>5. SnapWritten'
  <2>1. pc \in AtLine => key \in Keys /\ Seg(key) \in Segments
    BY <1>2 DEF AtSegment
  <2> QED BY <1>1, <1>2, <2>1 DEF Reporting, SnapWritten
<1>6. Placed' /\ HalfAwaited'
  BY <1>1, <1>2 DEF Reporting, Placed, HalfAwaited, Keys
<1>7. ASSUME pc \in AtLine, NEW i \in 1..snap
      PROVE  lines'[Seg(key)][i] = lines[Seg(key)][i]
  <2>1. i \in 1..len(Seg(key))
    BY <1>1, <1>2, <1>7 DEF Reporting, SnapWritten, AtSegment
  <2> QED BY <1>2, <1>7, <2>1 DEF AtSegment
<1>8. AtUnknown'
  <2> SUFFICES ASSUME pc \in {"index", "pass"} \/ (pc \in {"commit", "checkpoint"} /\ after = "index")
               PROVE  lines'[Seg(key)][pos + 1] = "unknown"
    BY <1>1 DEF AtUnknown
  <2>1. pos < snap /\ pc \in AtLine
    BY DEF Types, PassOK, StepOK, AtNextLine, AtLine
  <2>2. pos + 1 \in 1..snap
    BY <1>2, <2>1
  <2> QED BY <1>7, <2>1, <2>2 DEF Reporting, AtUnknown
<1>9. ASSUME NEW k \in Keys, EventBefore(k, cursor[k])'
      PROVE  EventBefore(k, cursor[k])
  <2> DEFINE s == Seg(k)
  <2>1. PICK i \in 1..cursor[k] : i <= len(s)' /\ lines'[s][i] = "event"
    BY <1>1, <1>9 DEF EventBefore
  <2>2. s \in Segments /\ i \in Nat /\ i >= 1
    BY <1>1
  <2>3. i <= len(s)
    <3>1. CASE lines'[s] = lines[s]
      BY <2>1, <3>1
    <3>2. CASE lines'[s] # lines[s]
      <4>1. <<s, i>> \in Settled
        BY DEF Durable, CursorCovers
      <4> QED BY <2>2, <3>2, <4>1 DEF Stored, SettledWritten
    <3> QED BY <3>1, <3>2
  <2>4. i \in 1..len(s)
    BY <1>1, <2>2, <2>3
  <2> QED BY <2>1, <2>2, <2>3, <2>4 DEF EventBefore
<1>10. KnownOfRead'
  <2>1. ASSUME pc = "open", EventBefore(key, cursor[key])'
        PROVE  known
    <3>1. key \in Keys
      BY <1>2, <2>1 DEF AtSegment
    <3>2. EventBefore(key, cursor[key])
      BY <1>1, <1>9, <2>1, <3>1
    <3> QED BY <2>1, <3>2 DEF Reporting, KnownOfRead
  <2>2. ASSUME pc \in AtLine, EventBefore(key, pos)'
        PROVE  known
    <3>1. PICK i \in 1..pos : lines'[Seg(key)][i] = "event"
      BY <1>1, <2>2 DEF EventBefore
    <3>2. i \in 1..snap /\ Seg(key) \in Segments
      BY <1>2, <2>2 DEF AtSegment
    <3>3. i <= len(Seg(key)) /\ lines[Seg(key)][i] = "event"
      BY <1>1, <1>2, <1>7, <2>2, <3>1, <3>2 DEF Reporting, SnapWritten
    <3> QED BY <2>2, <3>3 DEF Reporting, KnownOfRead, EventBefore
  <2> QED BY <1>1, <2>1, <2>2 DEF KnownOfRead
<1>11. AllNoted'
  <2>1. ASSUME NEW k \in Keys, pc # "idle", Noted(k)
        PROVE  Noted(k)'
    <3> SUFFICES ASSUME Present(k)', cursor[k] < atStart[Seg(k)], lines'[Seg(k)][cursor[k] + 1] = "bad",
                        EventBefore(k, cursor[k])'
                 PROVE  <<k, "line", cursor[k] + 1>> \in gaps
      BY <1>1 DEF Noted
    <3>1. EventBefore(k, cursor[k])
      BY <1>9
    <3>2. cursor[k] # 0
      BY <3>1 DEF EventBefore
    <3>3. Present(k)
      BY <2>1, <3>2
    <3>4. atStart[Seg(k)] <= len(Seg(k)) /\ atStart[Seg(k)] \in Nat
      BY <1>1, <1>2 DEF Covered, InJournal
    <3>5. cursor[k] + 1 \in 1..len(Seg(k))
      BY <1>1, <3>4
    <3>6. lines[Seg(k)][cursor[k] + 1] = "bad"
      BY <1>1, <3>5
    <3> QED BY <2>1, <3>1, <3>3, <3>6 DEF Noted
  <2> QED BY <1>1, <2>1 DEF Reporting, AllNoted, InLoop, AtSegment, AtLine
<1> QED BY <1>3, <1>4, <1>5, <1>6, <1>8, <1>10, <1>11 DEF Reports, Stored, Reporting

\* A segment without lines is one no cursor is about, while the journal grows.
LEMMA UntouchedCursors ==
    ASSUME Types, Durable, SettledWritten, alive, NEW s \in Segments, lines[s] = <<>>, NEW j \in 1..3
    PROVE  cursor[<<s, j>>] = 0
<1> DEFINE k == <<s, j>>
<1>1. k \in Keys /\ Seg(k) = s /\ cursor[k] \in 0..MaxLines
  BY DEF Keys, Seg, Types, DbOK
<1>2. cursor[k] # 0 => <<s, 1>> \in Settled
  BY <1>1, BoundsAssumption DEF BoundsAssumption, Durable, CursorCovers
<1> QED BY <1>1, <1>2 DEF SettledWritten

LEMMA WriteLineReports ==
    ASSUME Types, Durable, Covered, Stored, Reporting, UNCHANGED <<db, pass>>,
           NEW s \in Segments, NEW kind \in Kinds, WriteLine(s, kind)
    PROVE  Reports'
<1> USE DEF WriteLine
<1>1. JournalOK'
  BY WriteLineTypes DEF Types
<1>2. /\ lines[s] \in Seq(Kinds) /\ DOMAIN lines = Segments
      /\ lines'[s] = Append(lines[s], kind) /\ \A t \in Segments \ {s} : lines'[t] = lines[t]
  BY DEF Types, JournalOK
<1>3. \A t \in Segments : /\ Len(lines[t]) <= Len(lines'[t])
                          /\ \A i \in 1..Len(lines[t]) : lines'[t][i] = lines[t][i]
  <2> SUFFICES ASSUME NEW t \in Segments
               PROVE  /\ Len(lines[t]) <= Len(lines'[t])
                      /\ \A i \in 1..Len(lines[t]) : lines'[t][i] = lines[t][i]
    OBVIOUS
  <2>1. Len(lines[t]) \in Nat
    BY DEF Types, JournalOK
  <2> QED BY <1>2, <2>1
<1>4. UNCHANGED <<cursor, pc, todo, key>>
  BY DEF db, pass, reading
<1>5. ActiveAlone' /\ ListedStays'
  BY <1>4 DEF Stored, Reporting, ActiveAlone, ListedStays, Present
<1>6. ArchivedEvents'
  <2> SUFFICES ASSUME NEW t \in Segments, files[t] \cap {"archive", "orphan"} # {}
               PROVE  \A i \in 1..Len(lines'[t]) : lines'[t][i] = "event"
    BY DEF ArchivedEvents
  <2>1. t # s
    BY DEF Stored, ActiveAlone
  <2> QED BY <1>2, <2>1 DEF Stored, ArchivedEvents
<1>7. \A k \in Keys : Present(k)' => Present(k)
  BY DEF Present
<1> QED BY <1>1, <1>3, <1>5, <1>6, <1>7, GrowthReports

\* The next segment is one that no file and no cursor was about.
LEMMA RotateReports ==
    ASSUME Types, Durable, Covered, Stored, Reporting, UNCHANGED <<db, pass>>,
           NEW s \in Segments, Rotate(s)
    PROVE  Reports'
<1> USE DEF Rotate
<1>1. JournalOK'
  BY DEF Types, JournalOK
<1>2. /\ UNCHANGED <<cursor, pc, todo, key, lines>> /\ DOMAIN files = Segments
      /\ \A t \in Segments : Len(lines[t]) \in Nat
  BY DEF db, pass, reading, Types, JournalOK
<1>3. s + 1 # s /\ s < s + 1 /\ s \in Nat
  BY BoundsAssumption DEF BoundsAssumption, Segments
<1>4. /\ files'[s] = {"closed"} /\ files'[s + 1] = {"active"}
      /\ \A t \in Segments \ {s, s + 1} : files'[t] = files[t]
  BY <1>2, <1>3
<1>5. files[s + 1] = {} /\ lines[s + 1] = <<>>
  BY <1>3 DEF Covered, Newest
<1>6. \A j \in 1..3 : cursor[<<s + 1, j>>] = 0
  BY <1>5, UntouchedCursors DEF Stored
<1>7. files[s] = {"active"} /\ cursor[<<s, 2>>] = 0 /\ cursor[<<s, 3>>] = 0
  BY DEF Stored, ActiveAlone
<1>8. ActiveAlone'
  BY <1>2, <1>4, <1>6 DEF Stored, ActiveAlone
<1>9. ArchivedEvents'
  BY <1>2, <1>4 DEF Stored, ArchivedEvents
<1>10. ASSUME NEW k \in Keys
       PROVE  /\ Present(k)' => Present(k) \/ cursor[k] = 0
              /\ Present(k) => Present(k)' \/ Place(k) = "active"
  <2>1. PICK t \in Segments, j \in 1..3 : k = <<t, j>>
    BY DEF Keys
  <2>2. (j = 1 => Place(k) = "active") /\ (j = 2 => Place(k) = "closed") /\ (j = 3 => Place(k) = "archive")
    BY <2>1 DEF Place, Places
  <2>3. j = 1 \/ j = 2 \/ j = 3
    OBVIOUS
  <2>4. CASE t = s
    BY <1>4, <1>7, <2>1, <2>2, <2>3, <2>4 DEF Present, Seg
  <2>5. CASE t = s + 1
    BY <1>5, <1>6, <2>1, <2>5 DEF Present, Seg
  <2>6. CASE t \notin {s, s + 1}
    BY <1>4, <2>1, <2>6 DEF Present, Seg
  <2> QED BY <2>4, <2>5, <2>6
<1>11. ListedStays'
  <2>1. \A k \in Keys : Present(k) => Present(k)' \/ Place(k) = "active"
    BY <1>10
  <2> QED BY <1>2, <2>1 DEF Reporting, ListedStays, Place
<1>12. \A t \in Segments : "active" \in files'[t] => "active" \in files[t] \/ cursor[<<t, 1>>] = 0
  <2>1. cursor[<<s + 1, 1>>] = 0
    BY <1>6
  <2> QED BY <1>4, <2>1
<1>13. \A t \in Segments : /\ Len(lines[t]) <= Len(lines'[t])
                           /\ \A i \in 1..Len(lines[t]) : lines'[t][i] = lines[t][i]
  BY <1>2
<1> QED BY <1>1, <1>2, <1>8, <1>9, <1>10, <1>11, <1>12, <1>13, GrowthReports

LEMMA CloseJournalReports ==
    ASSUME Types, Durable, Covered, Stored, Reporting, UNCHANGED <<db, pass>>,
           NEW s \in Segments, CloseJournal(s)
    PROVE  Reports'
<1> USE DEF CloseJournal
<1>1. JournalOK'
  BY DEF Types, JournalOK
<1>2. /\ UNCHANGED <<cursor, pc, todo, key, lines>> /\ DOMAIN files = Segments
      /\ \A t \in Segments : Len(lines[t]) \in Nat
  BY DEF db, pass, reading, Types, JournalOK
<1>3. files'[s] \subseteq {"closed"} /\ \A t \in Segments \ {s} : files'[t] = files[t]
  BY <1>2
<1>4. files[s] = {"active"} /\ cursor[<<s, 2>>] = 0 /\ cursor[<<s, 3>>] = 0
  BY DEF Stored, ActiveAlone
<1>5. ActiveAlone' /\ ArchivedEvents'
  BY <1>2, <1>3 DEF Stored, ActiveAlone, ArchivedEvents
<1>6. ASSUME NEW k \in Keys
      PROVE  /\ Present(k)' => Present(k) \/ cursor[k] = 0
             /\ Present(k) => Present(k)' \/ Place(k) = "active"
  <2>1. PICK t \in Segments, j \in 1..3 : k = <<t, j>>
    BY DEF Keys
  <2>2. (j = 1 => Place(k) = "active") /\ (j = 2 => Place(k) = "closed") /\ (j = 3 => Place(k) = "archive")
    BY <2>1 DEF Place, Places
  <2>3. j = 1 \/ j = 2 \/ j = 3
    OBVIOUS
  <2>4. CASE t = s
    BY <1>3, <1>4, <2>1, <2>2, <2>3, <2>4 DEF Present, Seg
  <2>5. CASE t # s
    BY <1>3, <2>1, <2>5 DEF Present, Seg
  <2> QED BY <2>4, <2>5
<1>7. ListedStays'
  BY <1>2, <1>6 DEF Reporting, ListedStays, Place
<1>8. \A t \in Segments : "active" \in files'[t] => "active" \in files[t]
  BY <1>3
<1>9. \A t \in Segments : /\ Len(lines[t]) <= Len(lines'[t])
                          /\ \A i \in 1..Len(lines[t]) : lines'[t][i] = lines[t][i]
  BY <1>2
<1> QED BY <1>1, <1>2, <1>5, <1>6, <1>7, <1>8, <1>9, GrowthReports

\* Only a segment of events is archived, and nobody reads meanwhile.
LEMMA RetainReports ==
    ASSUME Types, Durable, Covered, Stored, Reporting, UNCHANGED <<db, pass>>,
           NEW s \in Segments, Retain(s)
    PROVE  Reports'
<1> USE DEF Retain
<1>1. pc' = "idle" /\ UNCHANGED <<lines, alive, cursor, mirrored, quarantined>> /\ DOMAIN files = Segments
  BY DEF db, rows, pass, Types, JournalOK
<1>2. "active" \notin files'[s] /\ \A t \in Segments \ {s} : files'[t] = files[t]
  <2>1. PICK f : /\ f \in {{"archive"}, {"closed"}, {"closed", "orphan"}, {"closed", "archive"}}
                 /\ files' = [files EXCEPT ![s] = f]
    OBVIOUS
  <2> QED BY <1>1, <2>1
<1>3. ActiveAlone' /\ ArchivedEvents'
  BY <1>1, <1>2 DEF Stored, ActiveAlone, ArchivedEvents
<1>4. SettledWritten' /\ IndexedUnknown'
  BY <1>1 DEF Stored, SettledWritten, IndexedUnknown, Settled
<1> QED BY <1>1, <1>3, <1>4, IdleReports DEF Reports, Stored

LEMMA EnvironmentReports ==
    ASSUME Types, Durable, Covered, Stored, Reporting, Environment
    PROVE  Reports'
<1>1. UNCHANGED <<db, pass>>
  BY DEF Environment
<1>2. CASE Die
  <2>1. UNCHANGED <<lines, files, mirrored, quarantined, cursor, gaps, pc, todo, key, snap, pos, known,
                    count, after, incomplete, atStart>> /\ alive' = FALSE
    BY <1>1, <1>2 DEF Die, db, rows, pass, reading, transaction, report
  <2> QED BY <2>1 DEF Reports, Stored, Reporting, ActiveAlone, ArchivedEvents, SettledWritten,
       IndexedUnknown, SnapWritten, ListedStays, Placed, AtUnknown, KnownOfRead, EventBefore,
       HalfAwaited, AllNoted, Noted, Present
<1> QED BY <1>1, <1>2, WriteLineReports, RotateReports, CloseJournalReports, RetainReports
        DEF Environment

-----------------------------------------------------------------------------
(* The steps of the pass *)

LEMMA StoredFrame ==
    ASSUME Stored, UNCHANGED <<journal, mirrored, quarantined, cursor>>
    PROVE  Stored'
BY DEF Stored, ActiveAlone, ArchivedEvents, SettledWritten, IndexedUnknown, Settled, journal

LEMMA NotedStays ==
    ASSUME UNCHANGED <<journal, atStart>>, gaps \subseteq gaps', NEW k \in Keys, cursor'[k] = cursor[k],
           Noted(k)
    PROVE  Noted(k)'
BY DEF Noted, Present, EventBefore, journal

LEMMA WithinNoted ==
    ASSUME AllNoted, OpenEnded, pc \in AtSegment, pc' \in AtSegment,
           UNCHANGED <<journal, atStart, todo, key>>, gaps \subseteq gaps',
           \A k \in Keys \ {key} : cursor'[k] = cursor[k]
    PROVE  AllNoted'
<1>1. \A k \in Keys : Noted(k) \/ k \in todo \/ k = key
  BY DEF AllNoted, OpenEnded, InLoop
<1>2. \A k \in Keys \ {key} : Noted(k) => Noted(k)'
  BY NotedStays
<1> QED BY <1>1, <1>2 DEF AllNoted

\* A segment is left with its line reported, if it was to be, or for want of time.
LEMMA LeaveNoted ==
    ASSUME AllNoted, OpenEnded, pc \in AtSegment, pc' = "probe",
           UNCHANGED <<journal, atStart, todo, key>>, gaps \subseteq gaps',
           \A k \in Keys \ {key} : cursor'[k] = cursor[k],
           incomplete' \/ Noted(key)'
    PROVE  AllNoted'
<1>1. \A k \in Keys : Noted(k) \/ k \in todo \/ k = key
  BY DEF AllNoted, OpenEnded, InLoop
<1>2. \A k \in Keys \ {key} : Noted(k) => Noted(k)'
  BY NotedStays
<1> QED BY <1>1, <1>2 DEF AllNoted

\* What is behind the end of what there was when the pass began is reported by the next pass.
LEMMA NotedAtEnd ==
    ASSUME Types, Covered, pc \in AtLine, pos = snap
    PROVE  ~(pos < atStart[Seg(key)])
<1>1. Seg(key) \in Segments
  BY SegmentOfKey DEF Types, PassOK, StepOK, KeyGiven, AtSegment
<1> QED BY <1>1, BoundsAssumption DEF BoundsAssumption, Types, PassOK, ReadingOK, ReportOK, Covered,
        SnapCurrent

LEMMA OutsideReports ==
    ASSUME Types, Durable, Covered, Stored, Reporting, Begin \/ RebuildRequired \/ Rebuild
    PROVE  Reports'
<1>1. pc' \in {"list", "rebuild"}
  BY DEF Begin, RebuildRequired, Rebuild
<1>2. Reporting'
  BY <1>1 DEF Reporting, SnapWritten, ListedStays, Placed, AtUnknown, KnownOfRead, HalfAwaited,
     AllNoted, AtLine, AtSegment, InLoop
<1>3. CASE Begin \/ RebuildRequired
  BY <1>2, <1>3, StoredFrame DEF Begin, RebuildRequired, db, rows, Reports
<1>4. CASE Rebuild
  <2>1. UNCHANGED journal /\ Settled' = {} /\ quarantined' = {} /\ \A k \in Keys : cursor'[k] = 0
    BY <1>4 DEF Rebuild, Settled, NoCursors
  <2>2. \A s \in Segments : <<s, 2>> \in Keys /\ <<s, 3>> \in Keys
    BY DEF Keys
  <2>3. ActiveAlone'
    BY <2>1, <2>2 DEF Stored, ActiveAlone, journal
  <2>4. ArchivedEvents' /\ SettledWritten' /\ IndexedUnknown'
    BY <2>1 DEF Stored, ArchivedEvents, SettledWritten, IndexedUnknown, journal
  <2> QED BY <1>2, <2>3, <2>4 DEF Stored, Reports
<1> QED BY <1>3, <1>4

LEMMA DeadlineReports ==
    ASSUME Types, Stored, Reporting, Deadline
    PROVE  Reports'
<1>1. UNCHANGED <<lines, files, alive, mirrored, quarantined, cursor, gaps, pc, todo, key, snap, pos,
                  known, count, after, incomplete, atStart>>
  BY DEF Deadline, journal, db, rows, reading, transaction
<1> QED BY <1>1 DEF Reports, Stored, Reporting, ActiveAlone, ArchivedEvents, SettledWritten,
       IndexedUnknown, SnapWritten, ListedStays, Placed, AtUnknown, KnownOfRead, EventBefore,
       HalfAwaited, AllNoted, Noted, Present, Settled

\* The listing of active/ has what is written, the other what is not written any more.
LEMMA ListReports ==
    ASSUME Types, Durable, Covered, Stored, Reporting, List
    PROVE  Reports'
<1>1. UNCHANGED <<journal, mirrored, quarantined, cursor, gaps, atStart, incomplete, key>>
  BY DEF List, db, rows, report, reading
<1>2. Stored'
  BY <1>1, StoredFrame
<1>3. /\ ListedFirst = {"active"} /\ ListedLater = {"closed", "archive"}
      /\ \A k \in Keys : Place(k) \in {"active", "closed", "archive"}
      /\ \A k \in Keys : Place(k) = "active" => k = <<Seg(k), 1>>
  <2>1. {Places[p] : p \in 1..3} = {"active", "closed", "archive"}
    <3>1. 1..3 = {1, 2, 3}
      OBVIOUS
    <3> QED BY <3>1 DEF Places
  <2>2. ASSUME NEW k \in Keys
        PROVE  Place(k) \in {"active", "closed", "archive"} /\ (Place(k) = "active" => k = <<Seg(k), 1>>)
    <3>1. PICK t \in Segments, j \in 1..3 : k = <<t, j>>
      BY DEF Keys
    <3>2. j = 1 \/ j = 2 \/ j = 3
      OBVIOUS
    <3> QED BY <3>1, <3>2 DEF Place, Places, Seg
  <2> QED BY <2>1, <2>2 DEF ListedFirst, ListedLater
<1>4. \A k \in Keys : Present(k)' = Present(k) /\ (Noted(k)' <=> Noted(k))
  BY <1>1 DEF Present, Noted, EventBefore, journal
<1>5. CASE pc = "list" /\ todo' = Listing(ListedFirst) /\ pc' = "rest"
  <2>1. \A k \in todo' : Place(k) = "active"
    BY <1>3, <1>5 DEF Listing
  <2>2. HalfAwaited'
    <3> SUFFICES ASSUME NEW s \in Segments, "active" \in files[s]
                 PROVE  <<s, 1>> \in todo'
      BY <1>1 DEF HalfAwaited, journal
    <3>1. <<s, 1>> \in Keys /\ Place(<<s, 1>>) = "active" /\ Seg(<<s, 1>>) = s
      BY DEF Keys, Place, Places, Seg
    <3> QED BY <1>3, <1>5, <3>1 DEF Listing, Present
  <2>3. ListedStays'
    BY <1>5, <2>1 DEF ListedStays, AtSegment, AtLine, Place
  <2> QED BY <1>2, <1>5, <2>2, <2>3 DEF Reports, Reporting, SnapWritten, Placed, AtUnknown, KnownOfRead,
          AllNoted, AtLine, AtSegment, InLoop
<1>6. CASE pc = "rest" /\ todo' = todo \cup Listing(ListedLater) /\ pc' = "next"
  <2>1. ListedStays'
    <3> SUFFICES ASSUME NEW k \in todo', k \in Keys, Place(k) # "active"
                 PROVE  Present(k)
      BY <1>4, <1>6 DEF ListedStays, AtSegment, AtLine, Place
    <3> QED BY <1>6 DEF Reporting, ListedStays, Listing
  <2>2. AllNoted'
    <3> SUFFICES ASSUME NEW k \in Keys, ~(k \in todo')
                 PROVE  Noted(k)
      BY <1>4 DEF AllNoted
    <3>1. CASE Place(k) = "active"
      <4>1. k = <<Seg(k), 1>> /\ Seg(k) \in Segments /\ cursor[k] \in 0..MaxLines
        BY <1>3, <3>1, SegmentOfKey DEF Types, DbOK
      <4>2. Present(k) => cursor[k] = 0
        BY <1>6, <3>1, <4>1, BoundsAssumption
           DEF BoundsAssumption, Reporting, HalfAwaited, Present
      <4> QED BY <4>1, <4>2 DEF Noted, EventBefore
    <3>2. CASE Place(k) # "active"
      BY <1>3, <1>6, <3>2 DEF Listing, Noted
    <3> QED BY <3>1, <3>2
  <2> QED BY <1>2, <1>6, <2>1, <2>2 DEF Reports, Reporting, SnapWritten, Placed, AtUnknown, KnownOfRead,
          HalfAwaited, AtLine, AtSegment
<1> QED BY <1>5, <1>6 DEF List

\* Whether the trace of the segment is known is asked of the rows, and an event that the cursor is
\* past is one.
LEMMA NextSegmentReports ==
    ASSUME Types, Durable, Covered, Stored, Reporting, NextSegment
    PROVE  Reports'
<1> USE DEF NextSegment
<1>1. UNCHANGED <<journal, mirrored, quarantined, cursor, gaps, atStart, incomplete>>
  BY DEF db, rows, report
<1>2. Stored'
  BY <1>1, StoredFrame
<1>3. key' \in todo /\ key' \in Keys
  BY FirstIsOne DEF Types, PassOK, ReadingOK
<1>4. \A k \in Keys : Present(k)' = Present(k) /\ (Noted(k)' <=> Noted(k))
  BY <1>1 DEF Present, Noted, EventBefore, journal
<1>5. ListedStays'
  BY <1>3, <1>4 DEF Reporting, ListedStays, AtSegment, AtLine, InLoop, Place
<1>6. AllNoted'
  <2>1. \A k \in Keys : Noted(k) \/ k \in todo
    BY DEF Reporting, AllNoted, InLoop, AtSegment, AtLine
  <2> QED BY <1>4, <2>1 DEF AllNoted, AtSegment
<1>7. KnownOfRead'
  <2> SUFFICES ASSUME EventBefore(key, cursor[key])' PROVE mirrored # {}
    BY DEF KnownOfRead, AtLine, TraceKnown
  <2>1. PICK i \in 1..cursor[key'] : i <= Len(lines[Seg(key')]) /\ lines[Seg(key')][i] = "event"
    BY <1>1 DEF EventBefore, journal, Seg
  <2>2. <<Seg(key'), i>> \in Settled
    BY <1>3 DEF Durable, CursorCovers
  <2>3. ASSUME NEW q \in quarantined, <<Seg(key'), i>> = <<Seg(q[1]), q[2]>> PROVE FALSE
    <3>1. lines[Seg(q[1])][q[2]] = "unknown"
      BY <2>1, <2>3 DEF Stored, IndexedUnknown
    <3> QED BY <2>1, <2>3, <3>1
  <2> QED BY <2>2, <2>3 DEF Settled
<1> QED BY <1>2, <1>5, <1>6, <1>7 DEF Reports, Reporting, SnapWritten, Placed, AtUnknown, HalfAwaited,
        AtLine

LEMMA ProbeEpochReports ==
    ASSUME Types, Durable, Covered, Stored, Reporting, ProbeEpoch
    PROVE  Reports'
<1> USE DEF ProbeEpoch
<1>1. UNCHANGED <<journal, mirrored, quarantined, cursor, atStart, incomplete, todo>> /\ gaps \subseteq gaps'
  BY DEF rows, report
<1>2. Stored'
  BY <1>1, StoredFrame
<1>3. AllNoted'
  BY <1>1, NotedStays DEF Reporting, AllNoted, InLoop, AtSegment, AtLine
<1>4. ListedStays'
  BY <1>1 DEF Reporting, ListedStays, AtSegment, AtLine, InLoop, Present, journal, Place
<1> QED BY <1>2, <1>3, <1>4 DEF Reports, Reporting, SnapWritten, Placed, AtUnknown, KnownOfRead,
        HalfAwaited, AtLine

LEMMA ReadSegmentReports ==
    ASSUME Types, Durable, Covered, Stored, Reporting, ReadSegment
    PROVE  Reports'
<1> USE DEF ReadSegment
<1>1. UNCHANGED <<journal, mirrored, quarantined, cursor, gaps, atStart, incomplete, todo, key, known, count>>
  BY DEF db, rows, report, transaction
<1>2. Stored'
  BY <1>1, StoredFrame
<1>3. AllNoted'
  BY <1>1, WithinNoted DEF Reporting, Covered, AtSegment, AtLine
<1>4. ListedStays'
  BY <1>1 DEF Reporting, ListedStays, AtSegment, AtLine, InLoop, Present, journal, Place
<1>5. SnapWritten' /\ Placed' /\ KnownOfRead'
  <2>1. Seg(key) \in Segments
    BY SegmentOfKey DEF Types, PassOK, StepOK, KeyGiven, AtSegment
  <2>2. Len(lines[Seg(key)]) \in Nat
    BY <2>1 DEF Types, JournalOK
  <2> QED BY <1>1, <2>1, <2>2 DEF Reporting, SnapWritten, Placed, KnownOfRead, EventBefore, journal
<1> QED BY <1>2, <1>3, <1>4, <1>5 DEF Reports, Reporting, AtUnknown, HalfAwaited

\* A line is projected, or the step goes on to what is done with it.
LEMMA LineReports ==
    ASSUME Types, Durable, Covered, Stored, Reporting,
           ProjectEvent \/ UnknownSchema \/ BadLine \/ ProjectionFails
    PROVE  Reports'
<1>1. /\ UNCHANGED <<journal, mirrored, quarantined, cursor, gaps, atStart, incomplete, todo, key, snap>>
      /\ pc = "line" /\ pos < snap
  BY DEF ProjectEvent, UnknownSchema, BadLine, ProjectionFails, Reading, db, rows, report, reading
<1>2. count \in Nat /\ after = "line" /\ pos \in Nat /\ BatchSize \in Nat \ {0}
  BY <1>1, BoundsAssumption
     DEF BoundsAssumption, Types, PassOK, TransactionOK, StepOK, Counting, ReadingOK
<1>3. pc' \in AtLine /\ pc' \in {"line", "commit", "stop", "index"}
  BY DEF ProjectEvent, UnknownSchema, BadLine, ProjectionFails, Flush, AtLine
<1>4. Stored'
  BY <1>1, StoredFrame
<1>5. AllNoted'
  BY <1>1, <1>3, WithinNoted DEF Reporting, Covered, AtSegment, AtLine
<1>6. ListedStays'
  BY <1>1, <1>3 DEF Reporting, ListedStays, AtSegment, AtLine, InLoop, Present, journal, Place
<1>7. SnapWritten' /\ HalfAwaited'
  BY <1>1, <1>3 DEF Reporting, SnapWritten, HalfAwaited, journal, AtLine
<1>8. CASE ProjectEvent
  <2>1. pc' \in {"line", "commit"} /\ count' = count + 1 /\ known' = TRUE /\ after' = after
    BY <1>8 DEF ProjectEvent
  <2> QED BY <1>2, <1>3, <1>4, <1>5, <1>6, <1>7, <2>1
          DEF Reports, Reporting, Placed, AtUnknown, KnownOfRead, AtLine
<1>9. CASE UnknownSchema
  <2>1. /\ UNCHANGED <<pos, count>> /\ known' = TRUE /\ lines[Seg(key)][pos + 1] = "unknown"
        /\ pc' = IF count > 0 THEN "commit" ELSE "index"
    BY <1>9 DEF UnknownSchema, Flush, Reading
  <2>2. Placed'
    BY <1>1, <1>2, <2>1 DEF Reporting, Placed
  <2> QED BY <1>1, <1>3, <1>4, <1>5, <1>6, <1>7, <2>1, <2>2
          DEF Reports, Reporting, AtUnknown, KnownOfRead, AtLine, journal
<1>10. CASE BadLine \/ ProjectionFails
  <2>1. /\ UNCHANGED <<pos, count>> /\ known' \in {known, TRUE}
        /\ pc' = IF count > 0 THEN "commit" ELSE "stop"
        /\ after' = IF count > 0 THEN "stop" ELSE "line"
    BY <1>10 DEF BadLine, ProjectionFails, Flush, reading
  <2>2. Placed'
    BY <1>1, <1>2, <2>1 DEF Reporting, Placed
  <2>3. AtUnknown'
    BY <2>1 DEF AtUnknown
  <2>4. KnownOfRead'
    BY <1>1, <1>3, <2>1 DEF Reporting, KnownOfRead, AtLine, EventBefore, journal
  <2> QED BY <1>4, <1>5, <1>6, <1>7, <2>2, <2>3, <2>4 DEF Reports, Reporting
<1> QED BY <1>8, <1>9, <1>10

\* A step that leaves the segment, without another transaction.
LEMMA LeaveReports ==
    ASSUME Types, Covered, Reporting, Stored', pc \in AtSegment, pc' = "probe",
           UNCHANGED <<journal, atStart, todo, key>>, gaps \subseteq gaps',
           \A k \in Keys \ {key} : cursor'[k] = cursor[k],
           incomplete' \/ Noted(key)'
    PROVE  Reports'
<1>1. AllNoted'
  BY LeaveNoted DEF Reporting, Covered
<1>2. ListedStays'
  BY DEF Reporting, ListedStays, AtSegment, AtLine, InLoop, Present, journal, Place
<1> QED BY <1>1, <1>2 DEF Reports, Reporting, SnapWritten, Placed, AtUnknown, KnownOfRead, HalfAwaited,
        AtLine

\* The pass stops at a line: the trace of an event before it is known, and so it is reported.
LEMMA CorruptReports ==
    ASSUME Types, Durable, Covered, Stored, Reporting, OpenFails \/ PrefixChanged \/ Stop
    PROVE  Reports'
<1>1. /\ UNCHANGED <<journal, mirrored, quarantined, cursor, atStart, todo, key>> /\ gaps \subseteq gaps'
      /\ pc \in AtSegment /\ pc' = "probe"
  BY DEF OpenFails, PrefixChanged, Stop, Corrupt, Gap, rows, reading, AtSegment, AtLine
<1>2. key \in Keys /\ Seg(key) \in Segments /\ cursor[key] \in Nat /\ Len(lines[Seg(key)]) \in Nat
      /\ atStart[Seg(key)] \in Nat /\ atStart[Seg(key)] <= Len(lines[Seg(key)])
  BY <1>1, SegmentOfKey, BoundsAssumption DEF BoundsAssumption, Types, PassOK, StepOK, KeyGiven, DbOK,
     JournalOK, ReportOK, Covered, InJournal
<1>3. Stored'
  BY <1>1, StoredFrame
<1> SUFFICES ASSUME Present(key), cursor[key] < atStart[Seg(key)],
                    lines[Seg(key)][cursor[key] + 1] = "bad", EventBefore(key, cursor[key])
             PROVE  <<key, "line", cursor[key] + 1>> \in gaps'
  BY <1>1, <1>3, LeaveReports DEF Noted, Present, EventBefore, journal
<1>4. CASE OpenFails
  <2>1. Place(key) = "archive" /\ "orphan" \in files[Seg(key)]
    BY <1>4 DEF OpenFails, Readable, Verified, Present
  <2>2. cursor[key] + 1 \in 1..Len(lines[Seg(key)])
    BY <1>2
  <2> QED BY <1>2, <2>1, <2>2 DEF Stored, ArchivedEvents
<1>5. CASE PrefixChanged
  BY <1>2, <1>5 DEF PrefixChanged
<1>6. CASE Stop
  <2>1. cursor[key] = pos /\ pc = "stop"
    BY <1>6 DEF Stop, Reporting, Placed
  <2>2. known
    BY <2>1 DEF Reporting, KnownOfRead, AtLine
  <2> QED BY <1>6, <2>1, <2>2 DEF Stop, Corrupt, Gap
<1> QED BY <1>4, <1>5, <1>6

LEMMA BudgetStopReports ==
    ASSUME Types, Durable, Covered, Stored, Reporting, BudgetStop
    PROVE  Reports'
<1>1. UNCHANGED <<journal, mirrored, quarantined, cursor, gaps, atStart, todo, key>> /\ incomplete'
      /\ pc \in AtSegment /\ pc' = "probe"
  BY DEF BudgetStop, db, rows, reading, AtSegment, AtLine
<1> QED BY <1>1, StoredFrame, LeaveReports

LEMMA EndOfLinesReports ==
    ASSUME Types, Durable, Covered, Stored, Reporting, EndOfLines
    PROVE  Reports'
<1> USE DEF EndOfLines, Flush
<1>1. UNCHANGED <<journal, mirrored, quarantined, cursor, gaps, atStart, todo, key, snap, pos, known,
                  incomplete, count>>
  BY DEF db, rows, reading, report
<1>2. Stored'
  BY <1>1, StoredFrame
<1>3. CASE count > 0
  <2>1. AllNoted'
    BY <1>1, <1>3, WithinNoted DEF Reporting, Covered, AtSegment, AtLine
  <2>2. ListedStays'
    BY <1>1, <1>3 DEF Reporting, ListedStays, AtSegment, AtLine, InLoop, Present, journal, Place
  <2> QED BY <1>1, <1>2, <1>3, <2>1, <2>2 DEF Reports, Reporting, SnapWritten, Placed, AtUnknown,
          KnownOfRead, EventBefore, HalfAwaited, AtLine, journal
<1>4. CASE ~(count > 0)
  <2>1. count = 0
    BY <1>4, BoundsAssumption DEF BoundsAssumption, Types, PassOK, TransactionOK
  <2>2. cursor[key] = pos
    BY <2>1 DEF Reporting, Placed
  <2>3. Noted(key)'
    BY <1>1, <2>2, NotedAtEnd DEF Noted, AtLine
  <2> QED BY <1>1, <1>2, <1>4, <2>3, LeaveReports DEF AtSegment, AtLine
<1> QED BY <1>3, <1>4

LEMMA CommitReports ==
    ASSUME Types, Durable, Covered, Stored, Reporting, Commit
    PROVE  Reports'
<1> USE DEF Commit
<1>1. UNCHANGED <<journal, quarantined, cursor, gaps, atStart, todo, key, snap, pos, known, incomplete,
                  count, after>>
  BY DEF reading, report
<1>2. Stored'
  BY <1>1, BatchWritten DEF Stored, Reporting, AtLine, ActiveAlone, ArchivedEvents, IndexedUnknown, journal
<1>3. AllNoted'
  BY <1>1, WithinNoted DEF Reporting, Covered, AtSegment, AtLine
<1>4. ListedStays'
  BY <1>1 DEF Reporting, ListedStays, AtSegment, AtLine, InLoop, Present, journal, Place
<1> QED BY <1>1, <1>2, <1>3, <1>4 DEF Reports, Reporting, SnapWritten, Placed, AtUnknown,
        KnownOfRead, EventBefore, HalfAwaited, AtLine, journal

LEMMA CheckpointReports ==
    ASSUME Types, Durable, Covered, Stored, Reporting, Checkpoint
    PROVE  Reports'
<1> USE DEF Checkpoint
<1>1. UNCHANGED <<journal, mirrored, quarantined, gaps, atStart, todo, key, snap, pos, known>>
      /\ cursor' = [cursor EXCEPT ![key] = pos] /\ cursor \in [Keys -> 0..MaxLines] /\ key \in Keys
      /\ pc \in AtLine /\ pc \in AtSegment
      /\ after \in {"line", "stop", "index", "probe"}
  BY DEF rows, reading, Types, DbOK, PassOK, StepOK, KeyGiven, TransactionOK, AtSegment, AtLine
<1>2. Stored'
  <2>1. ActiveAlone'
    <3>1. ListedStays /\ ActiveAlone /\ UNCHANGED files
      BY <1>1 DEF Stored, Reporting, journal
    <3>2. cursor' \in {cursor, [cursor EXCEPT ![key] = pos]} /\ pc \in AtSegment
      BY <1>1
    <3> QED
      <4> HIDE DEF Checkpoint
      <4> QED BY <3>1, <3>2, CursorMoves
  <2> QED BY <1>1, <2>1 DEF Stored, ArchivedEvents, SettledWritten, IndexedUnknown, Settled, journal
<1>3. cursor'[key] = pos /\ \A k \in Keys \ {key} : cursor'[k] = cursor[k]
  BY <1>1
<1>4. CASE after = "line" /\ exhausted
  BY <1>1, <1>2, <1>3, <1>4, LeaveReports
<1>5. CASE after = "probe"
  <2>1. pos = snap
    BY <1>5 DEF Covered, FlushedAll
  <2>2. Noted(key)'
    BY <1>1, <1>3, <2>1, NotedAtEnd DEF Noted
  <2> QED BY <1>1, <1>2, <1>3, <1>5, <2>2, LeaveReports
<1>6. CASE after \in {"stop", "index"} \/ (after = "line" /\ ~exhausted)
  <2>1. pc' = after /\ pc' \in {"stop", "index", "line"} /\ pc' \in AtLine /\ pc' \in AtSegment
    BY <1>6 DEF AtLine, AtSegment
  <2>2. AllNoted'
    BY <1>1, <1>3, <2>1, WithinNoted DEF Reporting, Covered
  <2>3. ListedStays'
    BY <1>1, <2>1 DEF Reporting, ListedStays, AtSegment, AtLine, InLoop, Present, journal, Place
  <2>4. AtUnknown'
    BY <1>1, <2>1 DEF Reporting, AtUnknown, journal
  <2>5. SnapWritten' /\ KnownOfRead'
    BY <1>1, <2>1 DEF Reporting, SnapWritten, KnownOfRead, EventBefore, journal
  <2>6. Placed' /\ HalfAwaited'
    BY <1>1, <1>3, <2>1 DEF Placed, HalfAwaited
  <2> QED BY <1>2, <2>2, <2>3, <2>4, <2>5, <2>6 DEF Reports, Reporting
<1> QED BY <1>1, <1>4, <1>5, <1>6

LEMMA QuarantineReports ==
    ASSUME Types, Durable, Covered, Stored, Reporting, Quarantine \/ PassQuarantined \/ ReportQuarantined
    PROVE  Reports'
<1>1. /\ UNCHANGED <<journal, mirrored, atStart, todo, key, snap, known, count, after>> /\ gaps \subseteq gaps'
      /\ pc \in {"index", "pass", "note"} /\ pc \in AtLine /\ pc \in AtSegment
      /\ pc' \in {"pass", "note", "line"} /\ pc' \in AtLine /\ pc' \in AtSegment
  BY DEF Quarantine, PassQuarantined, ReportQuarantined, Gap, rows, reading, transaction, report,
     AtLine, AtSegment
<1>2. /\ cursor \in [Keys -> 0..MaxLines] /\ key \in Keys /\ Seg(key) \in Segments
      /\ pos \in Nat /\ snap \in Nat /\ Len(lines[Seg(key)]) \in Nat /\ snap <= Len(lines[Seg(key)])
      /\ cursor[key] = pos
  BY <1>1, SegmentOfKey, BoundsAssumption DEF BoundsAssumption, Types, DbOK, PassOK, StepOK, KeyGiven,
     ReadingOK, JournalOK, Reporting, SnapWritten, Placed
<1>3. ListedStays'
  BY <1>1 DEF Reporting, ListedStays, AtSegment, AtLine, InLoop, Present, journal, Place
<1>4. SnapWritten' /\ HalfAwaited'
  BY <1>1 DEF Reporting, SnapWritten, HalfAwaited, journal
<1>5. CASE Quarantine
  <2>1. cursor' = cursor /\ pos' = pos /\ quarantined' = quarantined \cup {<<key, pos + 1>>}
        /\ pc = "index" /\ pc' = "pass"
    BY <1>5 DEF Quarantine, reading
  <2>2. pos < snap /\ lines[Seg(key)][pos + 1] = "unknown"
    BY <2>1 DEF Types, PassOK, StepOK, AtNextLine, Reporting, AtUnknown
  <2>3. SettledWritten'
    <3>1. Settled' \subseteq Settled \cup {<<Seg(key), pos + 1>>}
      <4>1. \A q \in quarantined' : q \in quarantined \/ q = <<key, pos + 1>>
        BY <2>1
      <4>2. \A q \in quarantined' : <<Seg(q[1]), q[2]>> \in Settled \cup {<<Seg(key), pos + 1>>}
        BY <4>1 DEF Settled
      <4>3. Settled' = mirrored \cup {<<Seg(q[1]), q[2]>> : q \in quarantined'}
        BY <1>1 DEF Settled
      <4> QED BY <4>2, <4>3 DEF Settled
    <3>2. pos + 1 <= Len(lines[Seg(key)])
      BY <1>2, <2>2
    <3> QED BY <1>1, <3>1, <3>2 DEF Stored, SettledWritten, journal
  <2>4. IndexedUnknown'
    BY <1>1, <2>1, <2>2 DEF Stored, IndexedUnknown, journal
  <2>5. Stored'
    BY <1>1, <2>1, <2>3, <2>4 DEF Stored, ActiveAlone, ArchivedEvents, journal
  <2>6. AllNoted'
    BY <1>1, <2>1, WithinNoted DEF Reporting, Covered
  <2>7. Placed' /\ AtUnknown' /\ KnownOfRead'
    BY <1>1, <1>2, <2>1, <2>2 DEF Placed, AtUnknown, Reporting, KnownOfRead, EventBefore, journal
  <2> QED BY <1>3, <1>4, <2>5, <2>6, <2>7 DEF Reports, Reporting
<1>6. CASE PassQuarantined
  <2>1. cursor' = [cursor EXCEPT ![key] = pos + 1] /\ pos' = pos + 1 /\ quarantined' = quarantined
        /\ pc = "pass" /\ pc' = "note"
    BY <1>6 DEF PassQuarantined
  <2>2. lines[Seg(key)][pos + 1] = "unknown"
    BY <2>1 DEF Reporting, AtUnknown
  <2>3. ActiveAlone'
    <3>1. ListedStays /\ ActiveAlone /\ UNCHANGED files
      BY <1>1 DEF Stored, Reporting, journal
    <3>2. cursor' \in {cursor, [cursor EXCEPT ![key] = pos + 1]} /\ pc \in AtSegment
      BY <1>1, <2>1
    <3> QED BY <3>1, <3>2, CursorMoves
  <2>4. Stored'
    BY <1>1, <2>1, <2>3 DEF Stored, ArchivedEvents, SettledWritten, IndexedUnknown, Settled, journal
  <2>5. cursor'[key] = pos + 1 /\ \A k \in Keys \ {key} : cursor'[k] = cursor[k]
    BY <1>2, <2>1
  <2>6. AllNoted'
    BY <1>1, <2>5, WithinNoted DEF Reporting, Covered
  <2>7. KnownOfRead'
    <3> SUFFICES ASSUME NEW i \in 1..pos + 1, i <= Len(lines[Seg(key)]), lines[Seg(key)][i] = "event"
                 PROVE  known
      BY <1>1, <2>1 DEF KnownOfRead, EventBefore, journal
    <3>1. i \in 1..pos
      BY <1>2, <2>2
    <3> QED BY <1>1, <3>1 DEF Reporting, KnownOfRead, EventBefore
  <2>8. Placed' /\ AtUnknown'
    BY <1>1, <2>1, <2>5 DEF Placed, AtUnknown
  <2> QED BY <1>3, <1>4, <2>4, <2>6, <2>7, <2>8 DEF Reports, Reporting
<1>7. CASE ReportQuarantined
  <2>1. UNCHANGED <<cursor, pos, quarantined>> /\ pc = "note" /\ pc' = "line" /\ after = "line"
    BY <1>7 DEF ReportQuarantined, reading, Types, PassOK, StepOK, Counting
  <2>2. Stored'
    BY <1>1, <2>1, StoredFrame
  <2>3. AllNoted'
    BY <1>1, <2>1, WithinNoted DEF Reporting, Covered
  <2>4. Placed' /\ AtUnknown' /\ KnownOfRead'
    BY <1>1, <1>2, <2>1 DEF Placed, AtUnknown, Reporting, KnownOfRead, EventBefore, journal
  <2> QED BY <1>3, <1>4, <2>2, <2>3, <2>4 DEF Reports, Reporting
<1> QED BY <1>5, <1>6, <1>7

LEMMA ReportsStep ==
    ASSUME Types, Durable, Covered, Reports, [Next]_vars
    PROVE  Reports'
<1> USE DEF Reports
<1>1. CASE Step
  BY <1>1, ListReports, NextSegmentReports, EndReports, ProbeEpochReports, CorruptReports,
     ReadSegmentReports, LineReports, OutsideReports, BudgetStopReports, EndOfLinesReports,
     CommitReports, CheckpointReports, QuarantineReports DEF Step
<1>2. CASE Environment \/ Begin \/ ProjectionFails \/ Deadline \/ Interrupt \/ PowerLoss
  BY <1>2, EnvironmentReports, OutsideReports, LineReports, DeadlineReports, EndReports
<1>3. CASE UNCHANGED vars
  <2>1. UNCHANGED <<lines, files, alive, mirrored, quarantined, cursor, gaps, pc, todo, key, snap, pos,
                    known, count, after, incomplete, atStart>>
    BY <1>3 DEF vars, journal, db, rows, pass, reading, transaction, report
  <2> QED BY <2>1 DEF Stored, Reporting, ActiveAlone, ArchivedEvents, SettledWritten,
       IndexedUnknown, SnapWritten, ListedStays, Placed, AtUnknown, KnownOfRead, EventBefore,
       HalfAwaited, AllNoted, Noted, Present, Settled
<1> QED BY <1>1, <1>2, <1>3 DEF Next

LEMMA InitReports == Init => Reports
<1> SUFFICES ASSUME Init PROVE Reports
  OBVIOUS
<1>1. Types
  BY InitTypes
<1>2. Reporting
  BY DEF Init, Reporting, SnapWritten, ListedStays, Placed, AtUnknown, KnownOfRead, HalfAwaited, AllNoted,
     AtLine, AtSegment, InLoop
<1>3. PICK old \in {<<>>} \cup (IF MaxLines > 0 THEN {<<"event">>} ELSE {}) :
          /\ lines = [s \in Segments |-> IF s = 1 THEN old ELSE <<>>]
          /\ mirrored = {1} \X (1..Len(old))
          /\ cursor = [NoCursors EXCEPT ![<<1, 1>>] = Len(old)]
  BY DEF Init
<1>4. quarantined = {} /\ Settled = mirrored /\ 1 \in Segments
      /\ files = [s \in Segments |-> IF s = 1 THEN {"active"} ELSE {}]
  BY BoundsAssumption DEF BoundsAssumption, Init, Settled, Segments
<1>5. \A j \in {2, 3}, s \in Segments : <<s, j>> \in Keys /\ <<s, j>> # <<1, 1>>
  BY DEF Keys
<1>6. ActiveAlone
  <2>1. ASSUME NEW s \in Segments, NEW j \in {2, 3}
        PROVE  cursor[<<s, j>>] = 0
    <3>1. <<s, j>> \in Keys /\ <<s, j>> # <<1, 1>>
      BY <1>5
    <3> QED BY <1>3, <3>1 DEF NoCursors
  <2> QED BY <1>4, <2>1 DEF ActiveAlone
<1>7. ArchivedEvents /\ IndexedUnknown
  BY <1>4 DEF ArchivedEvents, IndexedUnknown
<1>8. SettledWritten
  <2>1. lines[1] = old /\ Len(old) \in Nat
    BY <1>3, <1>4
  <2> QED BY <1>3, <1>4, <2>1 DEF SettledWritten
<1> QED BY <1>2, <1>6, <1>7, <1>8 DEF Reports, Stored

-----------------------------------------------------------------------------
(* The theorems *)

LEMMA Inductive == Spec => []IngestInv
<1>1. Init => IngestInv
  BY InitTypes, InitDurable, InitCovered, InitReports DEF IngestInv
<1>2. IngestInv /\ [Next]_vars => IngestInv'
  BY TypesStep, DurableStep, CoveredStep, ReportsStep DEF IngestInv
<1> QED BY <1>1, <1>2, PTL DEF Spec

\* Ingestion is type correct: in particular the position never passes the end of what was
\* read, no transaction outgrows a batch, and every gap names a line of a segment.
THEOREM TypeCorrect == Spec => []TypeOK
<1>1. IngestInv => TypeOK
  BY TypesGiveTypeOK DEF IngestInv
<1> QED BY <1>1, Inductive, PTL

\* No cursor stands behind a line that is neither mirrored nor indexed, whatever is
\* interrupted between the rows, the cursor and the index.
THEOREM CursorsCover == Spec => []CursorCovers
<1>1. IngestInv => CursorCovers
  BY DEF IngestInv, Durable
<1> QED BY <1>1, Inductive, PTL

\* What is mirrored of a segment is a prefix of it, through whichever of its files.
THEOREM PrefixesMirrored == Spec => []PrefixMirrored
<1>1. IngestInv => PrefixMirrored
  BY DEF IngestInv, Durable
<1> QED BY <1>1, Inductive, PTL

\* A pass that reports complete coverage has settled every line there was when it began,
\* outside of the segments it counted corrupt: no rotation, close or archiving between the
\* two halves of the listing hides a segment.
THEOREM CompletePassSettles == Spec => CompleteIsSettled
<1> DEFINE AllSettled == \A s \in Segments \ corrupt : \A i \in 1..atStart[s] : <<s, i>> \in Settled
<1>1. ASSUME IngestInv, EndPass, Complete
      PROVE  AllSettled
  <2>1. Covered
    BY <1>1 DEF IngestInv
  <2> QED BY <1>1, <2>1 DEF Covered, Accounted, Awaited, DoneWith, EndPass, Complete, InLoop, AtSegment, AtLine
<1>2. IngestInv => (EndPass /\ Complete => AllSettled)
  BY <1>1
<1> QED BY <1>2, Inductive, PTL DEF CompleteIsSettled

\* A pass that reports complete coverage has left a gap for every line that stops a segment and was
\* there when it began, if the trace is known: it read each representation again that a cursor is
\* about, whatever was rotated, archived or lost since the line was first met.
THEOREM BadLinesAreReported == Spec => BadLineReported
<1> DEFINE Noticed == \A k \in Keys :
              LET text == lines[Seg(k)] IN
              /\ Present(k) /\ cursor[k] < atStart[Seg(k)]
              /\ text[cursor[k] + 1] = "bad"
              /\ \E i \in 1..cursor[k] : text[i] = "event"
              => <<k, "line", cursor[k] + 1>> \in gaps
<1>1. ASSUME IngestInv, EndPass, Complete
      PROVE  Noticed
  <2> SUFFICES ASSUME NEW k \in Keys, Present(k), cursor[k] < atStart[Seg(k)],
                      lines[Seg(k)][cursor[k] + 1] = "bad",
                      NEW i \in 1..cursor[k], lines[Seg(k)][i] = "event"
               PROVE  <<k, "line", cursor[k] + 1>> \in gaps
    OBVIOUS
  <2>1. Noted(k)
    BY <1>1 DEF IngestInv, Reports, Reporting, AllNoted, EndPass, Complete, InLoop, AtSegment, AtLine
  <2>2. i <= Len(lines[Seg(k)])
    <3>1. Seg(k) \in Segments
      BY SegmentOfKey
    <3>2. /\ atStart[Seg(k)] \in Nat /\ Len(lines[Seg(k)]) \in Nat /\ cursor[k] \in Nat
          /\ atStart[Seg(k)] <= Len(lines[Seg(k)])
      BY <1>1, <3>1, BoundsAssumption DEF BoundsAssumption, IngestInv, Types, PassOK, ReportOK, JournalOK,
         DbOK, Covered, InJournal
    <3> QED BY <3>2
  <2> QED BY <2>1, <2>2 DEF Noted, EventBefore
<1>2. IngestInv => (EndPass /\ Complete => Noticed)
  BY <1>1
<1> QED BY <1>2, Inductive, PTL DEF BadLineReported
=============================================================================
