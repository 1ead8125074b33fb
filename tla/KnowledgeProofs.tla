--------------------------- MODULE KnowledgeProofs ---------------------------
(***************************************************************************)
(* Theorems about the knowledge snapshots (Knowledge) and the extraction   *)
(* inside an update (Semantic): what the pointer shows is one update's     *)
(* whole work and the record of the update tells of it, a complete         *)
(* snapshot is not given up for less, and the receipt accounts for every   *)
(* chunk.                                                                  *)
(***************************************************************************)
EXTENDS Knowledge, NaturalsInduction, WellFoundedInduction, TLAPS

(***************************************************************************)
(* The invariant follows one update through its steps.  Before extraction  *)
(* begins nothing is in its sets, and as long as it has not composed, the  *)
(* overlay of the candidate is empty; every chunk is in the cache's part,  *)
(* queued, or with a worker that the scheduler knows or, having given up   *)
(* on it, has told to stop: therefore none fails after the composition     *)
(* that holds it.  The receipt says what the overlay is, the candidate     *)
(* says what the receipt said, and the check of the candidate makes it     *)
(* readable with its base.  A complete snapshot that is good when it       *)
(* would be replaced was good when the update looked, since nothing mends  *)
(* it in between; so the update knows that it is the same.                 *)
(***************************************************************************)

States == {"none", "complete", "partial", "pending", "unavailable", "disabled"}
AnyRoute == Resolutions \cup {"former"}
Manifests == [written : BOOLEAN, trusted : BOOLEAN, state : States, route : AnyRoute,
              composed : SUBSET Chunks, base : {None} \cup Ids, digest : SUBSET Nat, graph : SUBSET Int]

Preparing == {"idle", "probe", "load", "decide", "fingerprint", "build", "base", "disabled",
              "extract", "plan", "prepare", "lookup"}
Scheduling == {"refetch", "run", "drain", "accept", "compose"}
Working == Scheduling \cup {"settle"}
Extracting == {"extract", "plan", "prepare", "lookup"} \cup Working

FlagTypes == event \in BOOLEAN /\ abort \in BOOLEAN
CacheTypes == cache \in [Routes -> [Chunks -> {"none", "legacy", "qualified"}]] /\ route \in Resolutions
WorkerTypes == worker \in [Chunks -> {"none", "calling", "put", "done"}]
ChunkTypes == /\ cached \subseteq Chunks /\ queue \subseteq Chunks /\ inflight \subseteq Chunks
              /\ fresh \subseteq Chunks /\ failed \subseteq Chunks /\ pending \subseteq Chunks
              /\ accepted \subseteq Chunks /\ composed \subseteq Chunks
ReceiptTypes == receipt.state \in States /\ receipt.route \in AnyRoute /\ receipt.composed \subseteq Chunks
SemanticTypes == FlagTypes /\ CacheTypes /\ WorkerTypes /\ ChunkTypes /\ ReceiptTypes /\ graph \subseteq Nat

StoreTypes ==
    /\ snapshots \in [Ids -> Manifests]
    /\ bases \in [Ids -> {"none", "graph", "whole", "damaged"}]
    /\ op \in 1 .. MaxUpdates /\ pointer \in {None} \cup 0 .. op /\ baseId \in 0 .. op
    /\ mode \in {"structural", "configured"} /\ damage \in Nat

\* Before the extraction begins there is nothing in its sets.
Empty == /\ cached = {} /\ queue = {} /\ inflight = {} /\ fresh = {} /\ failed = {} /\ pending = {}
         /\ accepted = {} /\ composed = {} /\ worker = [c \in Chunks |-> "none"]
Unbegun == pc \in Preparing => Empty

OnRoute == pc \in {"prepare", "lookup"} \cup Working => route \in Routes

\* The workers at work are those the scheduler has in flight, until it gives up on them: then the
\* event tells them to stop.
Busy(c) == worker[c] \in {"calling", "put"}
GivenUp ==
    /\ pc = "refetch" => \A c \in Chunks : worker[c] = "none"
    /\ pc \in {"run", "drain"} => \A c \in Chunks : Busy(c) => c \in inflight
    /\ pc \in {"accept", "compose", "settle"} => \A c \in Chunks : Busy(c) => event
    /\ pc = "drain" => event
    /\ pc = "judge" => \A c \in Chunks : worker[c] = "none"

AreQualified ==
    pc \in Working => /\ \A c \in cached \cup fresh \cup accepted \cup composed : cache[route][c] = "qualified"
                      /\ pc = "settle" => graph \subseteq Qualified

\* What came from the cache, what is queued and what workers had are apart, and what is composed
\* is apart from what failed.
Apart ==
    pc \in Working =>
      /\ cached \cap queue = {}
      /\ \A c \in Chunks : worker[c] # "none" => c \notin cached /\ c \notin queue
      /\ \A c \in fresh : worker[c] = "done"
      /\ accepted \subseteq cached \cup fresh
      /\ pc \in Scheduling => composed = {} /\ \A c \in failed : worker[c] = "done" /\ c \notin fresh
      /\ pc = "settle" => /\ composed \cap (failed \cup pending) = {}
                          /\ composed # {} => graph = composed /\ \A c \in Chunks : ~Busy(c)

\* Until workers are told to stop, a chunk is pending that nobody has or will bring.
PendingApart ==
    pc \in Scheduling /\ ~event
    => \A c \in pending : c \notin cached /\ c \notin fresh /\ c \notin queue /\ ~Busy(c)

\* The overlay is empty until it is composed.
Plain == pc \in {"base", "disabled", "extract", "plan", "prepare", "lookup"} \cup Scheduling => graph = {}

\* What a receipt or a manifest says of the overlay
Says(state, r, of, overlay) ==
    /\ of # {} => overlay = of
    /\ state = "complete" => of = Chunks /\ r # "none"
    /\ state = "disabled" => overlay = {}
    /\ state # "unavailable" /\ overlay # {} => r # "none"
    /\ r \in Routes => overlay \subseteq QualifiedOn(r)

ReceiptTrue ==
    pc \in {"judge", "manifest"} =>
      /\ Says(receipt.state, receipt.route, receipt.composed, graph)
      /\ receipt.state = "unavailable" => receipt.composed = {}
      /\ pc = "manifest" /\ receipt.state = "unavailable" => graph = {}

SemanticInv ==
    /\ SemanticTypes /\ Unbegun /\ OnRoute /\ GivenUp /\ AreQualified /\ Apart /\ PendingApart /\ Plain
    /\ ReceiptTrue /\ Accounted

\* A fragment that is qualified stays so.
CacheGrows == \A r \in Routes, c \in Chunks : cache[r][c] = "qualified" => cache'[r][c] = "qualified"

ManifestsTrue ==
    \A id \in Ids \ {0} : Snapshot(id).written =>
       /\ Says(Snapshot(id).state, Snapshot(id).route, Snapshot(id).composed, Snapshot(id).digest)
       /\ Snapshot(id).state = "unavailable" => Snapshot(id).digest = {}

\* The base of a snapshot is not one of a later update.
OwnBases == \A id \in Ids : Snapshot(id).base # None => Snapshot(id).base <= id

Running ==
    /\ pc # "idle" => record = "running"
    /\ pc = "report" => pointer = op
    /\ pc \notin {"idle", "report"} => pointer = before /\ before < op
    /\ pc # "report" => old \in {None, pointer}

Checked == pc = "publish" /\ damage = 0 => Snapshot(op).written /\ Readable(op) /\ BaseIsValid(op)

\* The snapshot that the view shows is readable and trusted: the update found it so.
Good == pointer # None /\ Readable(pointer) /\ Trusted(pointer)
Noticed ==
    /\ pc = "decide" /\ Good => old = pointer /\ readable
    /\ pc \in {"fingerprint", "build", "base", "disabled", "judge"} \cup Extracting /\ Good =>
          same /\ old = pointer /\ mode = "configured"

\* Where it is complete, so is what will replace it.
Complete ==
    Good /\ Snapshot(pointer).state = "complete" /\ enabled =>
       /\ pc = "manifest" => receipt.state = "complete"
       /\ pc \in {"check", "publish"} => Snapshot(op).state = "complete"

StoreInv == /\ StoreTypes /\ ManifestsTrue /\ OwnBases /\ Running /\ Checked /\ Noticed /\ Complete
            /\ ViewIsWhole

KnowledgeInv == SemanticInv /\ StoreInv

\* A set of numbers that is not empty has a least one.
LEMMA LeastIsIn ==
    ASSUME NEW T, T \subseteq Nat, T # {}
    PROVE  Min(T) \in T
<1> DEFINE R == OpToRel(<, Nat)
<1>1. IsWellFoundedOn(R, Nat)
  BY NatLessThanWellFounded
<1>2. \A x, y \in Nat : x < y => <<x, y>> \in R
  BY DEF OpToRel
<1> HIDE DEF R
<1>3. PICK x \in T : \A y \in T : ~(<<y, x>> \in R)
  BY <1>1, WFMin
<1>4. \A y \in T : ~(y < x)
  BY <1>2, <1>3
<1>5. \A y \in T : x <= y
  BY <1>3, <1>4
<1> QED
  BY <1>5 DEF Min

\* What is qualified stays qualified.
LEMMA QualifiedGrows ==
    ASSUME CacheGrows
    PROVE  \A r \in Routes : QualifiedOn(r) \subseteq QualifiedOn(r)'
BY DEF CacheGrows, QualifiedOn

LEMMA StillGrows == UNCHANGED cache => CacheGrows
BY DEF CacheGrows

-----------------------------------------------------------------------------
(* The extraction *)

\* What the semantics are made of, in a step of something else
Still == UNCHANGED <<event, abort, cache, worker, cached, queue, inflight, fresh, failed, pending,
                     accepted, composed, receipt>>

\* An update before its extraction
LEMMA NotYet ==
    ASSUME SemanticInv, Still, pc \in Preparing, pc' \in Preparing \ {"prepare", "lookup"},
           route' \in Resolutions, graph' \subseteq Nat,
           pc' \in {"base", "disabled", "extract", "plan"} => graph' = {}
    PROVE  SemanticInv'
<1> USE DEF SemanticInv, Still, Preparing
<1>1. SemanticTypes'
  BY DEF SemanticTypes, FlagTypes, CacheTypes, WorkerTypes, ChunkTypes, ReceiptTypes
<1>2. Unbegun'
  BY DEF Unbegun, Empty
<1>3. OnRoute' /\ GivenUp' /\ AreQualified' /\ Apart' /\ PendingApart' /\ ReceiptTrue' /\ Accounted'
  BY DEF OnRoute, GivenUp, AreQualified, Apart, PendingApart, ReceiptTrue, Accounted, Working, Scheduling
<1>4. Plain'
  BY DEF Plain, Scheduling
<1> QED
  BY <1>1, <1>2, <1>3, <1>4

\* An update behind its extraction
LEMMA Behind ==
    ASSUME SemanticInv, pc' \in {"manifest", "check", "publish", "report", "cancelled"},
           SemanticTypes', ReceiptTrue'
    PROVE  SemanticInv'
<1>1. Unbegun' /\ OnRoute' /\ GivenUp' /\ AreQualified' /\ Apart' /\ PendingApart' /\ Accounted' /\ Plain'
  BY DEF Unbegun, OnRoute, GivenUp, AreQualified, Apart, PendingApart, Plain, Accounted, Working, Scheduling, Preparing
<1> QED
  BY <1>1 DEF SemanticInv

\* It is over.
LEMMA Over ==
    ASSUME SemanticInv, Forgets, pc' = "idle", cache' = cache
    PROVE  SemanticInv'
<1> USE DEF SemanticInv, Forgets
<1>1. SemanticTypes'
  <2>1. FlagTypes' /\ CacheTypes'
    BY DEF SemanticTypes, FlagTypes, CacheTypes, Resolutions
  <2>2. WorkerTypes' /\ ChunkTypes'
    BY DEF WorkerTypes, ChunkTypes
  <2>3. receipt' = NoReceipt /\ NoReceipt.state = "none" /\ NoReceipt.route = "none" /\ NoReceipt.composed = {}
    BY DEF NoReceipt
  <2>4. ReceiptTypes' /\ graph' \subseteq Nat
    BY <2>3 DEF ReceiptTypes, NoGraph, States, AnyRoute, Resolutions
  <2> QED
    BY <2>1, <2>2, <2>4 DEF SemanticTypes
<1>2. Unbegun'
  BY DEF Unbegun, Empty
<1>3. OnRoute' /\ GivenUp' /\ AreQualified' /\ Apart' /\ PendingApart' /\ ReceiptTrue' /\ Accounted' /\ Plain'
  BY DEF OnRoute, GivenUp, AreQualified, Apart, PendingApart, ReceiptTrue, Accounted, Working, Scheduling, Plain
<1> QED
  BY <1>1, <1>2, <1>3

\* What is said of an overlay stands while nothing it speaks of changes.
LEMMA SaidStands ==
    ASSUME AreQualified, ReceiptTrue,
           UNCHANGED <<pc, cache, cached, fresh, accepted, composed, receipt, route, graph>>
    PROVE  AreQualified' /\ ReceiptTrue' /\ Qualified' = Qualified
<1>1. Qualified' = Qualified /\ \A r \in Routes : QualifiedOn(r)' = QualifiedOn(r)
  BY DEF Qualified, QualifiedOn
<1>2. AreQualified'
  BY <1>1 DEF AreQualified
<1>3. ReceiptTrue'
  BY <1>1 DEF ReceiptTrue, Says
<1> QED
  BY <1>1, <1>2, <1>3

\* Time and the host touch nothing but the event.
LEMMA TimeKeepsSemantics ==
    ASSUME SemanticInv, Tick \/ Cancel
    PROVE  SemanticInv'
<1> USE DEF SemanticInv
<1>1. /\ UNCHANGED <<abort, store, pc, work, extraction, graph>>
      /\ event' = event \/ event' = TRUE
  BY DEF Tick, Cancel, flags
<1> USE DEF store, work, extraction, scheduling, marks
<1>2. SemanticTypes'
  BY <1>1 DEF SemanticTypes, FlagTypes, CacheTypes, WorkerTypes, ChunkTypes, ReceiptTypes
<1>3. Unbegun' /\ OnRoute' /\ Plain'
  BY <1>1 DEF Unbegun, Empty, OnRoute, Plain
<1>4. GivenUp' /\ Apart' /\ PendingApart'
  BY <1>1 DEF GivenUp, Busy, Apart, PendingApart
<1>5. AreQualified' /\ ReceiptTrue' /\ Qualified' = Qualified
  BY <1>1, SaidStands
<1>6. Accounted'
  BY <1>1, <1>5 DEF Accounted
<1> QED
  BY <1>2, <1>3, <1>4, <1>5, <1>6

\* An early receipt: the documents are not extracted at all.
LEMMA EarlyReceipt ==
    ASSUME SemanticInv, Empty, graph = {}, UNCHANGED graph, FlagTypes', NEW st \in {"unavailable", "pending"},
           Early_(st)
    PROVE  SemanticInv'
<1> USE DEF SemanticInv, Early_, store, work, scheduling, marks
<1>1. /\ receipt'.state = st /\ receipt'.route = "none" /\ receipt'.composed = {}
  BY DEF Receipt
<1>2. SemanticTypes'
  BY <1>1 DEF SemanticTypes, CacheTypes, WorkerTypes, ChunkTypes, ReceiptTypes, States, AnyRoute, Resolutions
<1>3. Unbegun' /\ OnRoute' /\ AreQualified' /\ Apart' /\ PendingApart' /\ Plain'
  BY DEF Unbegun, OnRoute, AreQualified, Apart, PendingApart, Plain, Preparing, Working, Scheduling
<1>4. ReceiptTrue' /\ Accounted'
  BY <1>1 DEF ReceiptTrue, Accounted, Says
<1>5. GivenUp'
  BY DEF GivenUp, Empty
<1> QED
  BY <1>2, <1>3, <1>4, <1>5

\* A cancellation
LEMMA Raised ==
    ASSUME SemanticInv, Raise("cancelled"), FlagTypes', graph' \subseteq Nat
    PROVE  SemanticInv'
<1> USE DEF SemanticInv, Raise, store, work, scheduling, marks, extraction
<1>1. SemanticTypes'
  BY DEF SemanticTypes, CacheTypes, WorkerTypes, ChunkTypes, ReceiptTypes
<1>2. ReceiptTrue'
  BY DEF ReceiptTrue
<1> QED
  BY <1>1, <1>2, Behind

\* A poll leaves the flags flags, and never takes the event back.
LEMMA Polled ==
    ASSUME FlagTypes, Poll \/ PollAborting \/ UNCHANGED flags
    PROVE  FlagTypes' /\ (event => event')
BY DEF FlagTypes, Poll, PollAborting, flags

\* The plan, and the fragments prepared for it
LEMMA PlanKeeps ==
    ASSUME SemanticInv, Plan
    PROVE  SemanticInv'
<1> USE DEF SemanticInv
<1>1. pc = "plan" /\ graph' = graph /\ graph = {} /\ Empty
  BY DEF Plan, Plain, Unbegun, Preparing
<1>2. CASE CancelRequested
  BY <1>1, <1>2, Polled, Raised DEF Plan, SemanticTypes
<1>3. CASE ~CancelRequested /\ route \in {"none", "unresolved"}
  BY <1>1, <1>3, Polled, EarlyReceipt DEF Plan, SemanticTypes
<1>4. CASE ~CancelRequested /\ route \notin {"none", "unresolved"}
  <2>1. /\ pc' \in {"lookup", "prepare"}
        /\ UNCHANGED <<event, abort, cache, worker, cached, queue, inflight, fresh, failed, pending,
                       accepted, composed, receipt, route>>
    BY <1>1, <1>4 DEF Plan, flags, work, store, scheduling, marks, extraction
  <2>2. SemanticTypes' /\ Unbegun' /\ Plain'
    BY <1>1, <2>1 DEF SemanticTypes, FlagTypes, CacheTypes, WorkerTypes, ChunkTypes, ReceiptTypes,
                      Unbegun, Empty, Plain
  <2>3. GivenUp' /\ AreQualified' /\ Apart' /\ PendingApart' /\ ReceiptTrue' /\ Accounted'
    BY <2>1 DEF GivenUp, AreQualified, Apart, PendingApart, ReceiptTrue, Accounted, Working, Scheduling
  <2>4. OnRoute'
    BY <1>4, <2>1 DEF OnRoute, SemanticTypes, CacheTypes, Resolutions
  <2> QED
    BY <2>2, <2>3, <2>4
<1> QED
  BY <1>2, <1>3, <1>4

\* The fragments prepared for a new plan
LEMMA PrepareKeeps ==
    ASSUME SemanticInv, Prepare
    PROVE  SemanticInv'
<1> USE DEF SemanticInv
<1>1. pc = "prepare" /\ graph' = graph /\ graph = {} /\ Empty /\ route \in Routes
  BY DEF Prepare, Plain, Unbegun, OnRoute, Preparing
<1>2. PICK end \in Bounded :
          \/ end = "cancelled" /\ Poll /\ Raise("cancelled")
          \/ UNCHANGED <<event, abort>> /\ (Early_("pending") \/ Early_("unavailable"))
          \/ pc' = "lookup" /\ KeepsPlan(route) /\ UNCHANGED <<flags, extraction, work, cache>>
  BY DEF Prepare, flags
<1>3. CASE Poll /\ Raise("cancelled")
  BY <1>1, <1>3, Polled, Raised DEF SemanticTypes
<1>4. CASE UNCHANGED <<event, abort>> /\ (Early_("pending") \/ Early_("unavailable"))
  <2>1. FlagTypes'
    BY <1>4 DEF SemanticTypes, FlagTypes
  <2> QED
    BY <1>1, <1>4, <2>1, EarlyReceipt
<1>5. CASE pc' = "lookup" /\ KeepsPlan(route) /\ UNCHANGED <<flags, extraction, work, cache>>
  <2>1. /\ pc' = "lookup"
        /\ UNCHANGED <<event, abort, cache, worker, cached, queue, inflight, fresh, failed, pending,
                       accepted, composed, receipt, route>>
    BY <1>5 DEF flags, work, scheduling, marks, extraction
  <2>2. SemanticTypes' /\ Unbegun' /\ Plain' /\ OnRoute'
    BY <1>1, <2>1 DEF SemanticTypes, FlagTypes, CacheTypes, WorkerTypes, ChunkTypes, ReceiptTypes,
                      Unbegun, Empty, Plain, OnRoute
  <2>3. GivenUp' /\ AreQualified' /\ Apart' /\ PendingApart' /\ ReceiptTrue' /\ Accounted'
    BY <2>1 DEF GivenUp, AreQualified, Apart, PendingApart, ReceiptTrue, Accounted, Working, Scheduling
  <2> QED
    BY <2>2, <2>3
<1> QED
  BY <1>2, <1>3, <1>4, <1>5

\* What the cache has, and what has to be extracted
LEMMA LookupKeeps ==
    ASSUME SemanticInv, Lookup
    PROVE  SemanticInv'
<1> USE DEF SemanticInv
<1>1. pc = "lookup" /\ graph' = graph /\ graph = {} /\ Empty /\ route \in Routes
  BY DEF Lookup, Plain, Unbegun, OnRoute, Preparing
<1>2. PICK good \in Revalidated :
         /\ cached' = good \cup Qualified
         /\ cache' = [cache EXCEPT ![route] =
                         [c \in Chunks |-> IF c \in good THEN "qualified" ELSE @[c]]]
  BY DEF Lookup
<1>3. good \subseteq Chunks /\ Qualified \subseteq Chunks /\ cached' \subseteq Chunks
  BY <1>2 DEF Revalidated, Qualified, QualifiedOn
<1>4. /\ pc' \in {"refetch", "run"} /\ queue' \subseteq Chunks \ cached' /\ pending' \subseteq Chunks
      /\ UNCHANGED <<event, abort, worker, inflight, fresh, failed, accepted, composed, receipt, route>>
  BY <1>1 DEF Lookup, Empty
<1>10. \A c \in pending' : c \notin cached' /\ c \notin queue'
  BY <1>1 DEF Lookup, Empty
<1>5. cache' \in [Routes -> [Chunks -> {"none", "legacy", "qualified"}]]
      /\ \A c \in cached' : cache'[route][c] = "qualified"
  <2> DEFINE row == [c \in Chunks |-> IF c \in good THEN "qualified" ELSE cache[route][c]]
  <2>1. row \in [Chunks -> {"none", "legacy", "qualified"}]
    BY <1>1 DEF SemanticTypes, CacheTypes
  <2>2. cache' = [cache EXCEPT ![route] = row]
    BY <1>2
  <2>3. \A c \in cached' : row[c] = "qualified"
    BY <1>2, <1>3 DEF Qualified, QualifiedOn
  <2> HIDE DEF row
  <2> QED
    BY <1>1, <2>1, <2>2, <2>3 DEF SemanticTypes, CacheTypes
<1>6. SemanticTypes'
  BY <1>1, <1>3, <1>4, <1>5 DEF SemanticTypes, FlagTypes, CacheTypes, WorkerTypes, ChunkTypes, ReceiptTypes
<1>7. Unbegun' /\ OnRoute' /\ Plain' /\ ReceiptTrue' /\ Accounted'
  BY <1>1, <1>4 DEF Unbegun, OnRoute, Plain, ReceiptTrue, Accounted, Preparing
<1>8. GivenUp' /\ Apart' /\ PendingApart'
  BY <1>1, <1>4, <1>10 DEF GivenUp, Apart, PendingApart, Empty, Busy, Working, Scheduling, SemanticTypes, ChunkTypes
<1>9. AreQualified'
  BY <1>1, <1>4, <1>5 DEF AreQualified, Empty
<1> QED
  BY <1>6, <1>7, <1>8, <1>9

\* The prompts of a reused plan
LEMMA RefetchKeeps ==
    ASSUME SemanticInv, Refetch
    PROVE  SemanticInv'
<1> USE DEF SemanticInv
<1>1. pc = "refetch" /\ graph' = graph
  BY DEF Refetch
<1>2. CASE Poll /\ Raise("cancelled")
  BY <1>1, <1>2, Polled, Raised DEF SemanticTypes
<1>3. CASE /\ pc' = "run"
           /\ (pending' = queue /\ queue' = {}) \/ UNCHANGED <<queue, pending>>
           /\ UNCHANGED <<event, abort, cache, worker, cached, inflight, fresh, failed, accepted, composed,
                          receipt, route>>
  <2>1. SemanticTypes'
    BY <1>1, <1>3 DEF SemanticTypes, FlagTypes, CacheTypes, WorkerTypes, ChunkTypes, ReceiptTypes
  <2>2. Unbegun' /\ OnRoute' /\ ReceiptTrue' /\ Accounted' /\ Plain'
    BY <1>1, <1>3 DEF Unbegun, OnRoute, ReceiptTrue, Accounted, Plain, Preparing, Working, Scheduling
  <2>3. GivenUp' /\ AreQualified'
    BY <1>1, <1>3 DEF GivenUp, Busy, AreQualified, Working, Scheduling
  <2>4. Apart'
    BY <1>1, <1>3 DEF Apart, Working, Scheduling
  <2>5. fresh = {} /\ \A c \in Chunks : ~Busy(c) /\ ~Busy(c)'
    BY <1>1, <1>3 DEF GivenUp, Busy, Apart, Working, Scheduling, SemanticTypes, ChunkTypes
  <2>6. queue \cap cached = {} /\ pending' \subseteq Chunks
    BY <1>1, <2>1 DEF Apart, Working, Scheduling, SemanticTypes, ChunkTypes
  <2>7. PendingApart'
    BY <1>1, <1>3, <2>5, <2>6 DEF PendingApart, Scheduling
  <2> QED
    BY <2>1, <2>2, <2>3, <2>4, <2>7
<1> QED
  BY <1>2, <1>3 DEF Refetch, flags, extraction, work, scheduling, marks, store

\* The next chunk of the queue goes to a worker.
LEMMA SubmitKeeps ==
    ASSUME SemanticInv, Submit
    PROVE  SemanticInv'
<1> USE DEF SemanticInv
<1> DEFINE c == Min(queue)
<1>1. /\ pc = "run" /\ pc' = "run" /\ c \in queue /\ c \in Chunks
      /\ queue' = queue \ {c} /\ inflight' = inflight \cup {c} /\ worker' = [worker EXCEPT ![c] = "calling"]
      /\ UNCHANGED <<event, abort, cache, cached, fresh, failed, pending, accepted, composed,
                     receipt, route, graph>>
  <2>1. queue # {} /\ queue \subseteq Chunks /\ queue \subseteq Nat
    BY DEF Submit, SemanticTypes, ChunkTypes, Chunks
  <2>2. Min(queue) \in queue
    BY <2>1, LeastIsIn
  <2> QED
    BY <2>1, <2>2 DEF Submit, flags, store, marks, extraction
<1> HIDE DEF c
<1>2. SemanticTypes'
  BY <1>1 DEF SemanticTypes, FlagTypes, CacheTypes, WorkerTypes, ChunkTypes, ReceiptTypes
<1>3. Unbegun' /\ OnRoute' /\ ReceiptTrue' /\ Accounted' /\ Plain' /\ AreQualified'
  BY <1>1 DEF Unbegun, OnRoute, ReceiptTrue, Accounted, Plain, AreQualified, Preparing
<1>4. GivenUp'
  BY <1>1 DEF GivenUp, Busy, SemanticTypes, WorkerTypes
<1>5. Apart'
  <2>1. /\ cached \cap queue = {} /\ accepted \subseteq cached \cup fresh /\ composed = {}
        /\ \A d \in Chunks : worker[d] # "none" => d \notin cached /\ d \notin queue
        /\ \A d \in fresh : worker[d] = "done"
        /\ \A d \in failed : worker[d] = "done" /\ d \notin fresh
    BY <1>1 DEF Apart, Working, Scheduling
  <2>2. fresh \subseteq Chunks /\ failed \subseteq Chunks
    BY DEF SemanticTypes, ChunkTypes
  <2>3. worker[c] = "none" /\ c \notin cached
    BY <1>1, <2>1 DEF SemanticTypes, WorkerTypes
  <2>4. \A d \in Chunks : d # c => worker'[d] = worker[d]
    BY <1>1 DEF SemanticTypes, WorkerTypes
  <2>5. c \notin fresh /\ c \notin failed
    BY <2>1, <2>3
  <2> QED
    BY <1>1, <2>1, <2>2, <2>3, <2>4, <2>5 DEF Apart
<1>6. PendingApart'
  <2>1. \A d \in Chunks : d # c => worker'[d] = worker[d]
    BY <1>1 DEF SemanticTypes, WorkerTypes
  <2> QED
    BY <1>1, <2>1 DEF PendingApart, Busy, Scheduling, SemanticTypes, ChunkTypes
<1> QED
  BY <1>2, <1>3, <1>4, <1>5, <1>6

\* A step on the thread of the update within the schedule, which takes workers off the list only when
\* they are done, or have been told to stop
LEMMA Schedules ==
    ASSUME SemanticInv, FlagTypes', event => event', ChunkTypes',
           pc \in {"run", "drain", "accept"}, pc' \in {"run", "drain", "accept", "compose", "settle"},
           UNCHANGED <<cache, worker, cached, queue, fresh, failed, composed, receipt, route, graph>>,
           accepted' = accepted \/ accepted' = cached \cup fresh,
           pc' \in {"run", "drain"} => \A c \in Chunks : Busy(c) => c \in inflight',
           pc' \in {"accept", "compose", "settle"} => \A c \in Chunks : Busy(c) => event',
           pc' = "drain" => event',
           pc' \in Scheduling /\ ~event' => pending' = pending
    PROVE  SemanticInv'
<1> USE DEF SemanticInv
<1>1. SemanticTypes'
  BY DEF SemanticTypes, CacheTypes, WorkerTypes, ReceiptTypes
<1>2. Unbegun' /\ OnRoute' /\ ReceiptTrue' /\ Accounted' /\ Plain'
  BY DEF Unbegun, OnRoute, ReceiptTrue, Accounted, Plain, Preparing, Working, Scheduling
<1>3. GivenUp'
  BY DEF GivenUp, Busy
<1>4. AreQualified'
  BY DEF AreQualified, Plain, Working, Scheduling
<1>5. Apart'
  BY DEF Apart, Working, Scheduling
<1>6. PendingApart'
  BY DEF PendingApart, Busy, Scheduling
<1> QED
  BY <1>1, <1>2, <1>3, <1>4, <1>5, <1>6

\* The scheduler takes who is done, ends, drains and accepts.
LEMMA ScheduleKeeps ==
    ASSUME SemanticInv, Reap \/ EndSchedule \/ EndDrain \/ Accept
    PROVE  SemanticInv'
<1> USE DEF SemanticInv
<1>0. SemanticTypes /\ ChunkTypes /\ FlagTypes
  BY DEF SemanticTypes
<1>1. CASE Reap
  <2>1. PICK c \in inflight : worker[c] = "done" /\ inflight' = inflight \ {c}
    BY <1>1 DEF Reap
  <2>2. /\ pc \in {"run", "drain"} /\ pc' = pc
        /\ UNCHANGED <<event, abort, cache, worker, cached, queue, fresh, failed, pending, accepted,
                       composed, receipt, route, graph>>
    BY <1>1 DEF Reap, flags, store, marks, extraction
  <2>3. FlagTypes' /\ ChunkTypes'
    BY <1>0, <2>1, <2>2 DEF FlagTypes, ChunkTypes
  <2>4. \A d \in Chunks : Busy(d) => d \in inflight'
    BY <2>1, <2>2 DEF GivenUp, Busy
  <2>5. pc = "drain" => event
    BY DEF GivenUp
  <2> QED
    BY <2>2, <2>3, <2>4, <2>5, Schedules
<1>2. CASE EndSchedule
  <2>1. /\ pc = "run"
        /\ UNCHANGED <<cache, worker, cached, queue, inflight, fresh, failed, pending, accepted,
                       composed, receipt, route, graph>>
        /\ \/ inflight = {} /\ pc' = "accept" /\ UNCHANGED <<event, abort>>
           \/ pc' = "drain" /\ event' = TRUE /\ abort' \in BOOLEAN
    BY <1>2 DEF EndSchedule, flags, store, work, scheduling, marks, extraction
  <2>2. FlagTypes' /\ ChunkTypes' /\ (event => event')
    BY <1>0, <2>1 DEF FlagTypes, ChunkTypes
  <2>3. \A c \in Chunks : Busy(c) => c \in inflight
    BY <2>1 DEF GivenUp
  <2> QED
    BY <2>1, <2>2, <2>3, Schedules DEF Scheduling
<1>3. CASE EndDrain
  <2>1. /\ pc = "drain" /\ pc' = "accept" /\ Poll
        /\ pending' = pending \cup {c \in inflight : worker[c] # "done"} /\ inflight' = {}
        /\ UNCHANGED <<cache, worker, cached, queue, fresh, failed, accepted, composed, receipt, route, graph>>
    BY <1>3 DEF EndDrain, store, extraction
  <2>2. FlagTypes' /\ (event => event')
    BY <1>0, <2>1, Polled
  <2>3. event /\ ChunkTypes'
    BY <1>0, <2>1 DEF GivenUp, ChunkTypes
  <2> QED
    BY <2>1, <2>2, <2>3, Schedules DEF Scheduling
<1>4. CASE Accept
  <2>1. /\ pc = "accept" /\ pc' \in {"compose", "settle"} /\ (Poll \/ UNCHANGED flags)
        /\ accepted' = cached \cup fresh /\ pending' \subseteq pending \cup accepted'
        /\ pc' = "compose" => pending' = pending
        /\ UNCHANGED <<cache, worker, cached, queue, inflight, fresh, failed, composed, receipt, route, graph>>
    BY <1>4 DEF Accept, store, scheduling
  <2>2. FlagTypes' /\ (event => event')
    BY <1>0, <2>1, Polled
  <2>3. ChunkTypes'
    BY <1>0, <2>1 DEF ChunkTypes
  <2>4. \A c \in Chunks : Busy(c) => event
    BY <2>1 DEF GivenUp
  <2> QED
    BY <2>1, <2>2, <2>3, <2>4, Schedules DEF Scheduling
<1> QED
  BY <1>1, <1>2, <1>3, <1>4

\* The composition, of everything accepted: nothing that failed is in it.
LEMMA ComposeKeeps ==
    ASSUME SemanticInv, Compose
    PROVE  SemanticInv'
<1> USE DEF SemanticInv
<1>0. pc = "compose" /\ SemanticTypes /\ ChunkTypes /\ FlagTypes /\ accepted \subseteq Nat
  BY DEF Compose, SemanticTypes, ChunkTypes, Chunks
<1>1. graph' = accepted \/ graph' = graph
  BY DEF Compose
<1>2. graph' \subseteq Nat
  BY <1>0, <1>1 DEF SemanticTypes
<1>3. CASE Poll /\ Raise("cancelled")
  BY <1>0, <1>2, <1>3, Polled, Raised
<1>4. CASE /\ pc' = "settle"
           /\ PollAborting \/ UNCHANGED flags
           /\ UNCHANGED <<cache, worker, cached, queue, inflight, fresh, accepted, receipt, route>>
           /\ failed' \subseteq failed \cup accepted /\ pending' \subseteq pending \cup accepted
           /\ \/ composed' = composed
              \/ composed' = accepted /\ graph' = accepted /\ UNCHANGED <<failed, pending>> /\ ~event
  <2>1. FlagTypes' /\ (event => event')
    BY <1>0, <1>4, Polled
  <2>2. ChunkTypes'
    BY <1>0, <1>4 DEF ChunkTypes
  <2>3. SemanticTypes'
    BY <1>0, <1>2, <1>4, <2>1, <2>2 DEF SemanticTypes, CacheTypes, WorkerTypes, ReceiptTypes
  <2>4. Unbegun' /\ OnRoute' /\ ReceiptTrue' /\ Accounted' /\ Plain'
    BY <1>0, <1>4 DEF Unbegun, OnRoute, ReceiptTrue, Accounted, Plain, Preparing, Working, Scheduling
  <2>5. GivenUp'
    BY <1>0, <1>4, <2>1 DEF GivenUp, Busy
  <2>6. AreQualified'
    BY <1>0, <1>1, <1>4 DEF AreQualified, Plain, Qualified, QualifiedOn, Working, Scheduling, ChunkTypes
  <2>7. /\ cached \cap queue = {} /\ accepted \subseteq cached \cup fresh /\ composed = {}
        /\ \A d \in Chunks : worker[d] # "none" => d \notin cached /\ d \notin queue
        /\ \A d \in fresh : worker[d] = "done"
        /\ \A d \in failed : worker[d] = "done" /\ d \notin fresh
    BY <1>0 DEF Apart, Working, Scheduling
  <2>8. accepted \cap failed = {} /\ (~event => accepted \cap pending = {} /\ \A d \in Chunks : ~Busy(d))
    BY <1>0, <2>7 DEF ChunkTypes, PendingApart, Scheduling, GivenUp
  <2>9. Apart' /\ PendingApart'
    BY <1>4, <2>7, <2>8 DEF Apart, PendingApart, Busy, Working, Scheduling
  <2> QED
    BY <2>3, <2>4, <2>5, <2>6, <2>9
<1>5. (Poll /\ Raise("cancelled"))
      \/ (/\ pc' = "settle"
          /\ PollAborting \/ UNCHANGED flags
          /\ UNCHANGED <<cache, worker, cached, queue, inflight, fresh, accepted, receipt, route>>
          /\ failed' \subseteq failed \cup accepted /\ pending' \subseteq pending \cup accepted
          /\ \/ composed' = composed
             \/ composed' = accepted /\ graph' = accepted /\ UNCHANGED <<failed, pending>> /\ ~event)
  BY DEF Compose, Bounded, ComponentEnds, extraction, scheduling, store, work, marks
<1> QED
  BY <1>3, <1>4, <1>5

\* What is neither composed nor failed is pending: the receipt accounts for every chunk.
LEMMA SettleKeeps ==
    ASSUME SemanticInv, Settle
    PROVE  SemanticInv'
<1> USE DEF SemanticInv
<1>0. pc = "settle" /\ SemanticTypes /\ ChunkTypes /\ FlagTypes /\ route \in Routes
  BY DEF Settle, SemanticTypes, OnRoute, Working
<1> DEFINE open == Chunks \ (composed \cup failed \cup pending)
<1>1. /\ pending' = pending \cup open /\ worker' = [c \in Chunks |-> "none"]
      /\ queue' = {} /\ cached' = {} /\ fresh' = {} /\ accepted' = {}
      /\ UNCHANGED <<abort, cache, inflight, failed, route, composed, graph>>
      /\ event' \in BOOLEAN
      /\ \/ pc' = "cancelled" /\ receipt' = receipt
         \/ pc' = "judge" /\ receipt' = Receipt(SemanticState, composed, exhausted')
  BY <1>0 DEF Settle, store, FlagTypes
<1>2. /\ SemanticState \in {"complete", "partial", "pending", "unavailable"}
      /\ SemanticState = "complete" => composed = Chunks
      /\ SemanticState = "unavailable" => composed = {}
  BY DEF SemanticState
<1>3. ASSUME receipt' = Receipt(SemanticState, composed, exhausted')
      PROVE  /\ receipt'.state = SemanticState /\ receipt'.composed = composed
             /\ receipt'.route \in {"none", route}
             /\ receipt'.state # "unavailable" => receipt'.route = route
  BY <1>2, <1>3 DEF Receipt
<1>4. SemanticTypes'
  <2>1. FlagTypes' /\ CacheTypes' /\ WorkerTypes' /\ ChunkTypes'
    BY <1>0, <1>1 DEF SemanticTypes, FlagTypes, CacheTypes, WorkerTypes, ChunkTypes
  <2>2. ReceiptTypes'
    BY <1>0, <1>1, <1>2, <1>3 DEF SemanticTypes, ReceiptTypes, States, AnyRoute, Resolutions, ChunkTypes
  <2> QED
    BY <1>0, <1>1, <2>1, <2>2 DEF SemanticTypes
<1>5. CASE pc' = "cancelled"
  <2>1. ReceiptTrue'
    BY <1>5 DEF ReceiptTrue
  <2> QED
    BY <1>4, <1>5, <2>1, Behind
<1>6. CASE pc' = "judge" /\ receipt' = Receipt(SemanticState, composed, exhausted')
  <2>1. composed \cap (failed \cup pending) = {} /\ (composed # {} => graph = composed)
    BY <1>0 DEF Apart, Working
  <2>6. graph \subseteq QualifiedOn(route) /\ cache' = cache
    BY <1>0, <1>1 DEF AreQualified, Qualified, Working
  <2>2. Unbegun' /\ OnRoute' /\ Plain' /\ AreQualified' /\ Apart' /\ PendingApart' /\ GivenUp'
    BY <1>1, <1>6 DEF Unbegun, OnRoute, Plain, AreQualified, Apart, PendingApart, GivenUp, Preparing, Working, Scheduling
  <2>3. ReceiptTrue'
    BY SemanticAssumption, <1>0, <1>1, <1>2, <1>3, <1>6, <2>1, <2>6 DEF ReceiptTrue, Says, QualifiedOn
  <2>4. composed \subseteq Qualified
    BY <1>0, <2>1, <2>6 DEF Qualified
  <2>5. Accounted'
    BY <1>0, <1>1, <1>3, <1>6, <2>1, <2>4 DEF Accounted, Qualified, QualifiedOn, ChunkTypes
  <2> QED
    BY <1>4, <2>2, <2>3, <2>5
<1> QED
  BY <1>1, <1>5, <1>6

\* What a worker that is done with its chunk, or goes on to put it, says
Steps(c) ==
    /\ c \in Chunks /\ worker[c] = "calling" /\ (Poll \/ PollAborting \/ UNCHANGED flags)
    /\ pending' \subseteq pending \cup {c} /\ pending \subseteq pending'
    /\ \/ UNCHANGED <<worker, failed, pending>>
       \/ worker' = [worker EXCEPT ![c] = "put"] /\ UNCHANGED <<failed, pending>>
       \/ worker' = [worker EXCEPT ![c] = "done"] /\ failed' = failed
       \/ worker' = [worker EXCEPT ![c] = "done"] /\ failed' = failed \cup {c} /\ ~event
    /\ UNCHANGED <<pc, cache, cached, queue, inflight, fresh, accepted, composed, receipt, route, graph>>

\* No step of a worker before it puts disturbs the account.
LEMMA StepsKeep ==
    ASSUME SemanticInv, NEW c, Steps(c)
    PROVE  SemanticInv'
<1> USE DEF SemanticInv
<1>0. SemanticTypes /\ ChunkTypes /\ FlagTypes /\ c \in Chunks
  BY DEF SemanticTypes, Steps
<1>1. FlagTypes' /\ (event => event')
  BY <1>0, Polled DEF Steps
<1>2. ChunkTypes'
  BY <1>0 DEF Steps, ChunkTypes
<1>3. WorkerTypes' /\ \A d \in Chunks : d # c => worker'[d] = worker[d]
  BY <1>0 DEF Steps, SemanticTypes, WorkerTypes
<1>4. SemanticTypes'
  BY <1>0, <1>1, <1>2, <1>3 DEF Steps, SemanticTypes, CacheTypes, ReceiptTypes
<1>5. worker[c] = "calling" /\ pc \notin Preparing \cup {"refetch", "judge"}
  <2>1. pc \in Preparing => worker[c] = "none"
    BY <1>0 DEF Unbegun, Empty
  <2>2. pc \in {"refetch", "judge"} => worker[c] = "none"
    BY <1>0 DEF GivenUp
  <2> QED
    BY <2>1, <2>2 DEF Steps
<1>6. Unbegun' /\ OnRoute' /\ Plain' /\ AreQualified' /\ ReceiptTrue' /\ Accounted'
  BY <1>5, SaidStands DEF Steps, Unbegun, OnRoute, Plain, Accounted
<1>7. GivenUp'
  BY <1>0, <1>1, <1>3, <1>5 DEF Steps, GivenUp, Busy
<1>8. Apart'
  <2> SUFFICES ASSUME pc \in Working PROVE Apart'
    BY DEF Apart, Steps
  <2>1. /\ cached \cap queue = {} /\ accepted \subseteq cached \cup fresh
        /\ \A d \in Chunks : worker[d] # "none" => d \notin cached /\ d \notin queue
        /\ \A d \in fresh : worker[d] = "done"
        /\ pc \in Scheduling => composed = {} /\ \A d \in failed : worker[d] = "done" /\ d \notin fresh
        /\ pc = "settle" => /\ composed \cap (failed \cup pending) = {}
                            /\ composed # {} => graph = composed /\ \A d \in Chunks : ~Busy(d)
    BY DEF Apart
  <2>2. c \notin fresh /\ (pc \in Scheduling => c \notin failed) /\ c \notin cached /\ c \notin queue
    BY <1>0, <1>5, <2>1
  <2>3. \A d \in Chunks : worker'[d] # "none" => d \notin cached /\ d \notin queue
    BY <1>3, <2>1, <2>2
  <2>4. \A d \in fresh : worker'[d] = "done"
    BY <1>0, <1>3, <2>1, <2>2 DEF ChunkTypes
  <2>5. ASSUME pc \in Scheduling, NEW d \in failed' PROVE worker'[d] = "done" /\ d \notin fresh
    <3>1. CASE d = c
      <4>1. c \notin failed
        BY <2>2, <2>5
      <4>2. worker' = [worker EXCEPT ![c] = "done"]
        BY <2>5, <3>1, <4>1 DEF Steps
      <4> QED
        BY <1>0, <2>2, <3>1, <4>2 DEF SemanticTypes, WorkerTypes
    <3>2. CASE d # c
      BY <1>0, <1>2, <1>3, <2>1, <2>5, <3>2 DEF Steps, ChunkTypes
    <3> QED
      BY <3>1, <3>2
  <2>6. pc = "settle" => composed = {}
    BY <1>0, <1>5, <2>1 DEF Busy
  <2> QED
    BY <2>1, <2>3, <2>4, <2>5, <2>6 DEF Apart, Steps
<1>9. PendingApart'
  <2> SUFFICES ASSUME pc \in Scheduling, ~event, NEW d \in pending'
               PROVE  d \notin cached /\ d \notin fresh /\ d \notin queue /\ ~Busy(d)'
    BY <1>1 DEF PendingApart, Steps
  <2>1. CASE d # c
    BY <1>2, <1>3, <2>1 DEF PendingApart, Steps, Busy, ChunkTypes
  <2>2. CASE d = c
    <3>1. c \notin pending
      BY <1>5 DEF PendingApart, Busy
    <3>2. worker' = [worker EXCEPT ![c] = "done"]
      BY <2>2, <3>1 DEF Steps
    <3>3. c \notin cached /\ c \notin queue /\ c \notin fresh
      BY <1>0, <1>5 DEF Apart, Working
    <3> QED
      BY <1>0, <2>2, <3>2, <3>3 DEF Busy, SemanticTypes, WorkerTypes
  <2> QED
    BY <2>1, <2>2
<1> QED
  BY <1>4, <1>6, <1>7, <1>8, <1>9

\* A fragment that is put is qualified from then on.
LEMMA PutsKeep ==
    ASSUME SemanticInv, NEW c \in Chunks, Puts(c), UNCHANGED <<pc, extraction, scheduling, graph>>
    PROVE  SemanticInv'
<1> USE DEF SemanticInv
<1>0. SemanticTypes /\ ChunkTypes /\ FlagTypes /\ CacheTypes /\ WorkerTypes
  BY DEF SemanticTypes
<1>1. /\ worker[c] = "put" /\ worker' = [worker EXCEPT ![c] = "done"]
      /\ fresh' = fresh \cup {c}
      /\ UNCHANGED <<event, abort, failed, pending, pc, cached, queue, inflight, accepted, composed,
                     receipt, route, graph>>
  BY DEF Puts, flags, marks, extraction, scheduling
<1>2. /\ CacheTypes'
      /\ \A d \in Chunks : route \in Routes /\ cache[route][d] = "qualified" => cache'[route][d] = "qualified"
      /\ route \in Routes => cache'[route][c] = "qualified"
  <2>1. CASE route \in Routes
    <3>1. cache' = [cache EXCEPT ![route] = [cache[route] EXCEPT ![c] = "qualified"]]
      BY <1>0, <2>1 DEF Puts, CacheTypes
    <3>2. [cache[route] EXCEPT ![c] = "qualified"] \in [Chunks -> {"none", "legacy", "qualified"}]
      BY <1>0, <2>1 DEF CacheTypes
    <3> QED
      BY <1>0, <1>1, <2>1, <3>1, <3>2 DEF CacheTypes
  <2>2. CASE route \notin Routes
    BY <1>0, <1>1, <2>2 DEF CacheTypes, Puts
  <2> QED
    BY <2>1, <2>2
<1>3. WorkerTypes' /\ worker'[c] = "done" /\ \A d \in Chunks : d # c => worker'[d] = worker[d]
  BY <1>0, <1>1 DEF WorkerTypes
<1>4. SemanticTypes'
  BY <1>0, <1>1, <1>2, <1>3 DEF SemanticTypes, FlagTypes, ChunkTypes, ReceiptTypes
<1>5. pc \notin Preparing \cup {"refetch", "judge"}
  BY <1>1 DEF Unbegun, Empty, GivenUp
<1>10. CacheGrows
  BY <1>0 DEF Puts, CacheGrows, CacheTypes
<1>6. Unbegun' /\ OnRoute' /\ Plain' /\ Accounted'
  BY <1>1, <1>5 DEF Unbegun, OnRoute, Plain, Accounted
<1>11. ReceiptTrue'
  BY <1>1, <1>10 DEF ReceiptTrue, Says, QualifiedOn, CacheGrows
<1>7. AreQualified'
  <2> SUFFICES ASSUME pc \in Working PROVE AreQualified'
    BY <1>1 DEF AreQualified
  <2>1. route \in Routes
    BY DEF OnRoute
  <2> QED
    BY <1>0, <1>1, <1>2, <2>1 DEF AreQualified, ChunkTypes, Qualified, QualifiedOn
<1>8. GivenUp'
  BY <1>1, <1>3, <1>5 DEF GivenUp, Busy
<1>9. Apart'
  <2> SUFFICES ASSUME pc \in Working PROVE Apart'
    BY <1>1 DEF Apart
  <2>1. /\ cached \cap queue = {} /\ accepted \subseteq cached \cup fresh
        /\ \A d \in Chunks : worker[d] # "none" => d \notin cached /\ d \notin queue
        /\ \A d \in fresh : worker[d] = "done"
        /\ pc \in Scheduling => composed = {} /\ \A d \in failed : worker[d] = "done" /\ d \notin fresh
        /\ pc = "settle" => /\ composed \cap (failed \cup pending) = {}
                            /\ composed # {} => graph = composed /\ \A d \in Chunks : ~Busy(d)
    BY DEF Apart
  <2>2. pc \in Scheduling => c \notin failed
    BY <1>1, <2>1
  <2>3. \A d \in Chunks : worker'[d] # "none" => d \notin cached /\ d \notin queue
    BY <1>1, <1>3, <2>1
  <2>4. \A d \in fresh' : worker'[d] = "done"
    BY <1>0, <1>1, <1>3, <2>1 DEF ChunkTypes
  <2>5. pc \in Scheduling => \A d \in failed : worker'[d] = "done" /\ d \notin fresh'
    BY <1>0, <1>1, <1>3, <2>1, <2>2 DEF ChunkTypes
  <2> QED
    BY <1>1, <2>1, <2>3, <2>4, <2>5 DEF Apart, Busy
<1>12. PendingApart'
  BY <1>1, <1>3, <1>0 DEF PendingApart, Busy, ChunkTypes
<1> QED
  BY <1>4, <1>6, <1>7, <1>8, <1>9, <1>11, <1>12

\* A worker, known to the scheduler or given up on
LEMMA WorkerKeeps ==
    ASSUME SemanticInv, Worker
    PROVE  SemanticInv'
<1>1. UNCHANGED <<pc, extraction, scheduling, graph>>
  BY DEF Worker
<1>2. ASSUME NEW c \in Chunks, worker[c] = "calling", Refused(c) \/ CallFails(c) \/ Validates(c),
             UNCHANGED <<fresh, store>>
      PROVE  Steps(c)
  <2>1. UNCHANGED <<pc, cache, cached, queue, inflight, fresh, accepted, composed, receipt, route, graph>>
    BY <1>1, <1>2 DEF extraction, scheduling, store
  <2>2. CASE Refused(c)
    BY <1>2, <2>1, <2>2 DEF Refused, Mark, Steps
  <2>3. CASE CallFails(c)
    BY <1>2, <2>1, <2>3 DEF CallFails, Mark, Steps, marks
  <2>4. CASE Validates(c)
    BY <1>2, <2>1, <2>4 DEF Validates, Mark, Steps, marks
  <2> QED
    BY <1>2, <2>2, <2>3, <2>4
<1>3. ASSUME NEW c \in Chunks, Puts(c) PROVE SemanticInv'
  BY <1>1, <1>3, PutsKeep
<1> QED
  BY <1>2, <1>3, StepsKeep DEF Worker

\* Where there is no extraction, or one that fails otherwise, the documents are structural.
LEMMA PlainReceiptKeeps ==
    ASSUME SemanticInv, pc \in {"disabled", "lookup"}, pc' = "judge",
           NEW st \in {"unavailable", "pending", "disabled"}, receipt' = [NoReceipt EXCEPT !.state = st],
           UNCHANGED <<flags, store, work, route, reused, cached, accepted, composed, graph>>
    PROVE  SemanticInv'
<1> USE DEF SemanticInv, flags, store, work, scheduling, marks
<1>1. receipt'.state = st /\ receipt'.route = "none" /\ receipt'.composed = {}
  BY DEF NoReceipt
<1>2. Empty /\ graph = {}
  BY DEF Unbegun, Preparing, Plain
<1>3. SemanticTypes'
  BY <1>1 DEF SemanticTypes, FlagTypes, CacheTypes, WorkerTypes, ChunkTypes, ReceiptTypes, States, AnyRoute,
              Resolutions
<1>4. Unbegun' /\ OnRoute' /\ AreQualified' /\ Apart' /\ PendingApart' /\ Plain'
  BY DEF Unbegun, OnRoute, AreQualified, Apart, PendingApart, Plain, Preparing, Working, Scheduling
<1>5. ReceiptTrue' /\ Accounted' /\ GivenUp'
  BY <1>1, <1>2 DEF ReceiptTrue, Accounted, Says, GivenUp, Empty
<1> QED
  BY <1>3, <1>4, <1>5

\* Every step of an extraction keeps account of the chunks.
LEMMA ExtractKeeps ==
    ASSUME SemanticInv, Extract
    PROVE  SemanticInv' /\ pc \in {"plan", "prepare", "lookup"} \cup Working
           /\ pc' \in Extracting \cup {"judge", "cancelled"} /\ pc' # "extract"
<1>1. SemanticInv'
  BY PlanKeeps, PrepareKeeps, LookupKeeps, RefetchKeeps, SubmitKeeps, ScheduleKeeps, ComposeKeeps, SettleKeeps
     DEF Extract
<1>2. pc \in {"plan", "prepare", "lookup"} \cup Working /\ pc' \in Extracting \cup {"judge", "cancelled"}
      /\ pc' # "extract"
  <2> USE DEF Working, Scheduling, Extracting
  <2>1. Plan \/ Prepare => pc \in {"plan", "prepare"} /\ pc' \in {"prepare", "lookup", "judge", "cancelled"}
    BY DEF Plan, Prepare, Raise, Early_
  <2>2. Lookup \/ Refetch => pc \in {"lookup", "refetch"} /\ pc' \in {"refetch", "run", "cancelled"}
    BY DEF Lookup, Refetch, Raise
  <2>3. Submit \/ Reap \/ EndSchedule \/ EndDrain \/ Accept
        => pc \in {"run", "drain", "accept"} /\ pc' \in {"run", "drain", "accept", "compose", "settle"}
    BY DEF Submit, Reap, EndSchedule, EndDrain, Accept
  <2>4. Compose \/ Settle => pc \in {"compose", "settle"} /\ pc' \in {"settle", "judge", "cancelled"}
    BY DEF Compose, Settle, Raise
  <2> QED
    BY <2>1, <2>2, <2>3, <2>4 DEF Extract
<1> QED
  BY <1>1, <1>2

\* Another view fills the cache where no chunk is taken from it yet.
LEMMA OtherViewKeepsSemantics ==
    ASSUME SemanticInv, OtherView
    PROVE  SemanticInv'
<1> USE DEF SemanticInv
<1>1. /\ pc \in {"fingerprint", "extract", "lookup"}
      /\ UNCHANGED <<event, abort, worker, cached, queue, inflight, fresh, failed, pending, accepted,
                     composed, receipt, route, graph, pc>>
  BY DEF OtherView, flags, work, scheduling, marks, extraction
<1>2. CacheTypes'
  <2>1. PICK r \in Routes, c \in Chunks : cache' = [cache EXCEPT ![r] = [cache[r] EXCEPT ![c] = "qualified"]]
    BY DEF OtherView, SemanticTypes, CacheTypes
  <2>2. [cache[r] EXCEPT ![c] = "qualified"] \in [Chunks -> {"none", "legacy", "qualified"}]
    BY DEF SemanticTypes, CacheTypes
  <2> QED
    BY <1>1, <2>1, <2>2 DEF SemanticTypes, CacheTypes
<1>3. SemanticTypes'
  BY <1>1, <1>2 DEF SemanticTypes, FlagTypes, WorkerTypes, ChunkTypes, ReceiptTypes
<1>4. Unbegun' /\ OnRoute' /\ GivenUp' /\ Plain'
  BY <1>1 DEF Unbegun, Empty, OnRoute, GivenUp, Plain
<1>5. AreQualified' /\ Apart' /\ PendingApart' /\ ReceiptTrue' /\ Accounted'
  BY <1>1 DEF AreQualified, Apart, PendingApart, ReceiptTrue, Accounted, Working, Scheduling
<1> QED
  BY <1>3, <1>4, <1>5

\* No step of an extraction, of a worker, of time or of another view takes a fragment back.
LEMMA CacheOnlyGrows ==
    ASSUME SemanticInv, Extract \/ Worker \/ OtherView \/ Tick \/ Cancel
    PROVE  CacheGrows
<1> USE DEF SemanticInv, SemanticTypes, CacheTypes
<1>1. cache' = cache => CacheGrows
  BY DEF CacheGrows
<1>2. ASSUME NEW q \in Routes, NEW row \in [Chunks -> {"none", "legacy", "qualified"}],
             \A c \in Chunks : cache[q][c] = "qualified" => row[c] = "qualified",
             cache' = [cache EXCEPT ![q] = row]
      PROVE  CacheGrows
  BY <1>2 DEF CacheGrows
<1>3. CASE Lookup
  <2>1. PICK good \in Revalidated :
           cache' = [cache EXCEPT ![route] = [c \in Chunks |-> IF c \in good THEN "qualified" ELSE @[c]]]
    BY <1>3 DEF Lookup
  <2>2. route \in Routes
    BY <1>3 DEF Lookup, OnRoute
  <2> DEFINE row == [c \in Chunks |-> IF c \in good THEN "qualified" ELSE cache[route][c]]
  <2>3. row \in [Chunks -> {"none", "legacy", "qualified"}] /\ cache' = [cache EXCEPT ![route] = row]
        /\ \A c \in Chunks : cache[route][c] = "qualified" => row[c] = "qualified"
    BY <2>1, <2>2
  <2> HIDE DEF row
  <2> QED
    BY <1>2, <2>2, <2>3
<1>4. ASSUME NEW q \in Routes, NEW c \in Chunks, cache' = [cache EXCEPT ![q][c] = "qualified"]
      PROVE  CacheGrows
  <2> DEFINE row == [cache[q] EXCEPT ![c] = "qualified"]
  <2>1. row \in [Chunks -> {"none", "legacy", "qualified"}] /\ cache' = [cache EXCEPT ![q] = row]
        /\ \A d \in Chunks : cache[q][d] = "qualified" => row[d] = "qualified"
    BY <1>4
  <2> HIDE DEF row
  <2> QED
    BY <1>2, <2>1
<1>5. CASE Worker
  <2>1. (\E c \in Chunks : Puts(c)) \/ cache' = cache
    BY <1>5 DEF Worker, store
  <2>2. ASSUME NEW c \in Chunks, Puts(c) PROVE CacheGrows
    <3>1. CASE route \in Routes
      BY <1>4, <2>2, <3>1 DEF Puts
    <3>2. CASE route \notin Routes
      BY <1>1, <2>2, <3>2 DEF Puts
    <3> QED BY <3>1, <3>2
  <2> QED
    BY <1>1, <2>1, <2>2
<1>6. CASE OtherView
  BY <1>4, <1>6 DEF OtherView
<1>7. Extract => Lookup \/ cache' = cache
  BY DEF Extract, Plan, Prepare, Refetch, Submit, Reap, EndSchedule, EndDrain, Accept, Compose, Settle, store,
         Raise, Early_
<1>8. Tick \/ Cancel => cache' = cache
  BY DEF Tick, Cancel, store
<1> QED
  BY <1>1, <1>3, <1>5, <1>6, <1>7, <1>8

\* What leaves the extraction alone leaves its invariant.
LEMMA StillSemantics ==
    ASSUME SemanticInv, UNCHANGED semanticVars
    PROVE  SemanticInv'
<1> USE DEF SemanticInv, semanticVars, flags, store, work, scheduling, marks, extraction
<1>1. SemanticTypes'
  BY DEF SemanticTypes, FlagTypes, CacheTypes, WorkerTypes, ChunkTypes, ReceiptTypes
<1>2. Unbegun' /\ OnRoute' /\ GivenUp' /\ Plain'
  BY DEF Unbegun, Empty, OnRoute, GivenUp, Busy, Plain
<1>3. Apart' /\ PendingApart'
  BY DEF Apart, PendingApart, Busy
<1>4. AreQualified' /\ ReceiptTrue' /\ Accounted'
  BY SaidStands DEF Accounted
<1> QED
  BY <1>1, <1>2, <1>3, <1>4

-----------------------------------------------------------------------------
(* The end of an update *)

\* Whatever outcome its record gets, the view stays what it was: it is that of the update only
\* if the record says so.
LEMMA Closes ==
    ASSUME KnowledgeInv, pc # "idle", pc' = "idle", Rests, Forgotten,
           record' = "published" => pc = "report",
           record' \in {"cancelled", "deadline", "unchanged", "retained"} => pc # "report"
    PROVE  KnowledgeInv'
<1> USE DEF KnowledgeInv, StoreInv
<1>1. SemanticInv'
  BY Over DEF Rests, Forgotten, store
<1>2. /\ UNCHANGED <<pointer, op, before, damage>> /\ old' = None
      /\ mode' = "structural" /\ baseId' = 0
  BY DEF Rests, Forgotten
<1>3. /\ snapshots' = [id \in Ids |-> IF id = pointer THEN snapshots[id] ELSE Unwritten]
      /\ bases' = [id \in Ids |-> IF pointer # None /\ id = Snapshot(pointer).base THEN bases[id]
                                  ELSE "none"]
  BY DEF Forgotten
<1>9. cache' = cache
  BY DEF Forgotten, store
<1>4. Unwritten \in Manifests /\ Unwritten.written = FALSE /\ Unwritten.base = None
  BY DEF Unwritten, Manifests, States, AnyRoute, Resolutions, NoGraph, None, Ids
<1>5. StoreTypes'
  BY <1>2, <1>3, <1>4 DEF StoreTypes
<1>6. ManifestsTrue' /\ OwnBases'
  BY <1>3, <1>4, <1>9 DEF ManifestsTrue, OwnBases, Snapshot, Says, QualifiedOn
<1>7. Running' /\ Checked' /\ Noticed' /\ Complete'
  BY <1>2 DEF Running, Checked, Noticed, Complete, Extracting, Working, Scheduling
<1>8. ViewIsWhole'
  <2>1. EndedAsRecorded'
    BY <1>2 DEF EndedAsRecorded, Running
  <2>2. CASE pointer = None
    BY <1>2, <2>1, <2>2 DEF ViewIsWhole, PublishedIsWhole
  <2>3. CASE pointer # None /\ pointer \in Ids
    <3>1. Snapshot(pointer)' = Snapshot(pointer)
      BY <1>2, <1>3, <2>3 DEF Snapshot
    <3>2. Snapshot(pointer).base \in {None} \cup Ids
      BY <2>3 DEF StoreTypes, Manifests, Snapshot
    <3>3. BaseIsValid(pointer)' <=> BaseIsValid(pointer)
      BY <1>2, <1>3, <2>3, <3>1, <3>2 DEF BaseIsValid
    <3> QED
      BY <1>2, <1>9, <2>1, <3>1, <3>3 DEF ViewIsWhole, PublishedIsWhole, Readable, QualifiedOn
  <2>4. pointer = None \/ pointer \in Ids
    BY KnowledgeAssumption DEF StoreTypes, Ids
  <2> QED
    BY <2>2, <2>3, <2>4
<1> QED
  BY <1>1, <1>5, <1>6, <1>7, <1>8

\* An update that ends before it has published
LEMMA EndKeeps ==
    ASSUME KnowledgeInv, NEW outcome, Ends(outcome), pc # "idle", outcome # "published", pc # "report"
    PROVE  KnowledgeInv'
BY Closes DEF Ends

-----------------------------------------------------------------------------
(* The store *)

\* A step that leaves the disk alone keeps what is said of it.
LEMMA DiskKeeps ==
    ASSUME StoreInv, CacheGrows, UNCHANGED <<disk, damage>>, UNCHANGED <<op, before>>,
           pc \notin {"idle", "report"}, pc' \notin {"idle", "report"},
           mode' = mode, baseId' \in 0 .. op, old' \in {None, pointer},
           Checked', Noticed', Complete'
    PROVE  StoreInv'
<1> USE DEF StoreInv, disk
<1>1. StoreTypes' /\ OwnBases'
  BY DEF StoreTypes, OwnBases, Snapshot
<1>4. ManifestsTrue'
  BY DEF ManifestsTrue, Snapshot, Says, QualifiedOn, CacheGrows
<1>2. Running'
  BY DEF Running
<1>3. ViewIsWhole'
  BY DEF ViewIsWhole, PublishedIsWhole, EndedAsRecorded, Snapshot, Readable, BaseIsValid, QualifiedOn, CacheGrows
<1> QED
  BY <1>1, <1>2, <1>3, <1>4

\* So does a step of the extraction, of time or of a worker.
LEMMA AsideKeeps ==
    ASSUME StoreInv, CacheGrows, UNCHANGED <<disk, update, damage>>,
           \/ pc' = pc
           \/ pc \in Extracting /\ pc' \in Extracting \cup {"judge", "cancelled"},
           pc = "manifest" => receipt' = receipt
    PROVE  StoreInv'
<1> USE DEF StoreInv, disk, update
<1>1. StoreTypes' /\ OwnBases'
  BY DEF StoreTypes, OwnBases, Snapshot
<1>4. ManifestsTrue'
  BY DEF ManifestsTrue, Snapshot, Says, QualifiedOn, CacheGrows
<1>2. Running' /\ ViewIsWhole'
  BY DEF Running, Extracting, Working, Scheduling, ViewIsWhole, PublishedIsWhole, EndedAsRecorded,
         Snapshot, Readable, BaseIsValid, QualifiedOn, CacheGrows
<1>3. Checked' /\ Noticed' /\ Complete'
  BY DEF Checked, Noticed, Complete, Good, Trusted, Snapshot, Readable, BaseIsValid, Extracting,
         Working, Scheduling
<1> QED
  BY <1>1, <1>2, <1>3, <1>4

\* A step of the update that has no part in the semantics but the graph
LEMMA GoesKeeps ==
    ASSUME KnowledgeInv, NEW step \in {"load", "decide", "fingerprint", "build", "base", "disabled", "plan"},
           Goes(step), UNCHANGED <<op, before, mode, enabled>>,
           pc \in {"probe", "load", "decide", "fingerprint", "build", "extract"},
           old' \in {None, pointer}, baseId' \in 0 .. op,
           graph' \subseteq Nat, step \in {"base", "disabled", "plan"} => graph' = {},
           Noticed'
    PROVE  KnowledgeInv'
<1> USE DEF KnowledgeInv
<1>1. SemanticInv'
  BY NotYet DEF Goes, Still, flags, store, work, scheduling, marks, extraction, Preparing,
                SemanticInv, SemanticTypes, CacheTypes
<1>2. Checked' /\ Complete'
  BY DEF Goes, Checked, Complete
<1> QED
  BY <1>1, <1>2, DiskKeeps DEF CacheGrows, store, Goes

\* An update begins on a snapshot of its own.
LEMMA BeginKeeps ==
    ASSUME KnowledgeInv, Begin
    PROVE  KnowledgeInv'
<1> USE DEF KnowledgeInv, Begin
<1>1. SemanticInv'
  BY NotYet DEF Still, flags, store, work, scheduling, marks, Preparing, SemanticInv, SemanticTypes,
                Resolutions
<1> USE DEF StoreInv
<1>2. StoreTypes'
  BY KnowledgeAssumption DEF StoreTypes
<1>3. ManifestsTrue' /\ OwnBases'
  BY DEF ManifestsTrue, OwnBases, Snapshot, Says, QualifiedOn, store
<1>4. Running' /\ Checked' /\ Noticed' /\ Complete'
  BY DEF Running, StoreTypes, None, Checked, Noticed, Complete, Extracting, Working, Scheduling
<1>5. ViewIsWhole'
  BY DEF ViewIsWhole, PublishedIsWhole, EndedAsRecorded, Snapshot, Readable, BaseIsValid, Says, QualifiedOn, store
<1> QED
  BY <1>1, <1>2, <1>3, <1>4, <1>5

\* It probes the component, and loads the snapshot that is there.
LEMMA ProbeAndLoadKeep ==
    ASSUME KnowledgeInv, Probe \/ Load
    PROVE  KnowledgeInv'
<1> USE DEF KnowledgeInv, StoreInv
<1>1. CASE Probe
  <2>1. ASSUME Goes("load"), UNCHANGED <<update, graph>> PROVE KnowledgeInv'
    <3>1. Noticed'
      BY <2>1 DEF Goes, Noticed, Extracting, Working, Scheduling
    <3> QED
      BY <1>1, <2>1, <3>1, GoesKeeps DEF Probe, update, StoreTypes, Running, SemanticInv, SemanticTypes
  <2> QED
    BY <1>1, <2>1, EndKeeps DEF Probe
<1>2. CASE Load
  <2>1. ASSUME old' = IF pointer # None /\ Snapshot(pointer).written THEN pointer ELSE None,
               readable' = (old' # None /\ Readable(pointer)),
               Goes("decide"), UNCHANGED <<op, mode, enabled, same, baseId, before, graph>>
        PROVE  KnowledgeInv'
    <3>1. Noticed'
      BY <2>1 DEF Goes, disk, Noticed, Good, Trusted, Readable, Snapshot, BaseIsValid, Extracting, Working,
                  Scheduling
    <3> QED
      BY <1>2, <2>1, <3>1, GoesKeeps DEF Load, StoreTypes, SemanticInv, SemanticTypes
  <2> QED
    BY <1>2, <2>1, EndKeeps DEF Load
<1> QED
  BY <1>1, <1>2

\* It sees whether that is what a new one would be.
LEMMA DecideKeeps ==
    ASSUME KnowledgeInv, Decide
    PROVE  KnowledgeInv'
<1> USE DEF KnowledgeInv, StoreInv
<1> DEFINE isSame == old # None /\ readable /\ Trusted(old)
           state == Snapshot(old).state
<1>1. CASE Ends("unchanged")
  BY <1>1, EndKeeps DEF Decide
<1>2. CASE /\ ~(isSame /\ (mode = "structural" \/ (~enabled /\ state \in {"complete", "disabled"})))
           /\ same' = isSame
           /\ Goes(IF isSame /\ enabled THEN "fingerprint" ELSE "build")
           /\ UNCHANGED <<op, mode, enabled, old, readable, baseId, before, graph>>
  <2>1. Good' => Good
    BY <1>2 DEF Goes, disk, Good, Readable, Trusted, Snapshot, BaseIsValid
  <2>2. pc = "decide" /\ (Good => isSame /\ old = pointer)
    BY DEF Decide, Noticed, Good
  <2>3. mode \in {"structural", "configured"}
    BY DEF StoreTypes
  <2>4. Good => same' /\ old' = pointer' /\ mode' = "configured"
    BY <1>2, <2>2, <2>3 DEF Goes, disk
  <2>5. Noticed'
    BY <1>2, <2>1, <2>4 DEF Noticed, Goes, Extracting, Working, Scheduling
  <2>6. \E step \in {"fingerprint", "build"} : Goes(step)
    BY <1>2
  <2> QED
    BY <1>2, <2>2, <2>5, <2>6, GoesKeeps DEF StoreTypes, Running, SemanticInv, SemanticTypes
<1> QED
  BY <1>1, <1>2 DEF Decide

\* What an update noticed it keeps on its way to the extraction.
LEMMA StillNoticed ==
    ASSUME Noticed, NEW step, Goes(step), UNCHANGED <<mode, old, same>>,
           pc \in {"fingerprint", "build"} \cup Extracting, step # "decide"
    PROVE  Noticed'
<1>1. Good' => Good
  BY DEF Goes, disk, Good, Readable, Trusted, Snapshot, BaseIsValid
<1> QED
  BY <1>1 DEF Noticed, Goes, disk

\* The fast path of the semantics, and the base
LEMMA BuildKeeps ==
    ASSUME KnowledgeInv, Fingerprint \/ Build \/ BeginExtraction
    PROVE  KnowledgeInv'
<1> USE DEF KnowledgeInv, StoreInv
<1>0. graph \subseteq Nat /\ baseId \in 0 .. op /\ pc \in {"fingerprint", "build", "extract"}
      /\ old \in {None, pointer}
  BY DEF SemanticInv, SemanticTypes, StoreTypes, Fingerprint, Build, BeginExtraction, Running
<1>1. ASSUME NEW outcome \in {"unchanged", "cancelled", "deadline", "failed"}, Ends(outcome)
      PROVE  KnowledgeInv'
  BY <1>0, <1>1, EndKeeps
<1>2. ASSUME NEW step \in {"build", "base", "disabled", "plan"}, Goes(step), UNCHANGED <<op, before, mode, enabled, old, same>>,
             baseId' \in 0 .. op, graph' = {} \/ (graph' = graph /\ (step = "build" \/ pc = "extract"))
      PROVE  KnowledgeInv'
  <2>1. Noticed'
    BY <1>0, <1>2, StillNoticed DEF Extracting
  <2>2. pc = "extract" => graph = {}
    BY DEF SemanticInv, Plain
  <2> QED
    BY <1>0, <1>2, <2>1, <2>2, GoesKeeps
<1>3. CASE Fingerprint
  BY <1>0, <1>1, <1>2, <1>3 DEF Fingerprint, update
<1>4. CASE BeginExtraction
  BY <1>0, <1>1, <1>2, <1>4 DEF BeginExtraction, update
<1>5. CASE Build
  <2>1. ASSUME old # None, BaseIsValid(old) PROVE Snapshot(old).base \in 0 .. op
    <3>1. old \in Ids /\ old \in 0 .. op
      BY <1>0, <2>1, KnowledgeAssumption DEF StoreTypes, Ids
    <3>2. Snapshot(old).base \in {None} \cup Ids
      BY <3>1 DEF StoreTypes, Manifests, Snapshot
    <3> QED
      BY <2>1, <3>1, <3>2, KnowledgeAssumption DEF OwnBases, BaseIsValid, Ids, StoreTypes
  <2> QED
    BY <1>0, <1>1, <1>2, <1>5, <2>1 DEF Build, update
<1> QED
  BY <1>3, <1>4, <1>5

\* A base of this update is not that of the snapshot before it.
LEMMA WriteBaseKeeps ==
    ASSUME KnowledgeInv, WriteBase
    PROVE  KnowledgeInv'
<1> USE DEF KnowledgeInv, StoreInv
<1>1. /\ pc = "base" /\ pc' \in {"base", "extract", "disabled"}
      /\ bases' = [bases EXCEPT ![op] = IF @ = "none" THEN "graph" ELSE "whole"]
      /\ UNCHANGED <<pointer, snapshots, record, op, before, mode, enabled, old, same, baseId, damage, graph>>
  BY DEF WriteBase, update
<1>2. SemanticInv'
  <2>1. Still /\ route' = route
    BY DEF WriteBase, Still, flags, store, work, scheduling, marks, extraction
  <2>2. route \in Resolutions /\ graph \subseteq Nat /\ graph = {}
    BY <1>1 DEF SemanticInv, SemanticTypes, CacheTypes, Plain
  <2> QED
    BY <1>1, <2>1, <2>2, NotYet DEF Preparing
<1>3. StoreTypes' /\ OwnBases' /\ Running'
  BY <1>1 DEF StoreTypes, OwnBases, Running, Snapshot
<1>8. \A r \in Routes : QualifiedOn(r) \subseteq QualifiedOn(r)'
  BY QualifiedGrows, StillGrows DEF WriteBase, store
<1>9. ManifestsTrue'
  BY <1>1, <1>8 DEF ManifestsTrue, Snapshot, Says
<1>4. ASSUME pointer # None PROVE Snapshot(pointer)' = Snapshot(pointer) /\ (BaseIsValid(pointer)' <=> BaseIsValid(pointer))
  <2>1. pointer \in Ids /\ pointer < op /\ op \in Ids
    BY <1>1, <1>4, KnowledgeAssumption DEF Running, StoreTypes, Ids
  <2>2. Snapshot(pointer).base \in {None} \cup Ids /\ Snapshot(pointer).base # op
    BY <2>1, KnowledgeAssumption DEF StoreTypes, Manifests, Snapshot, OwnBases, Ids, None
  <2> QED
    BY <1>1, <2>1, <2>2 DEF Snapshot, BaseIsValid, StoreTypes
<1>5. Good' => Good
  BY <1>1, <1>4 DEF Good, Readable, Trusted
<1>6. Checked' /\ Noticed' /\ Complete'
  BY <1>1, <1>5 DEF Checked, Noticed, Complete, Extracting
<1>7. ViewIsWhole'
  BY <1>1, <1>4, <1>8 DEF ViewIsWhole, PublishedIsWhole, EndedAsRecorded, Readable
<1> QED
  BY <1>2, <1>3, <1>6, <1>7, <1>9

\* Documents that are not extracted get their receipt.
LEMMA ReceiptKeeps ==
    ASSUME KnowledgeInv, Disabled \/ ExtractionFails
    PROVE  KnowledgeInv'
<1> USE DEF KnowledgeInv
<1>1. /\ pc \in {"disabled", "lookup"} /\ pc' = "judge"
      /\ \E st \in {"unavailable", "pending", "disabled"} : receipt' = [NoReceipt EXCEPT !.state = st]
      /\ UNCHANGED <<disk, update, damage, flags, store, work, route, reused, cached, accepted, composed, graph>>
  BY DEF Disabled, ExtractionFails
<1>2. SemanticInv'
  BY <1>1, PlainReceiptKeeps
<1>3. Checked' /\ Complete'
  BY <1>1 DEF Checked, Complete
<1>4. Good' => Good
  BY <1>1 DEF disk, Good, Readable, Trusted, Snapshot, BaseIsValid
<1>5. Noticed'
  BY <1>1, <1>4 DEF StoreInv, Noticed, Extracting, disk, update
<1> QED
  BY <1>1, <1>2, <1>3, <1>5, DiskKeeps DEF CacheGrows, store, StoreInv, StoreTypes, Running, update

\* Every step of an extraction, and its end by a cancellation
LEMMA ExtractionKeeps ==
    ASSUME KnowledgeInv, Extraction
    PROVE  KnowledgeInv'
<1> USE DEF KnowledgeInv
<1>1. CASE Extract /\ UNCHANGED <<disk, update, damage>>
  <2>1. pc \in Extracting /\ pc # "manifest"
    BY <1>1, ExtractKeeps DEF Extracting, Working, Scheduling
  <2> QED
    BY <1>1, <2>1, ExtractKeeps, AsideKeeps, CacheOnlyGrows
<1>2. CASE pc = "cancelled" /\ Ends("cancelled")
  BY <1>2, EndKeeps
<1> QED
  BY <1>1, <1>2, ReceiptKeeps DEF Extraction

\* A complete snapshot that is still good is retained, or replaced by a complete one.
LEMMA JudgeKeeps ==
    ASSUME KnowledgeInv, Judge
    PROVE  KnowledgeInv'
<1> USE DEF KnowledgeInv
<1>1. ASSUME NEW outcome \in {"cancelled", "deadline", "retained", "failed"}, Ends(outcome)
      PROVE  KnowledgeInv'
  BY <1>1, EndKeeps DEF Judge
<1>2. ASSUME Goes("manifest"), UNCHANGED update, ~Retains,
             \/ receipt.state # "unavailable" /\ graph' = graph
             \/ receipt.state = "unavailable" /\ graph' = {}
      PROVE  KnowledgeInv'
  <2>1. pc = "judge" /\ pc' = "manifest" /\ receipt' = receipt
    BY <1>2 DEF Judge, Goes, extraction
  <2>2. SemanticTypes'
    BY <1>2 DEF SemanticInv, SemanticTypes, FlagTypes, CacheTypes, WorkerTypes, ChunkTypes, ReceiptTypes,
                Goes, flags, store, work, scheduling, marks, extraction
  <2>3. ReceiptTrue'
    BY <1>2, <2>1 DEF SemanticInv, ReceiptTrue, Says, Goes, store, QualifiedOn
  <2>4. SemanticInv'
    BY <2>1, <2>2, <2>3, Behind
  <2>5. Good' => Good
    BY <1>2 DEF Goes, disk, Good, Readable, Trusted, Snapshot, BaseIsValid
  <2>6. Complete'
    <3>1. Good /\ Snapshot(pointer).state = "complete" /\ enabled => receipt.state = "complete"
      BY <1>2, <2>1 DEF StoreInv, Noticed, Retains
    <3> QED
      BY <1>2, <2>1, <2>5, <3>1 DEF Complete, Goes, disk, update, Snapshot
  <2>7. Checked' /\ Noticed'
    BY <2>1 DEF Checked, Noticed, Extracting, Working, Scheduling
  <2> QED
    BY <1>2, <2>1, <2>4, <2>6, <2>7, DiskKeeps DEF CacheGrows, store, Goes, update, StoreInv, StoreTypes, Running
<1> QED
  BY <1>1, <1>2 DEF Judge

\* The candidate says what the receipt says, in a directory the view does not show.
LEMMA WriteManifestKeeps ==
    ASSUME KnowledgeInv, WriteManifest
    PROVE  KnowledgeInv'
<1> USE DEF KnowledgeInv, StoreInv
<1>1. ASSUME NEW outcome \in {"cancelled", "deadline"}, Ends(outcome) PROVE KnowledgeInv'
  BY <1>1, EndKeeps DEF WriteManifest
<1>2. ASSUME snapshots' = [snapshots EXCEPT ![op] = Candidate], pc' = "check",
             UNCHANGED <<pointer, bases, record, update, damage, budget, flags, store, work, extraction, graph>>
      PROVE  KnowledgeInv'
  <2>1. pc = "manifest" /\ pointer < op /\ pointer = before /\ op \in Ids /\ op # 0 /\ pointer \in {None} \cup Ids
    BY KnowledgeAssumption DEF WriteManifest, Running, StoreTypes, Ids
  <2>2. SemanticInv'
    <3>1. SemanticTypes'
      BY <1>2 DEF SemanticInv, SemanticTypes, FlagTypes, CacheTypes, WorkerTypes, ChunkTypes, ReceiptTypes,
                  flags, store, work, scheduling, marks, extraction
    <3>2. ReceiptTrue'
      BY <1>2 DEF ReceiptTrue
    <3> QED
      BY <1>2, <3>1, <3>2, Behind
  <2>3. Candidate \in Manifests
    <3>1. /\ receipt.state \in States /\ receipt.route \in AnyRoute /\ receipt.composed \in SUBSET Chunks
          /\ graph \in SUBSET Nat /\ graph \in SUBSET Int /\ baseId \in {None} \cup Ids
      BY KnowledgeAssumption DEF SemanticInv, SemanticTypes, ReceiptTypes, StoreTypes, Ids
    <3> QED
      BY <3>1 DEF Candidate, Manifests
  <2>4. /\ snapshots'[op] = Candidate /\ \A id \in Ids : id # op => snapshots'[id] = snapshots[id]
    BY <1>2, <2>1 DEF StoreTypes
  <2>5. StoreTypes'
    BY <1>2, <2>3 DEF StoreTypes, update
  <2>6. ManifestsTrue'
    <3>1. \A r \in Routes : QualifiedOn(r) \subseteq QualifiedOn(r)'
      BY <1>2, QualifiedGrows, StillGrows DEF store
    <3>2. \A id \in Ids \ {0} : id # op => snapshots'[id] = snapshots[id]
      BY <2>4
    <3>3. /\ Candidate.state = receipt.state /\ Candidate.route = receipt.route
          /\ Candidate.composed = receipt.composed /\ Candidate.digest = graph
      BY DEF Candidate
    <3>4. Says(receipt.state, receipt.route, receipt.composed, graph)
          /\ (receipt.state = "unavailable" => graph = {})
      BY <2>1 DEF SemanticInv, ReceiptTrue
    <3> HIDE DEF Candidate
    <3>5. ASSUME NEW id \in Ids \ {0}, snapshots'[id].written
          PROVE  /\ Says(snapshots[id].state, snapshots[id].route, snapshots[id].composed,
                          snapshots[id].digest)'
                 /\ snapshots'[id].state = "unavailable" => snapshots'[id].digest = {}
      <4>1. CASE id = op
        BY <2>4, <3>1, <3>3, <3>4, <4>1 DEF Says
      <4>2. CASE id # op
        BY <3>1, <3>2, <3>5, <4>2 DEF ManifestsTrue, Snapshot, Says
      <4> QED BY <4>1, <4>2
    <3> QED
      BY <3>5 DEF ManifestsTrue, Snapshot, Says
  <2>7. OwnBases'
    BY <2>1, <2>4, KnowledgeAssumption DEF OwnBases, Snapshot, Candidate, StoreTypes, Ids
  <2>8. pointer # None => Snapshot(pointer)' = Snapshot(pointer)
    BY <1>2, <2>1, <2>4 DEF Snapshot, StoreTypes
  <2>9. Good' => Good
    BY <1>2, <2>8 DEF Good, Readable, Trusted, BaseIsValid
  <2>10. Running' /\ Checked' /\ Noticed'
    BY <1>2, <2>1 DEF Running, Checked, Noticed, Extracting, Working, Scheduling, update
  <2>11. Complete'
    BY <1>2, <2>1, <2>4, <2>8, <2>9 DEF Complete, Good, update, Snapshot, Candidate
  <2>12. ViewIsWhole'
    BY <1>2, <2>8 DEF ViewIsWhole, PublishedIsWhole, EndedAsRecorded, Readable, BaseIsValid, Says, QualifiedOn, store
  <2> QED
    BY <2>2, <2>5, <2>6, <2>7, <2>10, <2>11, <2>12
<1> QED
  BY <1>1, <1>2 DEF WriteManifest

\* What is read back may be published.
LEMMA ValidateKeeps ==
    ASSUME KnowledgeInv, ValidateCandidate
    PROVE  KnowledgeInv'
<1> USE DEF KnowledgeInv
<1>1. ASSUME NEW outcome \in {"cancelled", "deadline", "failed"}, Ends(outcome) PROVE KnowledgeInv'
  BY <1>1, EndKeeps DEF ValidateCandidate
<1>2. ASSUME Readable(op), Trusted(op), Goes("publish"), UNCHANGED <<update, graph>>
      PROVE  KnowledgeInv'
  <2>1. SemanticInv'
    <3>1. SemanticTypes'
      BY <1>2 DEF SemanticInv, SemanticTypes, FlagTypes, CacheTypes, WorkerTypes, ChunkTypes, ReceiptTypes,
                  Goes, flags, store, work, scheduling, marks, extraction
    <3>2. ReceiptTrue'
      BY <1>2 DEF ReceiptTrue, Goes
    <3> QED
      BY <1>2, <3>1, <3>2, Behind DEF Goes
  <2>2. Checked' /\ Noticed' /\ Complete'
    BY <1>2 DEF ValidateCandidate, Goes, disk, update, Checked, Noticed, Complete, Good, Readable, Trusted, Snapshot,
                BaseIsValid, StoreInv, Extracting, Working, Scheduling
  <2> QED
    BY <1>2, <2>1, <2>2, DiskKeeps DEF CacheGrows, store, ValidateCandidate, Goes, update, StoreInv, StoreTypes, Running
<1> QED
  BY <1>1, <1>2 DEF ValidateCandidate

\* The view shows the snapshot that was checked.
LEMMA PublishKeeps ==
    ASSUME KnowledgeInv, Publish
    PROVE  KnowledgeInv'
<1> USE DEF KnowledgeInv, StoreInv
<1>1. CASE Ends("cancelled")
  BY <1>1, EndKeeps DEF Publish
<1>2. CASE pointer' = op /\ pc' = "report"
           /\ UNCHANGED <<snapshots, bases, record, update, damage, budget, flags, store, work, extraction, graph>>
  <2>1. pc = "publish" /\ op \in Ids \ {0}
    BY KnowledgeAssumption DEF Publish, StoreTypes, Ids
  <2>2. SemanticInv'
    <3>1. SemanticTypes'
      BY <1>2 DEF SemanticInv, SemanticTypes, FlagTypes, CacheTypes, WorkerTypes, ChunkTypes, ReceiptTypes,
                  flags, store, work, scheduling, marks, extraction
    <3>2. ReceiptTrue'
      BY <1>2 DEF ReceiptTrue
    <3> QED
      BY <1>2, <3>1, <3>2, Behind
  <2>3. StoreTypes' /\ ManifestsTrue' /\ OwnBases'
    BY <1>2 DEF StoreTypes, ManifestsTrue, OwnBases, Snapshot, update, Says, QualifiedOn, store
  <2>4. Running' /\ Checked' /\ Noticed' /\ Complete'
    BY <1>2, <2>1 DEF Running, Checked, Noticed, Complete, Extracting, Working, Scheduling, update
  <2>5. PublishedIsWhole'
    <3>1. damage = 0 => Snapshot(op).written /\ Readable(op) /\ BaseIsValid(op)
      BY <2>1 DEF Checked
    <3>2. Snapshot(op).written =>
            /\ Says(Snapshot(op).state, Snapshot(op).route, Snapshot(op).composed, Snapshot(op).digest)
            /\ Snapshot(op).state = "unavailable" => Snapshot(op).digest = {}
      BY <2>1 DEF ManifestsTrue
    <3> QED
      BY <1>2, <3>1, <3>2 DEF PublishedIsWhole, Says, Readable, BaseIsValid, Snapshot, QualifiedOn, store
  <2>6. EndedAsRecorded'
    BY <1>2 DEF EndedAsRecorded
  <2> QED
    BY <2>2, <2>3, <2>4, <2>5, <2>6 DEF ViewIsWhole
<1> QED
  BY <1>1, <1>2 DEF Publish

-----------------------------------------------------------------------------
(* The environment *)

\* Damage makes nothing good, and where the view may be damaged no update rests on it yet.
LEMMA DamageKeeps ==
    ASSUME KnowledgeInv, Damage
    PROVE  KnowledgeInv'
<1> USE DEF KnowledgeInv, StoreInv
<1>1. /\ damage \in Nat /\ damage' = damage + 1
      /\ UNCHANGED <<semanticVars, pointer, record, update>>
  BY DEF Damage, StoreTypes
<1>2. SemanticInv'
  BY <1>1, StillSemantics
<1>9. \A r \in Routes : QualifiedOn(r) \subseteq QualifiedOn(r)'
  BY <1>1, QualifiedGrows, StillGrows DEF semanticVars, store
<1>3. pc' = pc /\ UNCHANGED receipt /\ pc \in {"load", "build", "judge", "check"}
  BY <1>1 DEF Damage, semanticVars, extraction
<1>4. pointer \in {None} \cup Ids /\ pointer < op /\ op \in Ids
  BY <1>3, KnowledgeAssumption DEF StoreTypes, Ids, Running, None
<1>5. Running' /\ Checked' /\ ViewIsWhole'
  BY <1>1, <1>3 DEF Running, Checked, ViewIsWhole, PublishedIsWhole, EndedAsRecorded, update
<1>6. CASE /\ pc = "load" /\ pointer # None /\ UNCHANGED bases
           /\ \E left \in {Unwritten, [Snapshot(pointer) EXCEPT !.graph = Damaged]} :
                 snapshots' = [snapshots EXCEPT ![pointer] = left]
  <2>1. PICK left \in {Unwritten, [Snapshot(pointer) EXCEPT !.graph = Damaged]} :
                 snapshots' = [snapshots EXCEPT ![pointer] = left]
    BY <1>6
  <2>2. /\ left \in Manifests /\ left.base \in {None, Snapshot(pointer).base}
        /\ left.written => /\ left.digest = Snapshot(pointer).digest /\ left.composed = Snapshot(pointer).composed
                           /\ left.state = Snapshot(pointer).state /\ left.route = Snapshot(pointer).route
                           /\ Snapshot(pointer).written
    <3>1. Snapshot(pointer) \in Manifests
      BY <1>4, <1>6 DEF StoreTypes, Snapshot
    <3>2. Unwritten \in Manifests /\ Unwritten.written = FALSE /\ Unwritten.base = None
      BY DEF Unwritten, Manifests, States, AnyRoute, Resolutions, NoGraph
    <3> QED
      BY <3>1, <3>2 DEF Manifests, Damaged
  <2> HIDE DEF Snapshot
  <2>3. StoreTypes' /\ ManifestsTrue' /\ OwnBases'
    <3>0. snapshots' \in [Ids -> Manifests]
      BY <2>1, <2>2 DEF StoreTypes
    <3>1. StoreTypes'
      BY <1>1, <1>6, <3>0 DEF StoreTypes, update
    <3>2. snapshots'[pointer] = left /\ \A id \in Ids : id # pointer => snapshots'[id] = snapshots[id]
      BY <1>4, <1>6, <2>1 DEF StoreTypes
    <3>3. ManifestsTrue'
      BY <1>4, <1>6, <1>9, <2>2, <3>2 DEF ManifestsTrue, Snapshot, Says
    <3>4. OwnBases'
      BY <1>4, <1>6, <2>2, <3>2 DEF OwnBases, Snapshot
    <3> QED
      BY <3>1, <3>3, <3>4
  <2>4. Noticed' /\ Complete'
    BY <1>3, <1>6 DEF Noticed, Complete, Extracting, Working, Scheduling
  <2> QED
    BY <1>2, <1>5, <2>3, <2>4
<1>7. CASE pc = "check" /\ snapshots' = [snapshots EXCEPT ![op].graph = Damaged] /\ UNCHANGED bases
  <2> DEFINE left == [snapshots[op] EXCEPT !.graph = Damaged]
  <2>1. snapshots' = [snapshots EXCEPT ![op] = left]
    BY <1>4, <1>7 DEF StoreTypes
  <2>2. /\ left \in Manifests /\ left.base = snapshots[op].base /\ left.digest = snapshots[op].digest
        /\ left.composed = snapshots[op].composed /\ left.state = snapshots[op].state
        /\ left.route = snapshots[op].route /\ left.written = snapshots[op].written
    <3>1. snapshots[op] \in Manifests
      BY <1>4 DEF StoreTypes
    <3> QED
      BY <3>1 DEF Manifests, Damaged
  <2> HIDE DEF left
  <2>3. snapshots'[op] = left /\ \A id \in Ids : id # op => snapshots'[id] = snapshots[id]
    BY <1>4, <2>1 DEF StoreTypes
  <2>4. StoreTypes'
    <3>1. snapshots' \in [Ids -> Manifests]
      BY <2>1, <2>2 DEF StoreTypes
    <3> QED
      BY <1>1, <1>7, <3>1 DEF StoreTypes, update
  <2>5. ManifestsTrue' /\ OwnBases'
    BY <1>4, <1>9, <2>2, <2>3 DEF ManifestsTrue, OwnBases, Snapshot, Says
  <2>6. Noticed' /\ Complete'
    BY <1>1, <1>3, <1>4, <1>7, <2>2, <2>3 DEF Noticed, Complete, Extracting, Working, Scheduling, Good, Readable,
            Trusted, BaseIsValid, Snapshot, update
  <2> QED
    BY <1>2, <1>5, <2>4, <2>5, <2>6
<1>8. CASE /\ UNCHANGED snapshots
           /\ \E id \in Ids : bases[id] = "whole" /\ bases' = [bases EXCEPT ![id] = "damaged"]
  <2>1. StoreTypes' /\ \A id \in Ids : bases'[id] = "whole" => bases[id] = "whole"
    BY <1>1, <1>8 DEF StoreTypes, update
  <2>2. ManifestsTrue' /\ OwnBases'
    BY <1>8, <1>9 DEF ManifestsTrue, OwnBases, Snapshot, Says
  <2>3. Good' => Good
    <3>1. pointer # None => Snapshot(pointer).base \in {None} \cup Ids
      BY <1>4 DEF StoreTypes, Manifests, Snapshot
    <3> QED
      BY <1>1, <1>8, <2>1, <3>1 DEF Good, Readable, Trusted, BaseIsValid, Snapshot
  <2>4. Noticed'
    BY <1>1, <1>3, <2>3 DEF Noticed, update
  <2>5. Complete'
    BY <1>1, <1>3, <1>8, <2>3 DEF Complete, update, Snapshot
  <2> QED
    BY <1>2, <1>5, <2>1, <2>2, <2>4, <2>5
<1> QED
  BY <1>6, <1>7, <1>8 DEF Damage

\* Time, the host, the workers and the updates of other views leave the store of this one alone.
LEMMA OthersKeep ==
    ASSUME KnowledgeInv, Time \/ OtherView \/ (Worker /\ UNCHANGED <<disk, update, damage>>)
    PROVE  KnowledgeInv'
<1>1. SemanticInv'
  BY TimeKeepsSemantics, OtherViewKeepsSemantics, WorkerKeeps DEF KnowledgeInv, Time
<1>2. UNCHANGED <<disk, update, damage, receipt, pc>>
  BY DEF Time, OtherView, Worker, Tick, Cancel, extraction
<1>4. CacheGrows
  BY CacheOnlyGrows DEF KnowledgeInv, Time
<1>3. StoreInv'
  BY <1>2, <1>4, AsideKeeps DEF KnowledgeInv
<1> QED
  BY <1>1, <1>3 DEF KnowledgeInv

-----------------------------------------------------------------------------
(* The invariant *)

\* The invariant holds of what an earlier release or update left,
LEMMA InitKeeps == Init => KnowledgeInv
<1> SUFFICES ASSUME Init PROVE KnowledgeInv
  OBVIOUS
<1> USE DEF Init, Rested
<1>1. PICK r \in Routes \cup {"former"} :
          /\ pointer \in {None, 0, 1}
          /\ cache = [q \in Routes |-> [c \in Chunks |->
                        CASE pointer = 0 -> "legacy"
                          [] pointer = 1 /\ q = r -> "qualified"
                          [] OTHER -> "none"]]
          /\ snapshots = [id \in Ids |-> CASE id = 0 /\ pointer = 0 -> Legacy
                                           [] id = 1 /\ pointer = 1 -> Earlier(r)
                                           [] OTHER -> Unwritten]
  OBVIOUS
<1>2. SemanticInv
  <2>1. FlagTypes /\ WorkerTypes /\ ChunkTypes /\ graph \subseteq Nat
    <3>1. FlagTypes /\ WorkerTypes
      BY DEF FlagTypes, WorkerTypes
    <3>2. ChunkTypes /\ graph \subseteq Nat
      BY DEF ChunkTypes, NoGraph
    <3> QED
      BY <3>1, <3>2
  <2>2. CacheTypes
    BY <1>1 DEF CacheTypes, Resolutions
  <2>3. ReceiptTypes
    BY DEF ReceiptTypes, NoReceipt, States, AnyRoute, Resolutions
  <2>4. Unbegun /\ OnRoute /\ GivenUp /\ AreQualified /\ Apart /\ PendingApart /\ Plain /\ ReceiptTrue /\ Accounted
    BY DEF Unbegun, Empty, OnRoute, GivenUp, AreQualified, Apart, PendingApart, Plain, ReceiptTrue, Accounted, Working, Scheduling
  <2> QED
    BY <2>1, <2>2, <2>3, <2>4 DEF SemanticInv, SemanticTypes
<1>3. /\ Unwritten \in Manifests /\ Unwritten.written = FALSE /\ Unwritten.base = None
      /\ Legacy \in Manifests /\ Legacy.base = None
  <2>1. Unwritten \in Manifests /\ Unwritten.written = FALSE /\ Unwritten.base = None
    BY DEF Unwritten, Manifests, States, AnyRoute, Resolutions, NoGraph
  <2>2. Legacy \in Manifests /\ Legacy.base = Unwritten.base
    BY <2>1 DEF Legacy, Manifests, States
  <2> QED
    BY <2>1, <2>2
<1>4. /\ Earlier(r) \in Manifests /\ Earlier(r).base = 1 /\ Earlier(r).state = "complete"
      /\ Earlier(r).composed = Chunks /\ Earlier(r).digest = Chunks /\ Earlier(r).graph = Chunks
      /\ Earlier(r).route # "none" /\ Earlier(r).written
  BY SemanticAssumption, KnowledgeAssumption
     DEF Earlier, Manifests, States, AnyRoute, Resolutions, Ids, Chunks
<1>5. 0 \in Ids /\ 1 \in Ids /\ None \notin Ids
  BY KnowledgeAssumption DEF Ids, None
<1>6. \A id \in Ids : \/ snapshots[id] = Unwritten
                      \/ id = 0 /\ snapshots[id] = Legacy
                      \/ id = 1 /\ snapshots[id] = Earlier(r)
  BY <1>1
<1>7. pointer = 1 => snapshots[1] = Earlier(r) /\ bases[1] = "whole"
  BY <1>1, <1>5
<1>8. StoreTypes
  <2>1. snapshots \in [Ids -> Manifests]
    BY <1>1, <1>3, <1>4
  <2> QED
    BY <1>1, <2>1, KnowledgeAssumption DEF StoreTypes
<1>12. pointer = 1 /\ r \in Routes => QualifiedOn(r) = Chunks
  BY <1>1 DEF QualifiedOn
<1>13. Earlier(r).route = r /\ (snapshots[1] = Earlier(r) => pointer = 1)
  <2>1. Earlier(r).written # Unwritten.written
    BY <1>3, <1>4
  <2> QED
    BY <1>1, <1>5, <2>1 DEF Earlier
<1>9. ManifestsTrue /\ OwnBases
  BY <1>3, <1>4, <1>5, <1>6, <1>12, <1>13 DEF ManifestsTrue, OwnBases, Snapshot, Says
<1>10. Running /\ Checked /\ Noticed /\ Complete
  BY DEF Running, Checked, Noticed, Complete, Extracting, Working, Scheduling
<1>11. ViewIsWhole
  BY <1>1, <1>4, <1>5, <1>7, <1>12, <1>13
     DEF ViewIsWhole, PublishedIsWhole, EndedAsRecorded, Snapshot, Readable, BaseIsValid, None
<1> QED
  BY <1>2, <1>8, <1>9, <1>10, <1>11 DEF KnowledgeInv, StoreInv

\* and every step keeps it.
LEMMA NextKeeps == KnowledgeInv /\ [Next]_vars => KnowledgeInv'
<1> SUFFICES ASSUME KnowledgeInv, [Next]_vars PROVE KnowledgeInv'
  OBVIOUS
<1>1. CASE Update
  <2>1. CASE Begin
    BY <2>1, BeginKeeps
  <2>2. CASE Probe \/ Load
    BY <2>2, ProbeAndLoadKeep
  <2>3. CASE Decide
    BY <2>3, DecideKeeps
  <2>4. CASE Fingerprint \/ Build \/ BeginExtraction
    BY <2>4, BuildKeeps
  <2>5. CASE WriteBase
    BY <2>5, WriteBaseKeeps
  <2>6. CASE Disabled
    BY <2>6, ReceiptKeeps
  <2>7. CASE Extraction
    BY <2>7, ExtractionKeeps
  <2>8. CASE Judge
    BY <2>8, JudgeKeeps
  <2>9. CASE WriteManifest
    BY <2>9, WriteManifestKeeps
  <2>10. CASE ValidateCandidate
    BY <2>10, ValidateKeeps
  <2>11. CASE Publish
    BY <2>11, PublishKeeps
  <2>12. CASE Report
    BY <2>12, Closes DEF Report, Ends
  <2> QED
    BY <1>1, <2>1, <2>2, <2>3, <2>4, <2>5, <2>6, <2>7, <2>8, <2>9, <2>10, <2>11, <2>12 DEF Update
<1>2. CASE Time \/ OtherView \/ (Worker /\ UNCHANGED <<disk, update, damage>>)
  BY <1>2, OthersKeep
<1>3. CASE Crash
  <2>1. pc # "idle" /\ pc' = "idle" /\ Rests /\ Forgotten /\ record' = "running"
    BY <1>3 DEF Crash, KnowledgeInv, StoreInv, Running
  <2> QED
    BY <2>1, Closes
<1>4. CASE Damage
  BY <1>4, DamageKeeps
<1>5. CASE UNCHANGED vars
  <2>1. UNCHANGED <<semanticVars, disk, update, damage, receipt, pc>> /\ CacheGrows
    BY <1>5 DEF vars, semanticVars, extraction, store, CacheGrows
  <2> QED
    BY <2>1, StillSemantics, AsideKeeps DEF KnowledgeInv
<1> QED
  BY <1>1, <1>2, <1>3, <1>4, <1>5 DEF Next

\* The invariant of the snapshots and the extraction (KnowledgeStore.update,
\* run_semantic_extraction)
THEOREM KnowledgeInvariant == Spec => []KnowledgeInv
<1>1. Init => KnowledgeInv
  BY InitKeeps
<1>2. KnowledgeInv /\ [Next]_vars => KnowledgeInv'
  BY NextKeeps
<1> QED
  BY <1>1, <1>2, PTL DEF Spec

\* What readers reach through the pointer is one update's whole work, its overlay what the receipt
\* composed, or if that is nothing at most validated fragments of its route, and the record of an
\* update that has ended tells whether that is its own, for any number of chunks, routes, workers and
\* updates, wherever a call fails or the process dies (snapshots.py, the end of update).
THEOREM ViewsAreWhole == Spec => []ViewIsWhole
<1>1. KnowledgeInv => ViewIsWhole
  BY DEF KnowledgeInv, StoreInv
<1> QED
  BY <1>1, KnowledgeInvariant, PTL

\* Every chunk of a receipt is composed, failed or pending, and what is composed is neither of the
\* others and all there is in the overlay, whether the drain gave up on a worker or not (semantic.py,
\* run_semantic_extraction).
THEOREM ReceiptsAccountForEveryChunk == Spec => []Accounted
<1>1. KnowledgeInv => Accounted
  BY DEF KnowledgeInv, SemanticInv
<1> QED
  BY <1>1, KnowledgeInvariant, PTL

\* A complete snapshot that is still readable and trusted is replaced only by a complete one while
\* semantics are configured (snapshots.py, the retained outcome).
THEOREM CompleteSnapshotsAreKept == Spec => CompleteIsKept
<1> DEFINE Replaced == pointer' # pointer /\ pointer # None /\ pointer # 0
           Excused == \/ Snapshot(pointer).state # "complete"
                      \/ ~Readable(pointer) \/ ~Trusted(pointer)
                      \/ ~enabled
                      \/ snapshots'[pointer'].state = "complete"
<1>1. KnowledgeInv /\ [Next]_vars => [Replaced => Excused]_vars
  <2> SUFFICES ASSUME KnowledgeInv, [Next]_vars, Replaced PROVE Excused
    OBVIOUS
  <2>1. CASE Publish /\ pointer' = op /\ UNCHANGED snapshots
    BY <2>1 DEF Publish, KnowledgeInv, StoreInv, Complete, Good, Snapshot
  <2>2. CASE UNCHANGED pointer
    BY <2>2
  <2>3. (Publish /\ pointer' = op /\ UNCHANGED snapshots) \/ UNCHANGED pointer
    <3> USE DEF Ends, Forgotten, Goes, disk
    <3>1. Begin \/ Probe \/ Load \/ Decide \/ Fingerprint \/ Build \/ WriteBase \/ Disabled => UNCHANGED pointer
      BY DEF Begin, Probe, Load, Decide, Fingerprint, Build, WriteBase, Disabled
    <3>2. BeginExtraction \/ Extraction \/ Judge \/ WriteManifest \/ ValidateCandidate \/ Report => UNCHANGED pointer
      BY DEF BeginExtraction, Extraction, ExtractionFails, Judge, WriteManifest, ValidateCandidate, Report
    <3>3. Publish => (pointer' = op /\ UNCHANGED snapshots) \/ UNCHANGED pointer
      BY DEF Publish
    <3>4. Time \/ Crash \/ OtherView \/ Damage => UNCHANGED pointer
      BY DEF Time, Crash, OtherView, Damage
    <3> QED
      BY <3>1, <3>2, <3>3, <3>4 DEF Next, Update, vars
  <2> QED
    BY <2>1, <2>2, <2>3
<1> HIDE DEF Replaced, Excused
<1>2. Spec => [][Replaced => Excused]_vars
  BY <1>1, KnowledgeInvariant, PTL DEF Spec
<1> QED
  BY <1>2 DEF CompleteIsKept, Replaced, Excused
=============================================================================
