--------------------------- MODULE ObserverProofs ---------------------------
(***************************************************************************)
(* Theorems about what the observer plugin attributes: that the journals   *)
(* never hold two contradictory claims for one task (Binding), and that    *)
(* what a hook emits hangs on something the journal has (Capture); and     *)
(* about Retention, for every set of segments and every bound: the types,  *)
(* that no event is lost, and what a compaction that returns has made      *)
(* durable.                                                                *)
(***************************************************************************)
EXTENDS Binding, Capture, Retention, FiniteSetTheorems, SequenceTheorems, TLAPS

(***************************************************************************)
(* Claims.  A process publishes one only while every journal entry since   *)
(* its snapshot is its own, and nothing in the snapshot is about the task. *)
(* What it has itself written since then it remembers: the intent is       *)
(* marked as emitted, or the task is in conflict.  So nothing is written   *)
(* about the task; and as long as the process holds the lock, nobody else  *)
(* writes a claim.                                                         *)
(***************************************************************************)

BindingSteps == {"idle", "read", "flush", "lock", "emit", "board"}
Publishable == [task : Tasks, claim : Claims]
Entries == [by : Producers \X Nat, task : Tasks \cup {None}, claim : Claims \cup {None}]

LogTypes == /\ log \in Seq(Entries) /\ epoch \in [Producers -> Nat]
            /\ \A i \in 1 .. Len(log) : log[i].task \in Tasks => log[i].claim \in Claims
IndexTypes == /\ sig \in [Producers -> Nat] /\ seen \in [Producers -> Nat]
              /\ state = [p \in Producers |-> state[p]]
              /\ pending \in [Producers -> [Tasks -> Intents \cup {None}]]
              /\ conflicted \in [Producers -> SUBSET Tasks]
BoundTypes == bound \in [Producers -> [Tasks -> Traces \cup {None}]]
WorkerTypes == /\ doing \in [Producers -> BindingSteps]
               /\ ready = [p \in Producers |-> ready[p]]

\* An epoch that a process enters is new to the journals.
EpochsPast == \A i \in 1 .. Len(log) : log[i].by[2] <= epoch[log[i].by[1]]

\* The journals hold one claim for a task.
OneClaim ==
    \A i, j \in 1 .. Len(log) : log[i].task \in Tasks /\ log[j].task = log[i].task =>
        log[j].claim = log[i].claim

\* Outside of a refresh the snapshot has read at least what its signature covers.
Refreshed(p) == /\ sig[p] <= Len(log) /\ seen[p] <= Len(log)
                /\ doing[p] # "read" => sig[p] <= seen[p]

\* The process knows that it has written about the task, or has an intent for it.
Tracked(p, t) == (pending[p][t] # None /\ pending[p][t].emitted) \/ t \in conflicted[p]
Kept(p, t) == pending[p][t] # None \/ t \in conflicted[p]

\* What a process wrote about a task after its snapshot, it knows to have written.
Remembers(p) ==
    \A i \in seen[p] + 1 .. Len(log) :
        log[i].by = Own(p) /\ log[i].task \in Tasks => Tracked(p, log[i].task)

\* What is about to be published is about tasks of which neither the snapshot nor the process
\* itself said anything.
Unsaid(p) ==
    doing[p] \in {"lock", "emit"} =>
        /\ ready[p] \subseteq Publishable
        /\ \A r, s \in ready[p] : r.task = s.task => r = s
        /\ \A r \in ready[p] : Kept(p, r.task)
        /\ doing[p] = "lock" => \A r \in ready[p] : \A i \in 1 .. Len(log) :
                                   log[i].task = r.task => i > seen[p] /\ log[i].by # Own(p)

\* The process that publishes holds the lock, and nobody has said anything about its tasks.
Alone(p) ==
    doing[p] = "emit" =>
        /\ lock = p
        /\ \A r \in ready[p] : \A i \in 1 .. Len(log) : log[i].task # r.task

Knows(p) == Refreshed(p) /\ Remembers(p) /\ Unsaid(p) /\ Alone(p)

BindingInv == /\ LogTypes /\ IndexTypes /\ BoundTypes /\ WorkerTypes
              /\ EpochsPast /\ OneClaim
              /\ \A p \in Producers : Knows(p)

\* What a step of p leaves to the others
Aside(p) ==
    \A q \in Producers \ {p} :
        /\ doing'[q] = doing[q] /\ ready'[q] = ready[q] /\ sig'[q] = sig[q] /\ seen'[q] = seen[q]
        /\ pending'[q] = pending[q] /\ conflicted'[q] = conflicted[q]

\* What a step of p does to its journal: nothing, a new epoch, a claim of which nobody has said
\* anything and for which nobody else holds the lock, or something that is no claim
Silent == log' = log /\ epoch' = epoch
NewEpoch(p) == log' = log /\ epoch' = [epoch EXCEPT ![p] = @ + 1]
Claiming(p, t, c) ==
    /\ Append1(p, t, c) /\ epoch' = epoch /\ c \in Claims /\ lock \in {None, p}
    /\ \A i \in 1 .. Len(log) : log[i].task # t
Other(p) == Append1(p, None, None) /\ epoch' = epoch
Speaks(p) == \/ Silent \/ NewEpoch(p) \/ Other(p)
             \/ \E t \in Tasks : \E c \in Claims : Claiming(p, t, c)

-----------------------------------------------------------------------------
(* The journals *)

\* An entry that a process appends: where it is, and that the others are where they were.
LEMMA Appended ==
    ASSUME LogTypes, NEW p \in Producers, NEW t \in Tasks \cup {None}, NEW c \in Claims \cup {None},
           Append1(p, t, c)
    PROVE  /\ Len(log) \in Nat /\ Len(log') = Len(log) + 1 /\ log' \in Seq(Entries)
           /\ \A i \in 1 .. Len(log) : log'[i] = log[i]
           /\ log'[Len(log) + 1] = [by |-> Own(p), task |-> t, claim |-> c]
<1> DEFINE e == [by |-> Own(p), task |-> t, claim |-> c]
<1>1. e \in Entries
  BY DEF Entries, Own, LogTypes
<1>2. log' = Append(log, e)
  BY DEF Append1
<1>3. log \in Seq(Entries)
  BY DEF LogTypes
<1> HIDE DEF e
<1>4. Len(log) \in Nat /\ Len(log') = Len(log) + 1 /\ log' \in Seq(Entries)
      /\ (\A i \in 1 .. Len(log) : log'[i] = log[i]) /\ log'[Len(log) + 1] = e
  BY <1>1, <1>2, <1>3
<1> QED
  BY <1>4 DEF e

\* A claim or another entry is an entry by the process itself, about the task or about none.
LEMMA SpokenIsOwn ==
    ASSUME LogTypes, BindingAssumption, NEW p \in Producers, Speaks(p), log' # log
    PROVE  \E t \in Tasks \cup {None} : \E c \in Claims \cup {None} :
              /\ Append1(p, t, c) /\ epoch' = epoch
              /\ t = None \/ (t \in Tasks /\ Claiming(p, t, c))
<1>1. CASE Other(p)
  <2>1. None \in Tasks \cup {None} /\ None \in Claims \cup {None}
    OBVIOUS
  <2> QED
    BY <1>1, <2>1 DEF Other
<1>2. CASE \E t \in Tasks : \E c \in Claims : Claiming(p, t, c)
  <2>1. PICK t \in Tasks, c \in Claims : Claiming(p, t, c)
    BY <1>2
  <2> QED
    BY <2>1 DEF Claiming
<1> QED
  BY <1>1, <1>2 DEF Speaks, Silent, NewEpoch

\* The journals stay typed, no entry is of an epoch to come, and a task keeps its one claim.
LEMMA JournalsStayWhole ==
    ASSUME BindingInv, BindingAssumption, NEW p \in Producers, Speaks(p)
    PROVE  LogTypes' /\ EpochsPast' /\ OneClaim'
<1> USE DEF BindingInv
<1>1. CASE Silent
  BY <1>1 DEF Silent, LogTypes, EpochsPast, OneClaim
<1>2. CASE NewEpoch(p)
  <2>1. epoch \in [Producers -> Nat] /\ epoch' \in [Producers -> Nat]
    BY <1>2 DEF NewEpoch, LogTypes
  <2>2. \A q \in Producers : epoch[q] <= epoch'[q]
    BY <1>2, <2>1 DEF NewEpoch
  <2>3. ASSUME NEW i \in 1 .. Len(log) PROVE log[i].by[1] \in Producers /\ log[i].by[2] \in Nat
    <3>1. log[i] \in Entries
      BY DEF LogTypes
    <3> QED
      BY <3>1 DEF Entries
  <2>4. EpochsPast'
    <3> SUFFICES ASSUME NEW i \in 1 .. Len(log) PROVE log[i].by[2] <= epoch'[log[i].by[1]]
      BY <1>2 DEF EpochsPast, NewEpoch
    <3>1. log[i].by[2] <= epoch[log[i].by[1]]
      BY DEF EpochsPast
    <3>2. epoch[log[i].by[1]] <= epoch'[log[i].by[1]]
      BY <2>2, <2>3
    <3>3. log[i].by[2] \in Nat /\ epoch[log[i].by[1]] \in Nat /\ epoch'[log[i].by[1]] \in Nat
      BY <2>1, <2>3
    <3> QED
      BY <3>1, <3>2, <3>3
  <2> QED
    BY <1>2, <2>1, <2>4 DEF NewEpoch, LogTypes, OneClaim
<1>3. CASE log' # log
  <2>1. PICK t \in Tasks \cup {None}, c \in Claims \cup {None} :
            /\ Append1(p, t, c) /\ epoch' = epoch
            /\ t = None \/ (t \in Tasks /\ Claiming(p, t, c))
    BY <1>3, SpokenIsOwn
  <2>2. /\ Len(log) \in Nat /\ Len(log') = Len(log) + 1 /\ log' \in Seq(Entries)
        /\ \A i \in 1 .. Len(log) : log'[i] = log[i]
        /\ log'[Len(log) + 1] = [by |-> Own(p), task |-> t, claim |-> c]
    BY <2>1, Appended
  <2>3. ASSUME NEW i \in 1 .. Len(log') PROVE i \in 1 .. Len(log) \/ i = Len(log) + 1
    BY <2>2
  <2>4. t \in Tasks => c \in Claims /\ \A i \in 1 .. Len(log) : log[i].task # t
    BY <2>1 DEF Claiming, BindingAssumption
  <2>5. LogTypes'
    <3>1. ASSUME NEW i \in 1 .. Len(log'), log'[i].task \in Tasks PROVE log'[i].claim \in Claims
      <4>1. CASE i \in 1 .. Len(log)
        BY <2>2, <3>1, <4>1 DEF LogTypes
      <4>2. CASE i = Len(log) + 1
        BY <2>2, <2>4, <3>1, <4>2
      <4> QED
        BY <2>3, <4>1, <4>2
    <3> QED
      BY <2>1, <2>2, <3>1 DEF LogTypes
  <2>6. EpochsPast'
    <3> SUFFICES ASSUME NEW i \in 1 .. Len(log') PROVE log'[i].by[2] <= epoch[log'[i].by[1]]
      BY <2>1 DEF EpochsPast
    <3>1. CASE i \in 1 .. Len(log)
      BY <2>2, <3>1 DEF EpochsPast
    <3>2. CASE i = Len(log) + 1
      BY <2>2, <3>2 DEF Own, LogTypes
    <3> QED
      BY <2>3, <3>1, <3>2
  <2>7. OneClaim'
    <3> SUFFICES ASSUME NEW i \in 1 .. Len(log'), NEW j \in 1 .. Len(log'),
                        log'[i].task \in Tasks, log'[j].task = log'[i].task
                 PROVE  log'[j].claim = log'[i].claim
      BY DEF OneClaim
    <3>1. CASE i \in 1 .. Len(log) /\ j \in 1 .. Len(log)
      BY <2>2, <3>1 DEF OneClaim
    <3>2. CASE i = Len(log) + 1 /\ j \in 1 .. Len(log)
      BY <2>2, <2>4, <3>2
    <3>3. CASE j = Len(log) + 1 /\ i \in 1 .. Len(log)
      BY <2>2, <2>4, <3>3
    <3>4. CASE i = j
      BY <3>4
    <3> QED
      BY <2>3, <3>1, <3>2, <3>3, <3>4
  <2> QED
    BY <2>5, <2>6, <2>7
<1>4. Silent \/ NewEpoch(p) \/ log' # log
  <2>1. CASE log' = log
    <3>1. ~ \E t \in Tasks \cup {None} : \E c \in Claims \cup {None} : Append1(p, t, c)
      <4> SUFFICES ASSUME NEW t \in Tasks \cup {None}, NEW c \in Claims \cup {None}, Append1(p, t, c)
                   PROVE  FALSE
        OBVIOUS
      <4>1. Len(log) \in Nat /\ Len(log') = Len(log) + 1
        BY Appended
      <4> QED
        BY <2>1, <4>1
    <3>2. ~Other(p) /\ ~ \E t \in Tasks : \E c \in Claims : Claiming(p, t, c)
      BY <3>1 DEF Other, Claiming
    <3> QED
      BY <3>2 DEF Speaks
  <2> QED
    BY <2>1
<1> QED
  BY <1>1, <1>2, <1>3, <1>4

\* What a step of one process does, the others need not know.
LEMMA OthersKnow ==
    ASSUME BindingInv, BindingAssumption, NEW p \in Producers, NEW q \in Producers, q # p,
           Speaks(p), Aside(p), lock' = lock \/ lock \in {None, p}
    PROVE  Knows(q)'
<1> USE DEF BindingInv
<1>0. Knows(q)
  OBVIOUS
<1>1. /\ doing'[q] = doing[q] /\ ready'[q] = ready[q] /\ sig'[q] = sig[q] /\ seen'[q] = seen[q]
      /\ pending'[q] = pending[q] /\ conflicted'[q] = conflicted[q]
  BY DEF Aside
<1>2. Own(q)' = Own(q)
  BY DEF Speaks, Silent, NewEpoch, Other, Claiming, Own, LogTypes
<1>3. \A t \in Tasks : (Tracked(q, t))' = Tracked(q, t) /\ (Kept(q, t))' = Kept(q, t)
  BY <1>1 DEF Tracked, Kept
<1>4. doing[q] = "emit" => lock = q /\ lock' = q
  <2>1. doing[q] = "emit" => lock = q
    BY <1>0 DEF Knows, Alone
  <2> QED
    BY <2>1 DEF BindingAssumption
<1>5. ASSUME log' = log PROVE Knows(q)'
  <2>1. Refreshed(q)'
    BY <1>0, <1>1, <1>5 DEF Knows, Refreshed
  <2>2. Remembers(q)'
    BY <1>0, <1>1, <1>2, <1>3, <1>5 DEF Knows, Remembers
  <2>3. Unsaid(q)'
    <3>1. \A r \in Publishable : r.task \in Tasks
      BY DEF Publishable
    <3> QED
      BY <1>0, <1>1, <1>2, <1>3, <1>5, <3>1 DEF Knows, Unsaid
  <2>4. Alone(q)'
    BY <1>0, <1>1, <1>4, <1>5 DEF Knows, Alone
  <2> QED
    BY <2>1, <2>2, <2>3, <2>4 DEF Knows
<1>6. ASSUME log' # log PROVE Knows(q)'
  <2>1. PICK t \in Tasks \cup {None}, c \in Claims \cup {None} :
            /\ Append1(p, t, c) /\ epoch' = epoch
            /\ t = None \/ (t \in Tasks /\ Claiming(p, t, c))
    BY <1>6, SpokenIsOwn
  <2>2. /\ Len(log) \in Nat /\ Len(log') = Len(log) + 1
        /\ \A i \in 1 .. Len(log) : log'[i] = log[i]
        /\ log'[Len(log) + 1] = [by |-> Own(p), task |-> t, claim |-> c]
    BY <2>1, Appended
  <2>3. ASSUME NEW i \in 1 .. Len(log') PROVE i \in 1 .. Len(log) \/ i = Len(log) + 1
    BY <2>2
  <2>4. log'[Len(log) + 1].by # Own(q)
    BY <2>2 DEF Own
  <2>5. sig[q] \in Nat /\ seen[q] \in Nat
    BY DEF IndexTypes
  <2>6. Refreshed(q)'
    BY <1>0, <1>1, <2>2, <2>5 DEF Knows, Refreshed
  <2>7. Remembers(q)'
    <3> SUFFICES ASSUME NEW i \in seen[q] + 1 .. Len(log'),
                        log'[i].by = Own(q), log'[i].task \in Tasks
                 PROVE  Tracked(q, log'[i].task)
      BY <1>1, <1>2, <1>3 DEF Remembers
    <3>1. i \in 1 .. Len(log')
      BY <2>2, <2>5
    <3>2. i \in seen[q] + 1 .. Len(log) /\ log'[i] = log[i]
      BY <2>2, <2>3, <2>4, <2>5, <3>1
    <3> QED
      BY <1>0, <3>2 DEF Knows, Remembers
  <2>8. Unsaid(q)'
    <3> SUFFICES ASSUME doing[q] \in {"lock", "emit"} PROVE Unsaid(q)'
      BY <1>1 DEF Unsaid
    <3>1. /\ ready[q] \subseteq Publishable
          /\ \A r, s \in ready[q] : r.task = s.task => r = s
          /\ \A r \in ready[q] : Kept(q, r.task)
      BY <1>0 DEF Knows, Unsaid
    <3>2. \A r \in ready[q] : r.task \in Tasks
      BY <3>1 DEF Publishable
    <3>3. ASSUME doing[q] = "lock", NEW r \in ready[q], NEW i \in 1 .. Len(log'),
                 log'[i].task = r.task
          PROVE  i > seen[q] /\ log'[i].by # Own(q)
      <4>1. CASE i \in 1 .. Len(log)
        BY <1>0, <2>2, <3>3, <4>1 DEF Knows, Unsaid
      <4>2. CASE i = Len(log) + 1
        <5>1. seen[q] <= Len(log)
          BY <1>0 DEF Knows, Refreshed
        <5> QED
          BY <2>2, <2>4, <2>5, <4>2, <5>1
      <4> QED
        BY <2>3, <4>1, <4>2
    <3> QED
      BY <1>1, <1>2, <1>3, <3>1, <3>2, <3>3 DEF Unsaid
  <2>9. Alone(q)'
    <3> SUFFICES ASSUME doing[q] = "emit" PROVE Alone(q)'
      BY <1>1 DEF Alone
    <3>1. lock = q /\ lock' = q
      BY <1>4
    <3>2. t = None
      BY <2>1, <3>1 DEF Claiming, BindingAssumption
    <3>3. \A r \in ready[q] : r.task \in Tasks
      BY <1>0 DEF Knows, Unsaid, Publishable
    <3>4. \A r \in ready[q] : \A i \in 1 .. Len(log') : log'[i].task # r.task
      BY <1>0, <2>2, <2>3, <3>2, <3>3 DEF Knows, Alone, BindingAssumption
    <3> QED
      BY <1>1, <3>1, <3>4 DEF Alone
  <2> QED
    BY <2>6, <2>7, <2>8, <2>9 DEF Knows
<1> QED
  BY <1>5, <1>6

-----------------------------------------------------------------------------
(* The process itself *)

Grows(p) == \A u \in Tasks : (Tracked(p, u) => Tracked(p, u)') /\ (Kept(p, u) => Kept(p, u)')

\* A claim that the process writes, it tracks from then on.
Claimed(p) == \A t \in Tasks : \A c \in Claims : Claiming(p, t, c) => Tracked(p, t)'

\* A journal that a process may have written is as long as before, or longer by the one entry.
LEMMA JournalsGrow ==
    ASSUME LogTypes, BindingAssumption, NEW p \in Producers, Speaks(p)
    PROVE  Len(log) \in Nat /\ Len(log') \in Nat /\ Len(log) <= Len(log')
<1>0. Len(log) \in Nat
  BY DEF LogTypes
<1>1. CASE log' = log
  BY <1>0, <1>1
<1>2. CASE log' # log
  <2>1. PICK t \in Tasks \cup {None}, c \in Claims \cup {None} : Append1(p, t, c)
    BY <1>2, SpokenIsOwn
  <2>2. Len(log') = Len(log) + 1
    BY <2>1, Appended
  <2> QED
    BY <1>0, <2>2
<1> QED
  BY <1>1, <1>2

\* What the process writes it remembers, and what it had written it still remembers.
LEMMA StillRemembers ==
    ASSUME BindingInv, BindingAssumption, NEW p \in Producers, Speaks(p), Grows(p),
           seen'[p] = seen[p], Claimed(p)
    PROVE  Remembers(p)'
<1> USE DEF BindingInv
<1>0. Remembers(p) /\ seen[p] \in Nat /\ epoch[p] \in Nat
  BY DEF Knows, IndexTypes, LogTypes
<1>1. CASE Silent
  BY <1>0, <1>1 DEF Silent, Remembers, Own, Grows
<1>2. CASE NewEpoch(p)
  <2>1. \A i \in 1 .. Len(log) : log[i].by # Own(p)'
    <3> SUFFICES ASSUME NEW i \in 1 .. Len(log), log[i].by = <<p, epoch'[p]>> PROVE FALSE
      BY DEF Own
    <3>1. log[i].by[2] <= epoch[log[i].by[1]]
      BY DEF EpochsPast
    <3>2. log[i].by[1] = p /\ log[i].by[2] = epoch'[p]
      OBVIOUS
    <3>3. epoch'[p] = epoch[p] + 1
      BY <1>2 DEF NewEpoch, LogTypes
    <3> QED
      BY <1>0, <3>1, <3>2, <3>3
  <2>2. \A i \in seen[p] + 1 .. Len(log) : i \in 1 .. Len(log)
    BY <1>0 DEF LogTypes
  <2> QED
    BY <1>2, <2>1, <2>2 DEF NewEpoch, Remembers
<1>3. CASE log' # log
  <2>1. PICK t \in Tasks \cup {None}, c \in Claims \cup {None} :
            /\ Append1(p, t, c) /\ epoch' = epoch
            /\ t = None \/ (t \in Tasks /\ Claiming(p, t, c))
    BY <1>3, SpokenIsOwn
  <2>2. /\ Len(log) \in Nat /\ Len(log') = Len(log) + 1
        /\ \A i \in 1 .. Len(log) : log'[i] = log[i]
        /\ log'[Len(log) + 1] = [by |-> Own(p), task |-> t, claim |-> c]
    BY <2>1, Appended
  <2> SUFFICES ASSUME NEW i \in seen[p] + 1 .. Len(log'), NEW u \in Tasks,
                      log'[i].by = Own(p), log'[i].task = u
               PROVE  Tracked(p, u)'
    <3>1. Own(p)' = Own(p)
      BY <2>1 DEF Own
    <3>2. \A i \in seen[p] + 1 .. Len(log') : \A u \in Tasks :
             log'[i].by = Own(p) /\ log'[i].task = u => Tracked(p, u)'
      OBVIOUS
    <3> QED
      BY <3>1, <3>2 DEF Remembers, Tracked
  <2>3. i \in 1 .. Len(log') /\ (i \in 1 .. Len(log) \/ i = Len(log) + 1)
    BY <1>0, <2>2
  <2>4. CASE i \in 1 .. Len(log)
    <3>1. i \in seen[p] + 1 .. Len(log) /\ log'[i] = log[i]
      BY <1>0, <2>2, <2>4
    <3>2. Tracked(p, u)
      BY <1>0, <3>1 DEF Remembers
    <3> QED
      BY <3>2 DEF Grows
  <2>5. CASE i = Len(log) + 1
    <3>1. t \in Tasks /\ c \in Claims /\ Claiming(p, t, c) /\ u = t
      BY <2>1, <2>2, <2>5 DEF Claiming, BindingAssumption
    <3> QED
      BY <3>1 DEF Claimed
  <2> QED
    BY <2>3, <2>4, <2>5
<1>4. Silent \/ NewEpoch(p) \/ log' # log
  <2>1. ASSUME log' = log, NEW t \in Tasks \cup {None}, NEW c \in Claims \cup {None}, Append1(p, t, c)
        PROVE  FALSE
    <3>1. Len(log) \in Nat /\ Len(log') = Len(log) + 1
      BY <2>1, Appended
    <3> QED
      BY <2>1, <3>1
  <2> QED
    BY <2>1 DEF Speaks, Other, Claiming
<1> QED
  BY <1>1, <1>2, <1>3, <1>4

\* A process that neither refreshes nor publishes knows what it knew.
LEMMA StillKnows ==
    ASSUME BindingInv, BindingAssumption, NEW p \in Producers, Speaks(p), Grows(p),
           sig'[p] = sig[p], seen'[p] = seen[p], doing[p] # "read",
           doing'[p] \notin {"lock", "emit"}, Claimed(p)
    PROVE  Knows(p)'
<1>1. Remembers(p)'
  BY StillRemembers
<1>2. Refreshed(p)'
  <2>1. Len(log) \in Nat /\ Len(log') \in Nat /\ Len(log) <= Len(log')
    BY JournalsGrow DEF BindingInv
  <2>2. sig[p] <= Len(log) /\ seen[p] <= Len(log) /\ sig[p] <= seen[p]
    BY DEF BindingInv, Knows, Refreshed
  <2>3. sig[p] \in Nat /\ seen[p] \in Nat
    BY DEF BindingInv, IndexTypes
  <2> QED
    BY <2>1, <2>2, <2>3 DEF Refreshed
<1>3. Unsaid(p)' /\ Alone(p)'
  BY DEF Unsaid, Alone
<1> QED
  BY <1>1, <1>2, <1>3 DEF Knows

\* What the claims say of a task is a claim, if they say anything.
LEMMA ResolvedIsClaim ==
    ASSUME LogTypes, NEW t \in Tasks, NEW n \in Nat, n <= Len(log)
    PROVE  /\ Resolved(n, t) \in Claims \cup {None}
           /\ Rows(n, t) = {} => Resolved(n, t) = None
<1>1. Latest(n, t) \subseteq Claims
  <2>1. ASSUME NEW i \in Rows(n, t) PROVE log[i].claim \in Claims
    BY DEF Rows, LogTypes
  <2> QED
    BY <2>1 DEF Latest
<1>2. ASSUME Latest(n, t) = {} PROVE Resolved(n, t) = None
  <2>1. Cardinality(Latest(n, t)) = 0
    BY <1>2, FS_EmptySet
  <2> QED
    BY <2>1 DEF Resolved
<1>3. ASSUME Latest(n, t) # {} PROVE Resolved(n, t) \in Claims \cup {None}
  <2>1. (CHOOSE c \in Latest(n, t) : TRUE) \in Latest(n, t)
    BY <1>3
  <2> QED
    BY <1>1, <2>1 DEF Resolved
<1>4. Rows(n, t) = {} => Latest(n, t) = {}
  BY DEF Latest
<1> QED
  BY <1>2, <1>3, <1>4

\* No row of a task up to an index: no entry there is about the task.
LEMMA NoRows ==
    ASSUME NEW n, NEW t, Rows(n, t) = {}
    PROVE  \A i \in 1 .. n : log[i].task # t
BY DEF Rows

\* The same of one entry: it lies past that index.
LEMMA PastRows ==
    ASSUME NEW n \in Nat, NEW t, Rows(n, t) = {}, NEW i \in Nat \ {0}, log[i].task = t
    PROVE  ~(i <= n)
<1>1. i <= n => i \in 1 .. n
  OBVIOUS
<1> QED
  BY <1>1, NoRows

-----------------------------------------------------------------------------
(* The intents *)

\* An intent that is recorded hides nothing that the process knew; one that is already published is
\* known to be.
LEMMA RecordKeeps ==
    ASSUME IndexTypes, BindingAssumption, NEW p \in Producers, NEW t \in Tasks, NEW c \in Claims,
           NEW e \in BOOLEAN, Record(p, t, c, e)
    PROVE  /\ IndexTypes' /\ Grows(p)
           /\ sig' = sig /\ seen' = seen
           /\ \A q \in Producers \ {p} : pending'[q] = pending[q] /\ conflicted'[q] = conflicted[q]
           /\ e /\ Rows(seen[p], t) = {} => Tracked(p, t)'
<1> DEFINE old == pending[p][t]
           same == old = None \/ old.claim = c
           fresh == [claim |-> c, emitted |-> e \/ (old # None /\ old.emitted)]
           kept == IF Rows(seen[p], t) # {} THEN old ELSE IF same THEN fresh ELSE None
           quiet == IF Rows(seen[p], t) # {} THEN Resolved(seen[p], t) = c ELSE same
           torn == IF quiet THEN conflicted[p] ELSE conflicted[p] \cup {t}
<1>1. pending' = [pending EXCEPT ![p] = [pending[p] EXCEPT ![t] = kept]]
  BY DEF Record, IndexTypes
<1>2. conflicted' = [conflicted EXCEPT ![p] = torn]
  BY DEF Record, IndexTypes
<1>3. old \in Intents \cup {None} /\ (old # None => old \in Intents)
  BY DEF IndexTypes
<1>4. fresh \in Intents /\ fresh.emitted = (e \/ (old # None /\ old.emitted))
  <2>1. old # None => old.emitted \in BOOLEAN
    BY <1>3 DEF Intents
  <2>2. (e \/ (old # None /\ old.emitted)) \in BOOLEAN
    OBVIOUS
  <2> QED
    BY <2>2 DEF Intents
<1>5. fresh # None
  BY <1>4 DEF BindingAssumption
<1>6. kept \in Intents \cup {None}
  BY <1>3, <1>4
<1>7. torn \in SUBSET Tasks /\ conflicted[p] \subseteq torn
  BY DEF IndexTypes
<1>8. pending'[p] = [pending[p] EXCEPT ![t] = kept] /\ conflicted'[p] = torn
  BY <1>1, <1>2 DEF IndexTypes
<1>9. pending'[p][t] = kept /\ \A u \in Tasks \ {t} : pending'[p][u] = pending[p][u]
  BY <1>8 DEF IndexTypes
<1>10. kept = None => old = None \/ t \in torn
  BY <1>5
<1>11. kept # None /\ old # None /\ old.emitted => kept.emitted
  BY <1>4
<1>12. e /\ Rows(seen[p], t) = {} => (kept # None /\ kept.emitted) \/ t \in torn
  BY <1>4, <1>5
<1> HIDE DEF old, same, fresh, kept, quiet, torn
<1>13. IndexTypes'
  BY <1>1, <1>2, <1>6, <1>7 DEF Record, IndexTypes
<1>14. Grows(p)
  <2>1. \A u \in Tasks \ {t} : (Tracked(p, u) => Tracked(p, u)') /\ (Kept(p, u) => Kept(p, u)')
    BY <1>7, <1>8, <1>9 DEF Tracked, Kept
  <2>2. (Tracked(p, t) => Tracked(p, t)') /\ (Kept(p, t) => Kept(p, t)')
    BY <1>7, <1>8, <1>9, <1>10, <1>11 DEF Tracked, Kept, old
  <2> QED
    BY <2>1, <2>2 DEF Grows
<1>15. e /\ Rows(seen[p], t) = {} => Tracked(p, t)'
  BY <1>8, <1>9, <1>12 DEF Tracked
<1>16. \A q \in Producers \ {p} : pending'[q] = pending[q] /\ conflicted'[q] = conflicted[q]
  BY <1>1, <1>2 DEF IndexTypes
<1> QED
  BY <1>13, <1>14, <1>15, <1>16 DEF Record

\* A claim lengthens the journals, and its task is the last one's.
LEMMA ClaimIsLast ==
    ASSUME LogTypes, BindingAssumption, NEW p \in Producers, NEW t \in Tasks, NEW c \in Claims, Claiming(p, t, c)
    PROVE  log' # log /\ log'[Len(log) + 1].task = t
<1>1. Append1(p, t, c) /\ t \in Tasks \cup {None} /\ c \in Claims \cup {None}
  BY DEF Claiming
<1>2. /\ Len(log) \in Nat /\ Len(log') = Len(log) + 1
      /\ log'[Len(log) + 1] = [by |-> Own(p), task |-> t, claim |-> c]
  BY <1>1, Appended
<1> QED
  BY <1>2

\* What is no claim leaves nothing to track.
LEMMA NothingClaimed ==
    ASSUME LogTypes, BindingAssumption, NEW p \in Producers, log' = log \/ Other(p)
    PROVE  Claimed(p)
<1> SUFFICES ASSUME NEW t \in Tasks, NEW c \in Claims, Claiming(p, t, c) PROVE FALSE
  BY DEF Claimed
<1>1. log' # log /\ log'[Len(log) + 1].task = t
  BY ClaimIsLast
<1>2. CASE Other(p)
  <2>1. None \in Tasks \cup {None} /\ None \in Claims \cup {None} /\ Append1(p, None, None)
    BY <1>2 DEF Other
  <2>2. log'[Len(log) + 1] = [by |-> Own(p), task |-> None, claim |-> None]
    BY <2>1, Appended
  <2> QED
    BY <1>1, <2>2 DEF BindingAssumption
<1> QED
  BY <1>1, <1>2

\* A task whose binding is absent: the process has read everything about it, and there was nothing,
\* nor does it have anything of its own.
LEMMA AbsentSaysNothing ==
    ASSUME NEW p, NEW t, BindingState(p, t) = "absent"
    PROVE  /\ pending[p][t] = None /\ t \notin conflicted[p]
           /\ Rows(seen[p], t) = {}
BY DEF BindingState

\* A claim for such a task, published while the journals were read up to the process's own entries
\* and nobody publishes, is the first.
LEMMA PublishIsFirst ==
    ASSUME BindingInv, BindingAssumption, NEW p \in Producers, NEW t \in Tasks,
           BindingState(p, t) = "absent", Covers(p), doing[p] # "read"
    PROVE  \A i \in 1 .. Len(log) : log[i].task # t
<1> USE DEF BindingInv
<1>1. /\ pending[p][t] = None /\ t \notin conflicted[p] /\ Rows(seen[p], t) = {}
  BY AbsentSaysNothing
<1>2. ~Tracked(p, t)
  BY <1>1 DEF Tracked
<1>3. sig[p] <= seen[p] /\ sig[p] \in Nat /\ seen[p] \in Nat /\ Len(log) \in Nat
  BY DEF Knows, Refreshed, IndexTypes, LogTypes
<1> SUFFICES ASSUME NEW i \in 1 .. Len(log), log[i].task = t PROVE FALSE
  OBVIOUS
<1>4. ~(i <= seen[p])
  <2>1. i \in Nat \ {0} /\ seen[p] \in Nat
    BY <1>3
  <2> QED
    BY <1>1, <2>1, PastRows
<1>5. i \in sig[p] + 1 .. Len(log) /\ i \in seen[p] + 1 .. Len(log)
  BY <1>3, <1>4
<1>6. log[i].by = Own(p)
  BY <1>5 DEF Covers
<1>7. Tracked(p, t)
  BY <1>5, <1>6 DEF Knows, Remembers
<1> QED
  BY <1>2, <1>7

\* A step of p that may write or remember something, and no claim but a first one
Sound(p) == /\ Speaks(p) /\ IndexTypes' /\ Grows(p) /\ Claimed(p)
            /\ sig' = sig /\ seen' = seen /\ lock' = lock
            /\ \A q \in Producers \ {p} : pending'[q] = pending[q] /\ conflicted'[q] = conflicted[q]

\* What changes nothing of the index, and nothing in the journals, is sound.
LEMMA NothingIsSound ==
    ASSUME BindingInv, BindingAssumption, NEW p \in Producers, UNCHANGED index, UNCHANGED lock,
           Silent \/ NewEpoch(p) \/ Other(p)
    PROVE  Sound(p)
<1>1. IndexTypes' /\ Grows(p) /\ sig' = sig /\ seen' = seen /\ pending' = pending /\ conflicted' = conflicted
  BY DEF index, IndexTypes, BindingInv, Grows, Tracked, Kept
<1>2. log' = log \/ Other(p)
  BY DEF Silent, NewEpoch
<1>3. Claimed(p)
  BY <1>2, NothingClaimed DEF BindingInv
<1> QED
  BY <1>1, <1>3 DEF Sound, Speaks

\* An intent alone is sound.
LEMMA IntentIsSound ==
    ASSUME BindingInv, BindingAssumption, NEW p \in Producers, NEW t \in Tasks, NEW c \in Claims,
           NEW e \in BOOLEAN, Record(p, t, c, e), Silent, UNCHANGED lock
    PROVE  Sound(p)
<1>1. Claimed(p)
  BY NothingClaimed DEF BindingInv, Silent
<1>2. IndexTypes
  BY DEF BindingInv
<1>3. /\ IndexTypes' /\ Grows(p)
      /\ sig' = sig /\ seen' = seen
      /\ \A q \in Producers \ {p} : pending'[q] = pending[q] /\ conflicted'[q] = conflicted[q]
  BY <1>2, RecordKeeps
<1> QED
  BY <1>1, <1>3 DEF Sound, Speaks

\* A claim published where there was none is sound.
LEMMA PublishIsSound ==
    ASSUME BindingInv, BindingAssumption, NEW p \in Producers, NEW t \in Tasks, NEW c \in Claims,
           BindingState(p, t) = "absent", doing[p] # "read", Publish(p, t, c)
    PROVE  Sound(p)
<1>1. CASE ~Covers(p)
  BY <1>1, IntentIsSound DEF Publish, Silent
<1>2. CASE Covers(p) /\ log' = log
  <2>1. CASE Append1(p, t, c)
    <3>1. Len(log) \in Nat /\ Len(log') = Len(log) + 1
      BY <2>1, Appended DEF BindingInv
    <3> QED
      BY <1>2, <3>1
  <2>2. CASE epoch' = [epoch EXCEPT ![p] = @ + 1] /\ UNCHANGED <<log, index>>
    BY <2>2, NothingIsSound DEF NewEpoch, Publish
  <2> QED
    BY <1>2, <2>1, <2>2 DEF Publish
<1>3. CASE Covers(p) /\ log' # log
  <2>1. Append1(p, t, c) /\ Record(p, t, c, TRUE) /\ epoch' = epoch /\ lock = None /\ lock' = lock
    BY <1>3 DEF Publish
  <2>2. Claiming(p, t, c)
    BY <1>3, <2>1, PublishIsFirst DEF Claiming
  <2>3. Rows(seen[p], t) = {}
    BY AbsentSaysNothing
  <2>4. IndexTypes
    BY DEF BindingInv
  <2>5. /\ IndexTypes' /\ Grows(p)
        /\ sig' = sig /\ seen' = seen
        /\ \A q \in Producers \ {p} : pending'[q] = pending[q] /\ conflicted'[q] = conflicted[q]
        /\ Tracked(p, t)'
    BY <2>1, <2>3, <2>4, RecordKeeps
  <2>6. Claimed(p)
    <3> SUFFICES ASSUME NEW u \in Tasks, NEW d \in Claims, Claiming(p, u, d) PROVE Tracked(p, u)'
      BY DEF Claimed
    <3>1. log'[Len(log) + 1].task = u /\ log'[Len(log) + 1].task = t
      BY <2>2, ClaimIsLast DEF BindingInv
    <3> QED
      BY <2>5, <3>1
  <2> QED
    BY <2>1, <2>2, <2>5, <2>6 DEF Sound, Speaks
<1> QED
  BY <1>1, <1>2, <1>3

\* What the worker makes durable is sound, whatever it knows of the task.
LEMMA DurableIsSound ==
    ASSUME BindingInv, BindingAssumption, NEW p \in Producers, NEW t \in Tasks, NEW c \in Claims,
           doing[p] # "read", Durable(p, t, c, TRUE)
    PROVE  Sound(p)
<1>1. CASE BindingState(p, t) = "absent"
  BY <1>1, PublishIsSound DEF Durable
<1>2. CASE BindingState(p, t) # "absent"
  <2>1. Silent /\ UNCHANGED lock
    BY <1>2 DEF Durable, disk, Silent
  <2>2. CASE Record(p, t, c, FALSE)
    BY <2>1, <2>2, IntentIsSound
  <2>3. CASE UNCHANGED index
    BY <2>1, <2>3, NothingIsSound
  <2> QED
    BY <1>2, <2>2, <2>3 DEF Durable
<1> QED
  BY <1>1, <1>2

-----------------------------------------------------------------------------
(* The binder *)

\* The trace of a root is a trace, or none.
LEMMA RootTraceIsTrace ==
    ASSUME BindingAssumption, NEW p \in Producers, NEW t \in Tasks
    PROVE  RootTrace(p, t) \in Traces \cup {None}
<1> DEFINE a == IF TokenOf[t] = None THEN BoardTrace[p] ELSE TraceOf[TokenOf[t]]
<1>1. a \in Traces
  <2>1. TokenOf[t] \in Tokens \cup {None}
    BY DEF BindingAssumption
  <2>2. TokenOf[t] # None => TraceOf[TokenOf[t]] \in Traces
    BY <2>1 DEF Traces
  <2>3. BoardTrace[p] \in Traces
    BY DEF BindingAssumption
  <2> QED
    BY <2>2, <2>3
<1>2. RootTrace(p, t) \in {a, None}
  BY DEF RootTrace
<1> QED
  BY <1>1, <1>2

\* The trace of the parents is a trace, or none.
LEMMA ParentTraceIsTrace ==
    ASSUME BoundTypes, BindingAssumption, NEW p \in Producers, NEW t \in Tasks
    PROVE  ParentTrace(p, t) \in Traces \cup {None}
<1> DEFINE traces == {bound[p][q] : q \in Parents[t]} \ {None}
<1>1. traces \subseteq Traces
  BY DEF BoundTypes, BindingAssumption
<1>2. CASE traces = {}
  <2>1. ASSUME NEW S, S = {} PROVE Cardinality(S) # 1
    BY <2>1, FS_EmptySet
  <2>2. Cardinality(traces) # 1
    BY <1>2, <2>1
  <2> QED
    BY <2>2 DEF ParentTrace
<1>3. CASE traces # {}
  <2>1. (CHOOSE a \in traces : TRUE) \in traces
    BY <1>3
  <2>2. ParentTrace(p, t) \in {CHOOSE a \in traces : TRUE, None}
    BY DEF ParentTrace
  <2> QED
    BY <1>1, <2>1, <2>2
<1> QED
  BY <1>2, <1>3

\* What is bound stays bound to traces: a root, and a child.
LEMMA BindingsAreTraces ==
    ASSUME BoundTypes, BindingAssumption, NEW p \in Producers, NEW t \in Tasks,
           BindRoot(p, t) \/ Inherit(p, t)
    PROVE  BoundTypes'
<1>1. RootTrace(p, t) \in Traces \cup {None} /\ ParentTrace(p, t) \in Traces \cup {None}
  BY RootTraceIsTrace, ParentTraceIsTrace
<1>2. ASSUME NEW a \in Traces \cup {None} PROVE [bound EXCEPT ![p][t] = a] \in [Producers -> [Tasks -> Traces \cup {None}]]
  <2>1. [bound EXCEPT ![p][t] = a] = [bound EXCEPT ![p] = [bound[p] EXCEPT ![t] = a]]
    BY DEF BoundTypes
  <2>2. [bound[p] EXCEPT ![t] = a] \in [Tasks -> Traces \cup {None}]
    BY DEF BoundTypes
  <2> QED
    BY <2>1, <2>2 DEF BoundTypes
<1>3. CASE bound' = bound
  BY <1>3 DEF BoundTypes
<1>4. CASE bound' = [bound EXCEPT ![p][t] = RootTrace(p, t)]
  BY <1>1, <1>2, <1>4 DEF BoundTypes
<1>5. CASE bound' = [bound EXCEPT ![p][t] = ParentTrace(p, t)]
  BY <1>1, <1>2, <1>5 DEF BoundTypes
<1>6. bound' = bound \/ bound' = [bound EXCEPT ![p][t] = RootTrace(p, t)]
      \/ bound' = [bound EXCEPT ![p][t] = ParentTrace(p, t)]
  BY DEF BindRoot, Inherit
<1> QED
  BY <1>3, <1>4, <1>5, <1>6

\* What is restored from the claims, too.
LEMMA RestoredAreTraces ==
    ASSUME BindingInv, NEW p \in Producers, Restore(p)
    PROVE  BoundTypes'
<1> DEFINE claimed == IF state[p] = "validated" THEN {t \in Tasks : Resolved(seen[p], t) # None} ELSE {}
           back == IF restored[p] THEN claimed \cap {LaunchTask[p]} ELSE claimed
           row == [t \in Tasks |-> IF t \in back THEN Resolved(seen[p], t).trace ELSE bound[p][t]]
<1>1. seen[p] \in Nat /\ seen[p] <= Len(log)
  BY DEF BindingInv, IndexTypes, Knows, Refreshed
<1>2. ASSUME NEW t \in Tasks, t \in back PROVE Resolved(seen[p], t).trace \in Traces
  <2>1. Resolved(seen[p], t) # None
    BY <1>2
  <2>2. Resolved(seen[p], t) \in Claims
    BY <1>1, <2>1, ResolvedIsClaim DEF BindingInv
  <2> QED
    BY <2>2 DEF Claims
<1>3. row \in [Tasks -> Traces \cup {None}]
  BY <1>2 DEF BindingInv, BoundTypes
<1>4. bound' = [bound EXCEPT ![p] = row]
  BY DEF Restore
<1> QED
  BY <1>3, <1>4 DEF BindingInv, BoundTypes

-----------------------------------------------------------------------------
(* The steps *)

\* A step of p that leaves it knowing what it must leaves everybody so.
LEMMA StepKeeps ==
    ASSUME BindingInv, BindingAssumption, NEW p \in Producers, Speaks(p), Aside(p),
           lock' = lock \/ lock \in {None, p},
           IndexTypes', BoundTypes', WorkerTypes', Knows(p)'
    PROVE  BindingInv'
<1>1. LogTypes' /\ EpochsPast' /\ OneClaim'
  BY JournalsStayWhole
<1>2. ASSUME NEW q \in Producers PROVE Knows(q)'
  <2>1. CASE q = p
    BY <2>1
  <2>2. CASE q # p
    BY <2>2, OthersKnow
  <2> QED
    BY <2>1, <2>2
<1> QED
  BY <1>1, <1>2 DEF BindingInv

\* The segments are enumerated.
LEMMA StatKeeps ==
    ASSUME BindingInv, BindingAssumption, NEW p \in Producers, Stat(p)
    PROVE  BindingInv'
<1> USE DEF BindingInv
<1>1. /\ doing[p] = "idle" /\ Silent /\ lock' = lock
      /\ seen' = seen /\ pending' = pending /\ conflicted' = conflicted /\ state' = state
      /\ bound' = bound /\ ready' = ready
      /\ \/ doing' = [doing EXCEPT ![p] = "flush"] /\ sig' = sig
         \/ doing' = [doing EXCEPT ![p] = "read"] /\ sig' = [sig EXCEPT ![p] = Len(log)]
  BY DEF Stat, disk, binder, Silent
<1>2. Speaks(p) /\ Claimed(p) /\ Grows(p)
  BY <1>1, NothingClaimed DEF Speaks, Silent, Grows, Tracked, Kept
<1>3. Len(log) \in Nat /\ seen[p] <= Len(log)
  BY DEF LogTypes, Knows, Refreshed
<1>4. IndexTypes' /\ BoundTypes' /\ WorkerTypes' /\ Aside(p)
  <2>1. sig' \in [Producers -> Nat]
    BY <1>1, <1>3 DEF IndexTypes
  <2>2. IndexTypes' /\ BoundTypes'
    BY <1>1, <2>1 DEF IndexTypes, BoundTypes
  <2>3. WorkerTypes'
    BY <1>1 DEF WorkerTypes, BindingSteps
  <2>4. \A q \in Producers \ {p} : doing'[q] = doing[q] /\ sig'[q] = sig[q]
    BY <1>1 DEF IndexTypes, WorkerTypes
  <2> QED
    BY <1>1, <2>2, <2>3, <2>4 DEF Aside
<1>5. doing'[p] \in {"flush", "read"}
  BY <1>1 DEF WorkerTypes
<1>6. ASSUME sig' = sig PROVE Knows(p)'
  BY <1>1, <1>2, <1>5, <1>6, StillKnows
<1>7. ASSUME sig' = [sig EXCEPT ![p] = Len(log)], doing' = [doing EXCEPT ![p] = "read"]
      PROVE  Knows(p)'
  <2>1. Refreshed(p)'
    BY <1>1, <1>3, <1>7 DEF Refreshed, Silent, IndexTypes, WorkerTypes
  <2>2. Remembers(p)'
    BY <1>1, <1>2, StillRemembers
  <2>3. Unsaid(p)' /\ Alone(p)'
    BY <1>5 DEF Unsaid, Alone
  <2> QED
    BY <2>1, <2>2, <2>3 DEF Knows
<1>8. Knows(p)'
  BY <1>1, <1>6, <1>7
<1> QED
  BY <1>1, <1>2, <1>4, <1>8, StepKeeps

\* What a refresh reads, it keeps in the form of the index.
LEMMA AggregateTypes ==
    ASSUME BindingInv, NEW p \in Producers, NEW s, Aggregate(p, s), UNCHANGED sig
    PROVE  /\ IndexTypes' /\ seen'[p] = Len(log)
           /\ \A q \in Producers \ {p} : seen'[q] = seen[q] /\ pending'[q] = pending[q]
                                          /\ conflicted'[q] = conflicted[q]
<1> DEFINE n == Len(log)
           Rested(t) == Rows(n, t) # {} /\ pending[p][t] # None
           left == [t \in Tasks |-> IF Rested(t) THEN None ELSE pending[p][t]]
           torn == {t \in Tasks : Rows(n, t) # {} /\ (Resolved(n, t) = None
                            \/ (Rested(t) /\ Resolved(n, t) # pending[p][t].claim))}
<1>1. /\ seen' = [seen EXCEPT ![p] = n] /\ state' = [state EXCEPT ![p] = s]
      /\ pending' = [pending EXCEPT ![p] = left]
      /\ conflicted' = [conflicted EXCEPT ![p] = torn]
  BY DEF Aggregate
<1>2. left \in [Tasks -> Intents \cup {None}] /\ torn \in SUBSET Tasks /\ n \in Nat
  BY DEF BindingInv, IndexTypes, LogTypes
<1> HIDE DEF n, left, torn
<1>3. IndexTypes'
  BY <1>1, <1>2 DEF BindingInv, IndexTypes
<1>4. seen'[p] = n /\ \A q \in Producers \ {p} : seen'[q] = seen[q] /\ pending'[q] = pending[q]
                                                  /\ conflicted'[q] = conflicted[q]
  BY <1>1 DEF BindingInv, IndexTypes
<1> QED
  BY <1>3, <1>4 DEF n

\* The segments are read.
LEMMA ReadKeeps ==
    ASSUME BindingInv, BindingAssumption, NEW p \in Producers, Read(p)
    PROVE  BindingInv'
<1> USE DEF BindingInv
<1>1. /\ Silent /\ lock' = lock /\ sig' = sig /\ bound' = bound /\ ready' = ready
      /\ doing' = [doing EXCEPT ![p] = "flush"]
  BY DEF Read, disk, binder, Silent
<1>2. PICK s : Aggregate(p, s)
  BY DEF Read
<1>3. /\ IndexTypes' /\ seen'[p] = Len(log)
      /\ \A q \in Producers \ {p} : seen'[q] = seen[q] /\ pending'[q] = pending[q]
                                     /\ conflicted'[q] = conflicted[q]
  BY <1>1, <1>2, AggregateTypes
<1>4. BoundTypes' /\ WorkerTypes' /\ Aside(p) /\ Speaks(p)
  BY <1>1, <1>3 DEF BoundTypes, WorkerTypes, Aside, BindingSteps, Speaks
<1>5. Knows(p)'
  <2>1. Len(log) \in Nat /\ Len(log') = Len(log) /\ sig'[p] <= Len(log)
    BY <1>1 DEF LogTypes, Silent, Knows, Refreshed
  <2>2. Refreshed(p)' /\ Remembers(p)'
    BY <1>3, <2>1 DEF Refreshed, Remembers
  <2>3. Unsaid(p)' /\ Alone(p)'
    BY <1>1 DEF Unsaid, Alone, WorkerTypes
  <2> QED
    BY <2>2, <2>3 DEF Knows
<1> QED
  BY <1>1, <1>3, <1>4, <1>5, StepKeeps

\* A sound step of the worker that leaves it outside of publishing
LEMMA SoundKeeps ==
    ASSUME BindingInv, BindingAssumption, NEW p \in Producers, Sound(p), doing[p] # "read",
           doing'[p] \notin {"lock", "emit"}, BoundTypes', WorkerTypes',
           \A q \in Producers \ {p} : doing'[q] = doing[q] /\ ready'[q] = ready[q]
    PROVE  BindingInv'
<1>1. Aside(p)
  BY DEF Sound, Aside
<1>2. Knows(p)'
  BY StillKnows DEF Sound
<1> QED
  BY <1>1, <1>2, StepKeeps DEF Sound

\* The worker binds a root of the board.
LEMMA WorkerRootKeeps ==
    ASSUME BindingInv, BindingAssumption, NEW p \in Producers, NEW t \in Tasks, WorkerRoot(p, t)
    PROVE  BindingInv'
<1> USE DEF BindingInv
<1>1. /\ doing[p] = "board" /\ doing' = doing /\ BindRoot(p, t)
      /\ ready' = [ready EXCEPT ![p] = @ \cup {t}]
  BY DEF WorkerRoot
<1>2. Sound(p)
  <2>1. CASE bound[p][t] = None /\ RootTrace(p, t) # None
    <3>1. Durable(p, t, Claim(RootTrace(p, t), "root"), TRUE)
      BY <2>1 DEF WorkerRoot
    <3>2. Claim(RootTrace(p, t), "root") \in Claims
      BY <2>1, RootTraceIsTrace DEF Claim, Claims, Relations
    <3> QED
      BY <1>1, <3>1, <3>2, DurableIsSound
  <2>2. CASE UNCHANGED Unbound
    BY <2>2, NothingIsSound DEF Unbound, Silent, disk
  <2> QED
    BY <2>1, <2>2 DEF WorkerRoot
<1>3. BoundTypes'
  BY <1>1, BindingsAreTraces
<1>4. WorkerTypes' /\ \A q \in Producers \ {p} : doing'[q] = doing[q] /\ ready'[q] = ready[q]
  BY <1>1 DEF WorkerTypes
<1> QED
  BY <1>1, <1>2, <1>3, <1>4, SoundKeeps

\* The worker binds a child of the board.
LEMMA WorkerInheritKeeps ==
    ASSUME BindingInv, BindingAssumption, NEW p \in Producers, NEW t \in Tasks, WorkerInherit(p, t)
    PROVE  BindingInv'
<1> USE DEF BindingInv
<1>1. /\ doing[p] = "board" /\ doing' = doing /\ ready' = ready /\ Inherit(p, t)
      /\ ParentTrace(p, t) # None /\ Durable(p, t, Claim(ParentTrace(p, t), "unknown"), TRUE)
  BY DEF WorkerInherit, Descends, worker
<1>2. Claim(ParentTrace(p, t), "unknown") \in Claims
  BY <1>1, ParentTraceIsTrace DEF Claim, Claims, Relations
<1>3. Sound(p)
  BY <1>1, <1>2, DurableIsSound
<1>4. BoundTypes'
  BY <1>1, BindingsAreTraces
<1>5. WorkerTypes'
  BY <1>1 DEF WorkerTypes
<1> QED
  BY <1>1, <1>3, <1>4, <1>5, SoundKeeps

\* The round ends, or the journals cannot be enumerated.
LEMMA RoundEndsKeeps ==
    ASSUME BindingInv, BindingAssumption, NEW p \in Producers, RoundEnds(p) \/ Unavailable(p)
    PROVE  BindingInv'
<1> USE DEF BindingInv
<1>1. /\ Silent /\ lock' = lock /\ bound' = bound /\ doing[p] # "read"
      /\ sig' = sig /\ seen' = seen /\ pending' = pending /\ conflicted' = conflicted
      /\ state' = state \/ state' = [state EXCEPT ![p] = "unavailable"]
      /\ doing' = [doing EXCEPT ![p] = "idle"] \/ doing' = [doing EXCEPT ![p] = "flush"]
      /\ ready' = ready \/ ready' = [ready EXCEPT ![p] = {}]
  BY DEF RoundEnds, Unavailable, disk, index, binder, Silent
<1>2. IndexTypes' /\ BoundTypes' /\ WorkerTypes' /\ Grows(p)
  BY <1>1 DEF IndexTypes, BoundTypes, WorkerTypes, BindingSteps, Grows, Tracked, Kept
<1>3. Claimed(p) /\ Speaks(p)
  BY <1>1, NothingClaimed DEF Silent, Speaks
<1>4. Sound(p)
  BY <1>1, <1>2, <1>3 DEF Sound
<1>5. /\ doing'[p] \notin {"lock", "emit"}
      /\ \A q \in Producers \ {p} : doing'[q] = doing[q] /\ ready'[q] = ready[q]
  BY <1>1 DEF WorkerTypes
<1> QED
  BY <1>1, <1>2, <1>4, <1>5, SoundKeeps

\* A step in which the worker turns from publishing to the board
LEMMA RestoreKeeps ==
    ASSUME BindingInv, BindingAssumption, NEW p \in Producers, Restore(p), Silent, UNCHANGED index,
           doing[p] # "read", lock' = lock \/ lock \in {None, p},
           ready' = [q \in Producers |-> ready'[q]],
           \A q \in Producers \ {p} : ready'[q] = ready[q]
    PROVE  BindingInv'
<1> USE DEF BindingInv
<1>1. /\ sig' = sig /\ seen' = seen /\ pending' = pending /\ conflicted' = conflicted /\ state' = state
      /\ doing' = [doing EXCEPT ![p] = "board"]
  BY DEF index, Restore
<1>2. BoundTypes'
  BY RestoredAreTraces
<1>3. IndexTypes' /\ WorkerTypes' /\ Grows(p) /\ Speaks(p) /\ Aside(p)
  BY <1>1 DEF IndexTypes, WorkerTypes, BindingSteps, Grows, Tracked, Kept, Speaks, Aside
<1>4. Claimed(p)
  BY NothingClaimed DEF Silent
<1>5. doing'[p] = "board"
  BY <1>1 DEF WorkerTypes
<1>6. Knows(p)'
  BY <1>1, <1>3, <1>4, <1>5, StillKnows
<1> QED
  BY <1>2, <1>3, <1>6, StepKeeps

\* What is collected is unsaid: the snapshot has no row of it, and the process has not published
\* anything about it since.
LEMMA CollectKeeps ==
    ASSUME BindingInv, BindingAssumption, NEW p \in Producers, Collect(p)
    PROVE  BindingInv'
<1> USE DEF BindingInv
<1> DEFINE events == {t \in Tasks : /\ state[p] = "validated" /\ pending[p][t] # None
                                    /\ ~pending[p][t].emitted
                                    /\ Rows(seen[p], t) = {} /\ t \notin conflicted[p]}
           found == {[task |-> t, claim |-> pending[p][t].claim] : t \in events}
<1>1. /\ doing[p] = "flush" /\ Silent /\ lock' = lock /\ UNCHANGED index
      /\ ready' = [ready EXCEPT ![p] = found]
      /\ \/ Restore(p)
         \/ doing' = [doing EXCEPT ![p] = "lock"] /\ UNCHANGED binder
  BY DEF Collect, disk, Silent
<1>2. ready' = [q \in Producers |-> ready'[q]] /\ ready'[p] = found
      /\ \A q \in Producers \ {p} : ready'[q] = ready[q]
  BY <1>1 DEF WorkerTypes
<1>3. CASE Restore(p)
  BY <1>1, <1>2, <1>3, RestoreKeeps
<1>4. CASE doing' = [doing EXCEPT ![p] = "lock"] /\ UNCHANGED binder
  <2>1. /\ sig' = sig /\ seen' = seen /\ pending' = pending /\ conflicted' = conflicted /\ state' = state
        /\ bound' = bound
    BY <1>1, <1>4 DEF index, binder
  <2>2. IndexTypes' /\ BoundTypes' /\ WorkerTypes' /\ Grows(p) /\ Speaks(p) /\ Aside(p)
    BY <1>1, <1>2, <1>4, <2>1
       DEF IndexTypes, BoundTypes, WorkerTypes, BindingSteps, Grows, Tracked, Kept, Speaks, Aside
  <2>3. doing'[p] = "lock"
    BY <1>4 DEF WorkerTypes
  <2>4. Claimed(p)
    BY <1>1, NothingClaimed DEF Silent
  <2>5. Remembers(p)' /\ Alone(p)'
    BY <2>1, <2>2, <2>3, <2>4, StillRemembers DEF Alone
  <2>6. Refreshed(p)'
    BY <1>1, <2>1 DEF Refreshed, Knows, Silent
  <2>7. ASSUME NEW t \in events
        PROVE  [task |-> t, claim |-> pending[p][t].claim] \in Publishable
    <3>1. pending[p][t] \in Intents
      BY DEF IndexTypes
    <3> QED
      BY <3>1 DEF Publishable, Intents
  <2>8. ASSUME NEW t \in events, NEW i \in 1 .. Len(log), log[i].task = t
        PROVE  i > seen[p] /\ log[i].by # Own(p)
    <3>1. seen[p] \in Nat /\ Len(log) \in Nat
      BY DEF IndexTypes, LogTypes
    <3>2. ~(i <= seen[p])
      <4>1. i \in Nat \ {0}
        BY <3>1
      <4>2. Rows(seen[p], t) = {}
        OBVIOUS
      <4>3. log[i].task = t
        BY <2>8
      <4> HIDE DEF events
      <4> QED
        BY <3>1, <4>1, <4>2, <4>3, PastRows
    <3>3. i \in seen[p] + 1 .. Len(log) /\ ~Tracked(p, t)
      BY <3>1, <3>2 DEF Tracked
    <3>4. log[i].by # Own(p)
      BY <2>8, <3>3 DEF Knows, Remembers
    <3> QED
      BY <3>1, <3>2, <3>4
  <2>9. Unsaid(p)'
    <3>1. \A r \in found : r.task \in events /\ r = [task |-> r.task, claim |-> pending[p][r.task].claim]
      OBVIOUS
    <3>2. found \subseteq Publishable
      BY <2>7
    <3>3. \A r, s \in found : r.task = s.task => r = s
      BY <3>1
    <3>4. \A r \in found : (Kept(p, r.task))'
      BY <2>1, <3>1 DEF Kept
    <3>5. \A r \in found : \A i \in 1 .. Len(log) : log[i].task = r.task => i > seen[p] /\ log[i].by # Own(p)
      BY <2>8, <3>1
    <3>6. log' = log /\ Own(p)' = Own(p) /\ seen' = seen
      BY <1>1, <2>1 DEF Silent, Own
    <3> HIDE DEF found, events
    <3> QED
      BY <1>2, <2>3, <3>2, <3>3, <3>4, <3>5, <3>6 DEF Unsaid
  <2> QED
    BY <1>1, <2>2, <2>5, <2>6, <2>9, StepKeeps DEF Knows
<1> QED
  BY <1>1, <1>3, <1>4

\* With the lock, and a snapshot that no other process has outdated, what was collected is unsaid
\* everywhere.
LEMMA LockKeeps ==
    ASSUME BindingInv, BindingAssumption, NEW p \in Producers, Lock(p)
    PROVE  BindingInv'
<1> USE DEF BindingInv
<1>1. doing[p] = "lock" /\ lock = None /\ Silent /\ UNCHANGED index
  BY DEF Lock, disk, Silent
<1>2. CASE Covers(p)
  <2>1. /\ lock' = p /\ doing' = [doing EXCEPT ![p] = "emit"] /\ ready' = ready
        /\ sig' = sig /\ seen' = seen /\ pending' = pending /\ conflicted' = conflicted /\ state' = state
        /\ bound' = bound
    BY <1>1, <1>2 DEF Lock, index, binder
  <2>2. IndexTypes' /\ BoundTypes' /\ WorkerTypes' /\ Grows(p) /\ Speaks(p) /\ Aside(p)
    BY <1>1, <2>1 DEF IndexTypes, BoundTypes, WorkerTypes, BindingSteps, Grows, Tracked, Kept, Speaks, Aside
  <2>3. doing'[p] = "emit"
    BY <2>1 DEF WorkerTypes
  <2>4. Claimed(p)
    BY <1>1, NothingClaimed DEF Silent
  <2>5. Remembers(p)'
    BY <2>1, <2>2, <2>4, StillRemembers
  <2>6. Refreshed(p)'
    BY <1>1, <2>1 DEF Refreshed, Knows, Silent
  <2>7. Unsaid(p)'
    BY <1>1, <2>1, <2>3 DEF Unsaid, Knows, Kept
  <2>8. ASSUME NEW r \in ready[p], NEW i \in 1 .. Len(log), log[i].task = r.task PROVE FALSE
    <3>1. i > seen[p] /\ log[i].by # Own(p)
      BY <1>1, <2>8 DEF Knows, Unsaid
    <3>2. sig[p] <= seen[p] /\ sig[p] \in Nat /\ seen[p] \in Nat /\ Len(log) \in Nat
      BY <1>1 DEF Knows, Refreshed, IndexTypes, LogTypes
    <3>3. i \in sig[p] + 1 .. Len(log)
      BY <3>1, <3>2
    <3> QED
      BY <1>2, <3>1, <3>3 DEF Covers
  <2>9. Alone(p)'
    BY <1>1, <2>1, <2>8 DEF Alone, Silent
  <2> QED
    BY <1>1, <2>2, <2>5, <2>6, <2>7, <2>9, StepKeeps DEF Knows
<1>3. CASE ~Covers(p)
  <2>1. ready' = [ready EXCEPT ![p] = {}] /\ Restore(p) /\ lock' = lock
    BY <1>3 DEF Lock
  <2>2. ready' = [q \in Producers |-> ready'[q]] /\ \A q \in Producers \ {p} : ready'[q] = ready[q]
    BY <2>1 DEF WorkerTypes
  <2> QED
    BY <1>1, <2>1, <2>2, RestoreKeeps
<1> QED
  BY <1>2, <1>3

\* The lock is given back.
LEMMA UnlockKeeps ==
    ASSUME BindingInv, BindingAssumption, NEW p \in Producers, Unlock(p)
    PROVE  BindingInv'
<1>1. doing[p] = "emit" /\ Silent /\ UNCHANGED index /\ ready' = ready /\ Restore(p)
  BY DEF Unlock, disk, Silent
<1>2. lock = p
  BY <1>1 DEF BindingInv, Knows, Alone
<1> QED
  BY <1>1, <1>2, RestoreKeeps DEF BindingInv, WorkerTypes

\* What is emitted is the first claim for its task, and is remembered as published.
LEMMA EmitKeeps ==
    ASSUME BindingInv, BindingAssumption, NEW p \in Producers, NEW r \in ready[p], Emit(p, r)
    PROVE  BindingInv'
<1> USE DEF BindingInv
<1>1. /\ doing[p] = "emit" /\ ready' = [ready EXCEPT ![p] = ready[p] \ {r}]
      /\ lock' = lock /\ sig' = sig /\ seen' = seen /\ state' = state /\ conflicted' = conflicted
      /\ bound' = bound /\ doing' = doing
  BY DEF Emit, binder
<1>2. /\ lock = p /\ \A s \in ready[p] : \A i \in 1 .. Len(log) : log[i].task # s.task
  BY <1>1 DEF Knows, Alone
<1>3. /\ ready[p] \subseteq Publishable
      /\ \A s, u \in ready[p] : s.task = u.task => s = u
      /\ \A s \in ready[p] : Kept(p, s.task)
  BY <1>1 DEF Knows, Unsaid
<1>4. r.task \in Tasks /\ r.claim \in Claims
  BY <1>3 DEF Publishable
<1>5. ready'[p] = ready[p] \ {r} /\ WorkerTypes' /\ BoundTypes'
      /\ \A q \in Producers \ {p} : ready'[q] = ready[q]
  BY <1>1 DEF WorkerTypes, BoundTypes
<1> DEFINE old == pending[p][r.task]
           marked == IF old = None THEN None ELSE [old EXCEPT !.emitted = TRUE]
<1>6. CASE Append1(p, r.task, r.claim) /\ pending' = Marked(p, r.task) /\ epoch' = epoch
  <2>1. pending' = [pending EXCEPT ![p] = [pending[p] EXCEPT ![r.task] = marked]]
    BY <1>4, <1>6 DEF Marked, IndexTypes
  <2>2. old \in Intents \cup {None}
    BY <1>4 DEF IndexTypes
  <2>3. old # None => marked \in Intents /\ marked.emitted
    BY <2>2 DEF Intents
  <2>4. old # None => marked # None
    BY <2>3 DEF BindingAssumption
  <2>5. marked \in Intents \cup {None}
    BY <2>3
  <2> HIDE DEF marked
  <2>6. pending'[p][r.task] = marked /\ \A t \in Tasks \ {r.task} : pending'[p][t] = pending[p][t]
    BY <1>4, <2>1 DEF IndexTypes
  <2>7. IndexTypes' /\ \A q \in Producers \ {p} : pending'[q] = pending[q]
    BY <1>1, <2>1, <2>5, <1>4 DEF IndexTypes
  <2>8. Kept(p, r.task)
    BY <1>3
  <2>9. Tracked(p, r.task)'
    BY <1>1, <1>4, <2>3, <2>4, <2>6, <2>8 DEF Tracked, Kept
  <2>10. ASSUME NEW t \in Tasks \ {r.task}
         PROVE  (Tracked(p, t) => Tracked(p, t)') /\ (Kept(p, t) => Kept(p, t)')
    BY <1>1, <2>6 DEF Tracked, Kept
  <2>11. Kept(p, r.task)'
    BY <1>1, <1>4, <2>4, <2>6, <2>8 DEF Kept
  <2>12. Grows(p)
    <3> SUFFICES ASSUME NEW t \in Tasks PROVE (Tracked(p, t) => Tracked(p, t)') /\ (Kept(p, t) => Kept(p, t)')
      BY DEF Grows
    <3>1. CASE t = r.task
      BY <2>9, <2>11, <3>1 DEF Tracked, Kept
    <3>2. CASE t # r.task
      BY <2>10, <3>2
    <3> QED
      BY <3>1, <3>2
  <2>13. Claiming(p, r.task, r.claim) /\ Aside(p)
    BY <1>1, <1>2, <1>4, <1>5, <1>6, <2>7 DEF Claiming, Aside
  <2>14. Speaks(p)
    BY <1>4, <2>13 DEF Speaks
  <2>15. Claimed(p)
    <3> SUFFICES ASSUME NEW u \in Tasks, NEW d \in Claims, Claiming(p, u, d) PROVE Tracked(p, u)'
      BY DEF Claimed
    <3>1. log'[Len(log) + 1].task = u
      BY ClaimIsLast
    <3>2. log'[Len(log) + 1].task = r.task
      BY <1>4, <2>13, ClaimIsLast
    <3>3. u = r.task
      BY <3>1, <3>2
    <3> QED
      BY <2>9, <3>3 DEF Tracked
  <2>16. Remembers(p)'
    BY <1>1, <2>12, <2>14, <2>15, StillRemembers
  <2>17. Refreshed(p)'
    <3>1. Len(log) \in Nat /\ Len(log') \in Nat /\ Len(log) <= Len(log')
      BY <2>14, JournalsGrow
    <3> QED
      BY <1>1, <3>1 DEF Refreshed, Knows, IndexTypes
  <2>18. Unsaid(p)'
    <3>1. ready'[p] \subseteq ready[p]
      BY <1>5
    <3>2. \A s \in ready'[p] : (Kept(p, s.task))'
      <4> SUFFICES ASSUME NEW t \in Tasks, Kept(p, t) PROVE Kept(p, t)'
        BY <1>3, <3>1 DEF Publishable, Kept
      <4> QED
        BY <2>12 DEF Grows
    <3> QED
      BY <1>1, <1>3, <3>1, <3>2 DEF Unsaid
  <2>19. Alone(p)'
    <3>1. /\ Len(log) \in Nat /\ Len(log') = Len(log) + 1
          /\ \A i \in 1 .. Len(log) : log'[i] = log[i]
          /\ log'[Len(log) + 1] = [by |-> Own(p), task |-> r.task, claim |-> r.claim]
      <4>1. r.task \in Tasks \cup {None} /\ r.claim \in Claims \cup {None}
        BY <1>4
      <4> QED
        BY <1>6, <4>1, Appended
    <3> SUFFICES ASSUME NEW s \in ready'[p], NEW i \in 1 .. Len(log') PROVE log'[i].task # s.task
      BY <1>1, <1>2 DEF Alone
    <3>2. s \in ready[p] /\ s # r /\ s.task # r.task
      BY <1>3, <1>5
    <3>3. CASE i \in 1 .. Len(log)
      BY <1>2, <3>1, <3>2, <3>3
    <3>4. CASE i = Len(log) + 1
      BY <3>1, <3>2, <3>4
    <3> QED
      BY <3>1, <3>3, <3>4
  <2> QED
    BY <1>1, <1>5, <2>7, <2>13, <2>14, <2>16, <2>17, <2>18, <2>19, StepKeeps DEF Knows
<1>7. CASE epoch' = [epoch EXCEPT ![p] = @ + 1] /\ UNCHANGED <<log, pending>>
  <2>1. IndexTypes' /\ Aside(p) /\ NewEpoch(p) /\ Speaks(p) /\ Grows(p)
    BY <1>1, <1>5, <1>7 DEF IndexTypes, Aside, NewEpoch, Speaks, Grows, Tracked, Kept
  <2>2. Claimed(p)
    BY <1>7, NothingClaimed
  <2>3. Remembers(p)'
    BY <1>1, <2>1, <2>2, StillRemembers
  <2>4. Refreshed(p)'
    BY <1>1, <1>7 DEF Refreshed, Knows
  <2>5. Unsaid(p)'
    BY <1>1, <1>3, <1>5, <1>7 DEF Unsaid, Kept
  <2>6. Alone(p)'
    BY <1>1, <1>2, <1>5, <1>7 DEF Alone
  <2> QED
    BY <1>1, <1>5, <2>1, <2>3, <2>4, <2>5, <2>6, StepKeeps DEF Knows
<1> QED
  BY <1>6, <1>7 DEF Emit

\* A hook, or any other event, while the worker is anywhere in its round: what the worker is about
\* to publish remains unsaid.
LEMMA AgentKeeps ==
    ASSUME BindingInv, BindingAssumption, NEW p \in Producers, Sound(p), Silent \/ Other(p),
           BoundTypes', UNCHANGED <<doing, ready>>
    PROVE  BindingInv'
<1> USE DEF BindingInv
<1>1. /\ Speaks(p) /\ IndexTypes' /\ Grows(p) /\ Claimed(p) /\ sig' = sig /\ seen' = seen /\ lock' = lock
      /\ doing' = doing /\ ready' = ready /\ epoch' = epoch
  BY DEF Sound, Silent, Other
<1>2. Aside(p) /\ WorkerTypes'
  BY <1>1 DEF Sound, Aside, WorkerTypes
<1>3. Remembers(p)'
  BY <1>1, StillRemembers
<1>4. Refreshed(p)'
  <2>1. Len(log) \in Nat /\ Len(log') \in Nat /\ Len(log) <= Len(log')
    BY <1>1, JournalsGrow
  <2> QED
    BY <1>1, <2>1 DEF Refreshed, Knows, IndexTypes
<1>5. ASSUME NEW i \in 1 .. Len(log') PROVE (i \in 1 .. Len(log) /\ log'[i] = log[i]) \/ log'[i].task = None
  <2>1. CASE Silent
    BY <2>1, <1>5 DEF Silent
  <2>2. CASE Other(p)
    <3>1. None \in Tasks \cup {None} /\ None \in Claims \cup {None} /\ Append1(p, None, None)
      BY <2>2 DEF Other
    <3>2. /\ Len(log) \in Nat /\ Len(log') = Len(log) + 1
          /\ \A j \in 1 .. Len(log) : log'[j] = log[j]
          /\ log'[Len(log) + 1] = [by |-> Own(p), task |-> None, claim |-> None]
      BY <3>1, Appended
    <3> QED
      BY <3>2, <1>5
  <2> QED
    BY <2>1, <2>2
<1>6. doing[p] \in {"lock", "emit"} => \A r \in ready[p] : r.task \in Tasks /\ r.task # None
  BY DEF Knows, Unsaid, Publishable, BindingAssumption
<1>7. Unsaid(p)'
  <2> SUFFICES ASSUME doing[p] \in {"lock", "emit"} PROVE Unsaid(p)'
    BY <1>1 DEF Unsaid
  <2>1. /\ ready[p] \subseteq Publishable
        /\ \A r, s \in ready[p] : r.task = s.task => r = s
        /\ \A r \in ready[p] : Kept(p, r.task)
        /\ doing[p] = "lock" => \A r \in ready[p] : \A i \in 1 .. Len(log) :
                                   log[i].task = r.task => i > seen[p] /\ log[i].by # Own(p)
    BY DEF Knows, Unsaid
  <2>2. \A t \in Tasks : Kept(p, t) => Kept(p, t)'
    BY <1>1 DEF Grows
  <2>3. \A r \in ready[p] : (Kept(p, r.task))'
    <3> SUFFICES ASSUME NEW t \in Tasks, Kept(p, t) PROVE Kept(p, t)'
      BY <1>6, <2>1 DEF Kept
    <3> QED
      BY <2>2
  <2>4. ASSUME doing[p] = "lock", NEW r \in ready[p], NEW i \in 1 .. Len(log'), log'[i].task = r.task
        PROVE  i > seen[p] /\ log'[i].by # Own(p)
    <3>1. i \in 1 .. Len(log) /\ log'[i] = log[i]
      BY <1>5, <1>6, <2>4
    <3> QED
      BY <2>1, <2>4, <3>1
  <2>5. Own(p)' = Own(p)
    BY <1>1 DEF Own
  <2> QED
    BY <1>1, <2>1, <2>3, <2>4, <2>5 DEF Unsaid
<1>8. Alone(p)'
  <2> SUFFICES ASSUME doing[p] = "emit" PROVE Alone(p)'
    BY <1>1 DEF Alone
  <2>1. lock = p /\ \A r \in ready[p] : \A i \in 1 .. Len(log) : log[i].task # r.task
    BY DEF Knows, Alone
  <2>2. \A r \in ready[p] : \A i \in 1 .. Len(log') : log'[i].task # r.task
    BY <1>5, <1>6, <2>1
  <2> QED
    BY <1>1, <2>1, <2>2 DEF Alone
<1> QED
  BY <1>1, <1>2, <1>3, <1>4, <1>7, <1>8, StepKeeps DEF Knows

\* The hook of a create call binds, and may leave an intent.
LEMMA HookKeeps ==
    ASSUME BindingInv, BindingAssumption, NEW p \in Producers, NEW t \in Tasks, Hook(p, t)
    PROVE  BindingInv'
<1> DEFINE a == IF Parents[t] # {} THEN ParentTrace(p, t) ELSE RootTrace(p, t)
           r == IF Parents[t] # {} THEN "unknown" ELSE "root"
<1>1. /\ Silent /\ lock' = lock /\ UNCHANGED <<doing, ready>>
      /\ BindRoot(p, t) \/ Inherit(p, t)
      /\ UNCHANGED index \/ (a # None /\ Record(p, t, Claim(a, r), FALSE))
  BY DEF Hook, Silent, worker
<1>2. BoundTypes'
  BY <1>1, BindingsAreTraces DEF BindingInv
<1>3. a \in Traces \cup {None}
  BY RootTraceIsTrace, ParentTraceIsTrace DEF BindingInv
<1>4. Sound(p)
  <2>1. CASE UNCHANGED index
    BY <1>1, <2>1, NothingIsSound
  <2>2. CASE a # None /\ Record(p, t, Claim(a, r), FALSE)
    <3>1. Claim(a, r) \in Claims
      BY <1>3, <2>2 DEF Claim, Claims, Relations
    <3> QED
      BY <1>1, <2>2, <3>1, IntentIsSound
  <2> QED
    BY <1>1, <2>1, <2>2
<1> QED
  BY <1>1, <1>2, <1>4, AgentKeeps

\* Any other event is about no task.
LEMMA NoiseKeeps ==
    ASSUME BindingInv, BindingAssumption, NEW p \in Producers, Noise(p)
    PROVE  BindingInv'
<1>1. /\ Other(p) /\ lock' = lock /\ UNCHANGED index /\ UNCHANGED <<doing, ready>> /\ bound' = bound
  BY DEF Noise, Other, worker, binder
<1>2. Sound(p) /\ BoundTypes'
  BY <1>1, NothingIsSound DEF BindingInv, BoundTypes
<1> QED
  BY <1>1, <1>2, AgentKeeps

\* A process that starts anew knows nothing, and has said nothing.
LEMMA CrashKeeps ==
    ASSUME BindingInv, BindingAssumption, NEW p \in Producers, Crash(p)
    PROVE  BindingInv'
<1> USE DEF BindingInv
<1> DEFINE fresh == [t \in Tasks |-> None]
<1>1. /\ NewEpoch(p)
      /\ lock' = (IF lock = p THEN None ELSE lock)
      /\ state' = [state EXCEPT ![p] = "unknown"]
      /\ sig' = [sig EXCEPT ![p] = 0] /\ seen' = [seen EXCEPT ![p] = 0]
      /\ pending' = [pending EXCEPT ![p] = fresh]
      /\ conflicted' = [conflicted EXCEPT ![p] = {}]
      /\ bound' = [bound EXCEPT ![p] = fresh]
      /\ doing' = [doing EXCEPT ![p] = "idle"]
      /\ ready' = [ready EXCEPT ![p] = {}]
  BY DEF Crash, NewEpoch
<1>2. fresh \in [Tasks -> Intents \cup {None}] /\ fresh \in [Tasks -> Traces \cup {None}]
  OBVIOUS
<1> HIDE DEF fresh
<1>3. IndexTypes' /\ BoundTypes' /\ WorkerTypes'
  BY <1>1, <1>2 DEF IndexTypes, BoundTypes, WorkerTypes, BindingSteps
<1>4. Speaks(p) /\ Aside(p) /\ (lock' = lock \/ lock \in {None, p})
  BY <1>1 DEF Speaks, Aside, IndexTypes, WorkerTypes
<1>5. doing'[p] = "idle" /\ sig'[p] = 0 /\ seen'[p] = 0
  BY <1>1 DEF IndexTypes, WorkerTypes
<1>6. Len(log) \in Nat /\ log' = log /\ epoch[p] \in Nat /\ epoch'[p] = epoch[p] + 1
  BY <1>1 DEF NewEpoch, LogTypes
<1>7. Remembers(p)'
  <2>1. ASSUME NEW i \in 1 .. Len(log), log[i].by = <<p, epoch'[p]>> PROVE FALSE
    <3>1. log[i].by[2] <= epoch[log[i].by[1]]
      BY DEF EpochsPast
    <3>2. log[i].by[1] = p /\ log[i].by[2] = epoch'[p]
      BY <2>1
    <3> QED
      BY <1>6, <3>1, <3>2
  <2> QED
    BY <1>5, <1>6, <2>1 DEF Remembers, Own
<1>8. Refreshed(p)' /\ Unsaid(p)' /\ Alone(p)'
  BY <1>5, <1>6 DEF Refreshed, Unsaid, Alone
<1> QED
  BY <1>3, <1>4, <1>7, <1>8, StepKeeps DEF Knows

\* What the attribution does not look at
LEMMA BoardKeeps ==
    ASSUME BindingInv, UNCHANGED <<log, lock, epoch, index, bound, doing, ready>>
    PROVE  BindingInv'
<1>1. /\ log' = log /\ lock' = lock /\ epoch' = epoch /\ sig' = sig /\ seen' = seen /\ state' = state
      /\ pending' = pending /\ conflicted' = conflicted /\ bound' = bound /\ doing' = doing /\ ready' = ready
  BY DEF index
<1>2. LogTypes' /\ IndexTypes' /\ BoundTypes' /\ WorkerTypes' /\ EpochsPast' /\ OneClaim'
  BY <1>1 DEF BindingInv, LogTypes, IndexTypes, BoundTypes, WorkerTypes, EpochsPast, OneClaim
<1>3. ASSUME NEW p \in Producers PROVE Knows(p)'
  BY <1>1 DEF BindingInv, Knows, Refreshed, Remembers, Unsaid, Alone, Tracked, Kept, Own
<1> QED
  BY <1>2, <1>3 DEF BindingInv

-----------------------------------------------------------------------------
\* At first nothing is written, and nobody does anything.
LEMMA BindingStarts ==
    ASSUME BindingInit, BindingAssumption
    PROVE  BindingInv
<1> USE DEF BindingInit
<1>1. log = <<>> /\ Len(log) = 0 /\ log \in Seq(Entries)
  OBVIOUS
<1>2. LogTypes /\ EpochsPast /\ OneClaim
  BY <1>1 DEF LogTypes, EpochsPast, OneClaim
<1>3. IndexTypes
  <2>1. [t \in Tasks |-> None] \in [Tasks -> Intents \cup {None}]
    OBVIOUS
  <2> QED
    BY <2>1 DEF IndexTypes
<1>4. BoundTypes
  <2>1. [t \in Tasks |-> None] \in [Tasks -> Traces \cup {None}]
    OBVIOUS
  <2> QED
    BY <2>1 DEF BoundTypes
<1>5. WorkerTypes
  BY DEF WorkerTypes, BindingSteps
<1>6. ASSUME NEW p \in Producers PROVE Knows(p)
  BY <1>1 DEF Knows, Refreshed, Remembers, Unsaid, Alone
<1> QED
  BY <1>2, <1>3, <1>4, <1>5, <1>6 DEF BindingInv

\* Every step of the processes preserves what they know.
LEMMA BindingStep ==
    ASSUME BindingInv, BindingAssumption, [BindingNext]_bindingVars
    PROVE  BindingInv'
<1>1. ASSUME NEW p \in Producers, Round(p) PROVE BindingInv'
  BY <1>1, StatKeeps, ReadKeeps, CollectKeeps, LockKeeps, UnlockKeeps, EmitKeeps, RoundEndsKeeps,
     WorkerRootKeeps, WorkerInheritKeeps DEF Round
<1>2. ASSUME NEW p \in Producers, Unavailable(p) \/ Noise(p) \/ Crash(p) \/ \E t \in Tasks : Hook(p, t)
      PROVE  BindingInv'
  BY <1>2, RoundEndsKeeps, NoiseKeeps, CrashKeeps, HookKeeps
<1>3. ASSUME NEW t \in Tasks, Create(t) PROVE BindingInv'
  BY <1>3, BoardKeeps DEF Create, binder, worker
<1>4. CASE UNCHANGED bindingVars
  BY <1>4, BoardKeeps DEF bindingVars, disk, binder, worker
<1> QED
  BY <1>1, <1>2, <1>3, <1>4 DEF BindingNext

\* A set whose elements are all equal has one at most.
LEMMA AtMostOne ==
    ASSUME NEW S, \A x, y \in S : x = y
    PROVE  Cardinality(S) <= 1
<1>1. CASE S = {}
  BY <1>1, FS_EmptySet
<1>2. CASE S # {}
  <2>1. PICK x \in S : TRUE
    BY <1>2
  <2>2. S = {x}
    BY <2>1
  <2>3. Cardinality({x}) = 1
    BY FS_Singleton
  <2> QED
    BY <2>2, <2>3
<1> QED
  BY <1>1, <1>2

\* However hooks, workers and restarts of several processes interleave, the journals never hold two
\* claims for one task that contradict each other.
THEOREM TasksHaveOneAttribution == BindingSpec => []OneAttribution
<1>1. BindingInit => BindingInv
  BY BindingStarts, BindingAssumption
<1>2. BindingInv /\ [BindingNext]_bindingVars => BindingInv'
  BY BindingStep, BindingAssumption
<1>3. BindingInv => OneAttribution
  <2> SUFFICES ASSUME BindingInv, NEW t \in Tasks PROVE Cardinality(ClaimsOf(t)) <= 1
    BY DEF OneAttribution
  <2>1. \A i, j \in Rows(Len(log), t) : log[i].claim = log[j].claim
    BY DEF BindingInv, OneClaim, Rows
  <2>2. \A x, y \in ClaimsOf(t) : x = y
    BY <2>1 DEF ClaimsOf
  <2> QED
    BY <2>2, AtMostOne
<1> QED
  BY <1>1, <1>2, <1>3, PTL DEF BindingSpec

-----------------------------------------------------------------------------
(***************************************************************************)
(* Hooks.  A pending span whose start was accepted names the trace the     *)
(* start is in, and the traces that the process treats as opened or active *)
(* are opened by the journals.  Nothing is taken back from the journals,   *)
(* so it stays true whatever is refused, evicted or bound in between.      *)
(***************************************************************************)

HeldHasStarted == \A p \in held : p.event => p.trace # Nothing /\ Start(p.span, p.trace) \in out
KnownIsOpened == \A a \in known : Opened(a)

CaptureInv == HeldHasStarted /\ KnownIsOpened /\ TiedToItsTrace

\* A terminal and a denial rest on events accepted, and the settings of a request on a start that was emitted.
Rests(e, all, emitted) ==
    /\ e.kind = "end" => \A p \in e.of :
          p \in all /\ p.span = e.span /\ (p.trace = e.trace \/ KindOf[e.span] = "contract")
    /\ e.kind = "denied" => e.of # {} /\ e.of \subseteq all
    /\ e.kind = "settings" => e.of = {Start(e.span, e.trace)} /\ e.of \subseteq emitted

\* What is accepted leaves what was there.
LEMMA AcceptedStays ==
    ASSUME CaptureInv, NEW events, NEW accepted, Accepts(events, accepted),
           \A e \in accepted : Rests(e, out', out' \cup refused'),
           \A p \in held' : p.event => p.trace # Nothing /\ Start(p.span, p.trace) \in out',
           \A a \in known' \cup active' : a \in known \cup active \/ Opening(a) \in out'
    PROVE  CaptureInv'
<1>1. out' = out \cup accepted
  BY DEF Accepts
<1>2. HeldHasStarted'
  BY DEF HeldHasStarted
<1>3. KnownIsOpened' /\ ActiveIsOpened'
  BY <1>1 DEF CaptureInv, KnownIsOpened, TiedToItsTrace, ActiveIsOpened, Opened
<1>4. EndsWhereItBegan' /\ DenialHasEvidence'
  BY <1>1 DEF CaptureInv, TiedToItsTrace, EndsWhereItBegan, DenialHasEvidence, Rests
<1>5. SettingsNameTheStart'
  <2>1. refused \subseteq refused'
    BY DEF Accepts
  <2> QED
    BY <1>1, <2>1 DEF CaptureInv, TiedToItsTrace, SettingsNameTheStart, Rests, Start, Event
<1> QED
  BY <1>2, <1>3, <1>4, <1>5 DEF CaptureInv, TiedToItsTrace

\* The same where nothing was emitted.
LEMMA NothingAccepted ==
    ASSUME CaptureInv, out' = out, refused \subseteq refused',
           \A p \in held' : p.event => p.trace # Nothing /\ Start(p.span, p.trace) \in out',
           \A a \in known' \cup active' : a \in known \cup active \/ Opening(a) \in out'
    PROVE  CaptureInv'
BY DEF CaptureInv, HeldHasStarted, KnownIsOpened, TiedToItsTrace, ActiveIsOpened, Opened,
       EndsWhereItBegan, DenialHasEvidence, SettingsNameTheStart, Start, Event

\* The pending span that a terminal closes is one of those held, and the start it names is accepted.
LEMMA ParentHasStarted ==
    ASSUME CaptureInv, NEW s
    PROVE  /\ IsPending(s) => Of(s) \in held /\ Of(s).span = s
           /\ Parent(s) \subseteq out
           /\ \A e \in Parent(s) : e.span = s /\ e.trace = Of(s).trace /\ Of(s).trace # Nothing /\ IsPending(s)
<1>1. IsPending(s) => Of(s) \in held /\ Of(s).span = s
  BY DEF IsPending, Of
<1>2. ASSUME NEW e \in Parent(s)
      PROVE  /\ e \in out /\ e.span = s /\ e.trace = Of(s).trace
             /\ Of(s).trace # Nothing /\ IsPending(s)
  <2>1. IsPending(s) /\ Of(s).event /\ e = Start(s, Of(s).trace)
    BY DEF Parent
  <2>2. Of(s).trace # Nothing /\ Start(s, Of(s).trace) \in out
    BY <1>1, <2>1 DEF CaptureInv, HeldHasStarted
  <2> QED
    BY <2>1, <2>2 DEF Start, Event
<1> QED
  BY <1>1, <1>2

\* Starts and openings rest on nothing; a terminal in the trace of its span rests on its start.
LEMMA EventsRest ==
    /\ \A s, a, all, emitted : Rests(Start(s, a), all, emitted)
    /\ \A a, all, emitted : Rests(Opening(a), all, emitted)
    /\ \A s, a, all, emitted : Rests(Event("persisted", s, a, {}), all, emitted)
BY DEF Rests, Start, Opening, Event

\* A terminal rests on the start it names.
LEMMA TerminalRests ==
    ASSUME CaptureInv, NEW s, NEW a, NEW all, NEW emitted, out \subseteq all,
           KindOf[s] = "contract" \/ (IsPending(s) /\ Of(s).trace # Nothing => a = Of(s).trace)
    PROVE  Rests(Terminal(s, a, Parent(s)), all, emitted)
<1>1. ASSUME NEW e \in Parent(s) PROVE e \in all /\ e.span = s /\ (e.trace = a \/ KindOf[s] = "contract")
  BY ParentHasStarted
<1> QED
  BY <1>1 DEF Rests, Terminal, Event

\* A span that is dropped leaves the others as they were.
LEMMA DroppedHasStarted ==
    ASSUME CaptureInv, NEW s, Drop(s), out \subseteq out'
    PROVE  \A p \in held' : p.event => p.trace # Nothing /\ Start(p.span, p.trace) \in out'
BY DEF CaptureInv, HeldHasStarted, Drop

\* A span that is put keeps the others but one, and has started if it says so.
LEMMA PutHasStarted ==
    ASSUME CaptureInv, NEW s, NEW trace, NEW event, Put(s, trace, event), out \subseteq out',
           event => trace # Nothing /\ Start(s, trace) \in out'
    PROVE  \A p \in held' : p.event => p.trace # Nothing /\ Start(p.span, p.trace) \in out'
<1>1. \A p \in held' : p \in held
         \/ p = [span |-> s, trace |-> trace, event |-> event, at |-> Cardinality(Begun)]
  BY DEF Put
<1> QED
  BY <1>1 DEF CaptureInv, HeldHasStarted

-----------------------------------------------------------------------------
(* The hooks *)

\* What starts is held, and says so only if the journal has it; the settings emitted after it name it.
LEMMA PreKeeps ==
    ASSUME CaptureInv, NEW s \in Spans, Pre(s) \/ PreCreate(s)
    PROVE  CaptureInv'
<1> SUFFICES ASSUME NEW a, NEW trace, NEW further \in {{}, {Settings(s, a)}}, NEW accepted, NEW event,
                    active' = active, known' = known,
                    \/ out' = out /\ refused' = refused /\ Put(s, Nothing, FALSE)
                    \/ out' = out /\ refused' = refused /\ held' = held
                    \/ /\ Accepts({Start(s, a)} \cup further, accepted) /\ a # Nothing
                       /\ event => trace = a /\ Start(s, a) \in accepted
                       /\ accepted \subseteq {Start(s, a)} \cup further
                       /\ Put(s, trace, event)
             PROVE  CaptureInv'
  <2>1. CASE Pre(s)
    <3>1. CASE TraceFor(s) = Nothing
      BY <2>1, <3>1 DEF Pre
    <3>2. CASE TraceFor(s) # Nothing
      <4> DEFINE a == TraceFor(s)
      <4>0. PICK further \in Further(s, a) : \E accepted \in SUBSET ({Start(s, a)} \cup further) :
               LET started == Start(s, a) \in accepted
               IN /\ Accepts({Start(s, a)} \cup further, accepted)
                  /\ Put(s, IF started \/ KindOf[s] \in {"request", "approval"} THEN a ELSE Nothing, started)
        BY <2>1, <3>2 DEF Pre
      <4>1. PICK accepted \in SUBSET ({Start(s, a)} \cup further) :
               /\ Accepts({Start(s, a)} \cup further, accepted)
               /\ Put(s, IF Start(s, a) \in accepted \/ KindOf[s] \in {"request", "approval"} THEN a ELSE Nothing,
                      Start(s, a) \in accepted)
        BY <4>0
      <4>2. further \in {{}, {Settings(s, a)}}
        BY <4>0 DEF Further
      <4>3. active' = active /\ known' = known
        BY <2>1 DEF Pre
      <4> HIDE DEF a
      <4> QED
        BY <3>2, <4>1, <4>2, <4>3 DEF a
    <3> QED
      BY <3>1, <3>2
  <2>2. CASE PreCreate(s)
    <3>1. PICK a \in TraceIds \cup {Nothing} :
            IF a = Nothing THEN Put(s, Nothing, FALSE) /\ UNCHANGED <<out, refused>>
            ELSE \E accepted \in SUBSET {Start(s, a)} :
                    /\ Accepts({Start(s, a)}, accepted)
                    /\ Put(s, IF accepted # {} THEN a ELSE Nothing, accepted # {})
      BY <2>2 DEF PreCreate
    <3>2. active' = active /\ known' = known
      BY <2>2 DEF PreCreate
    <3>3. CASE a = Nothing
      BY <3>1, <3>2, <3>3
    <3>4. CASE a # Nothing
      <4>1. PICK accepted \in SUBSET {Start(s, a)} :
               /\ Accepts({Start(s, a)}, accepted)
               /\ Put(s, IF accepted # {} THEN a ELSE Nothing, accepted # {})
        BY <3>1, <3>4
      <4>2. {Start(s, a)} \cup {} = {Start(s, a)}
        OBVIOUS
      <4> QED
        BY <3>2, <3>4, <4>1, <4>2
    <3> QED
      BY <3>3, <3>4
  <2> QED
    BY <2>1, <2>2
<1>1. CASE out' = out /\ refused' = refused /\ Put(s, Nothing, FALSE)
  BY <1>1, PutHasStarted, NothingAccepted
<1>2. CASE out' = out /\ refused' = refused /\ held' = held
  BY <1>2, NothingAccepted DEF CaptureInv, HeldHasStarted
<1>3. CASE /\ Accepts({Start(s, a)} \cup further, accepted) /\ a # Nothing
           /\ event => trace = a /\ Start(s, a) \in accepted
           /\ accepted \subseteq {Start(s, a)} \cup further
           /\ Put(s, trace, event)
  <2>1. out' = out \cup accepted /\ refused' = refused \cup (({Start(s, a)} \cup further) \ accepted)
    BY <1>3 DEF Accepts
  <2>2. event => trace # Nothing /\ Start(s, trace) \in out'
    BY <1>3, <2>1
  <2>3. \A p \in held' : p.event => p.trace # Nothing /\ Start(p.span, p.trace) \in out'
    BY <1>3, <2>1, <2>2, PutHasStarted
  <2>4. Rests(Settings(s, a), out', out' \cup refused')
    <3>1. Start(s, a) \in out' \cup refused'
      BY <2>1
    <3> QED
      BY <3>1 DEF Rests, Settings, Start, Event
  <2>5. \A e \in accepted : e = Start(s, a) \/ e = Settings(s, a)
    BY <1>3
  <2>6. \A e \in accepted : Rests(e, out', out' \cup refused')
    BY <2>4, <2>5, EventsRest
  <2> QED
    BY <1>3, <2>3, <2>6, AcceptedStays
<1> QED
  BY <1>1, <1>2, <1>3

\* A terminal where the span says, or where it says nothing better
LEMMA WhereItBegan ==
    ASSUME NEW s, NEW otherwise
    PROVE  IsPending(s) /\ Of(s).trace # Nothing => Where(s, otherwise) = Of(s).trace
BY DEF Where

\* A terminal, and what rests on nothing or on it, may be accepted in part.
LEMMA TerminalKeeps ==
    ASSUME CaptureInv, NEW s, NEW events, NEW accepted, Accepts(events, accepted), Drop(s),
           \A e \in accepted : Rests(e, out', out' \cup refused'),
           \A a \in known' \cup active' : a \in known \cup active \/ Opening(a) \in out'
    PROVE  CaptureInv'
<1>1. out \subseteq out'
  BY DEF Accepts
<1> QED
  BY <1>1, DroppedHasStarted, AcceptedStays

\* A tool call or a request ends.
LEMMA PostKeeps ==
    ASSUME CaptureInv, NEW s \in Spans, Post(s)
    PROVE  CaptureInv'
<1> DEFINE a == Where(s, TraceFor(s))
<1>1. Drop(s) /\ active' = active /\ known' = known
  BY DEF Post, Over
<1>2. CASE out' = out /\ refused' = refused
  BY <1>1, <1>2, DroppedHasStarted, NothingAccepted
<1>3. CASE \E accepted \in SUBSET {Terminal(s, a, Parent(s))} :
              Accepts({Terminal(s, a, Parent(s))}, accepted)
  <2>1. PICK accepted \in SUBSET {Terminal(s, a, Parent(s))} :
              Accepts({Terminal(s, a, Parent(s))}, accepted)
    BY <1>3
  <2>2. out \subseteq out'
    BY <2>1 DEF Accepts
  <2>3. Rests(Terminal(s, a, Parent(s)), out', out' \cup refused')
    BY <2>2, WhereItBegan, TerminalRests
  <2> QED
    BY <1>1, <2>1, <2>3, TerminalKeeps
<1> QED
  BY <1>2, <1>3 DEF Post

\* A denial rests on the request, or on the answer that was accepted with it.
LEMMA AnsweredKeeps ==
    ASSUME CaptureInv, NEW s \in Spans, NEW denied, Answered(s, denied)
    PROVE  CaptureInv'
<1> DEFINE a == Where(s, TraceFor(s))
           end == Terminal(s, a, Parent(s))
<1>1. Drop(s) /\ active' = active /\ known' = known
  BY DEF Answered, Over
<1>2. CASE out' = out /\ refused' = refused
  BY <1>1, <1>2, DroppedHasStarted, NothingAccepted
<1>3. CASE a # Nothing
  <2>1. PICK ended \in SUBSET {end} :
           LET because == Parent(s) \cup ended
               attribution == Event("denied", s, a, because)
               emitted == {end} \cup (IF Attributes(denied, because) THEN {attribution} ELSE {})
           IN \E accepted \in SUBSET emitted : accepted \cap {end} = ended /\ Accepts(emitted, accepted)
    BY <1>3 DEF Answered
  <2> DEFINE because == Parent(s) \cup ended
             attribution == Event("denied", s, a, because)
             emitted == {end} \cup (IF Attributes(denied, because) THEN {attribution} ELSE {})
  <2>2. PICK accepted \in SUBSET emitted : accepted \cap {end} = ended /\ Accepts(emitted, accepted)
    BY <2>1
  <2>3. out' = out \cup accepted
    BY <2>2 DEF Accepts
  <2>4. Rests(end, out', out' \cup refused')
    BY <2>3, WhereItBegan, TerminalRests
  <2>5. because \subseteq out'
    BY <2>2, <2>3, ParentHasStarted
  <2>6. Attributes(denied, because) => Rests(attribution, out', out' \cup refused')
    BY <2>5 DEF Attributes, Rests, Event
  <2>7. \A e \in accepted : e = end \/ (Attributes(denied, because) /\ e = attribution)
    BY <2>2
  <2> HIDE DEF end, because, attribution
  <2>8. \A e \in accepted : Rests(e, out', out' \cup refused')
    BY <2>4, <2>6, <2>7
  <2> QED
    BY <1>1, <2>2, <2>8, TerminalKeeps
<1> QED
  BY <1>2, <1>3 DEF Answered

\* A contract becomes active when its trace is opened, by this process or before.
LEMMA ContractKeeps ==
    ASSUME CaptureInv, NEW s \in Spans, NEW a, NEW finalized, Contract(s, a, finalized)
    PROVE  CaptureInv'
<1>1. Drop(s) /\ KindOf[s] = "contract"
  BY DEF Contract, Over
<1>2. CASE a = Nothing
  <2>1. out' = out /\ refused' = refused /\ active' = active /\ known' = known
    BY <1>2 DEF Contract
  <2> QED
    BY <1>1, <2>1, DroppedHasStarted, NothingAccepted
<1>3. CASE a # Nothing
  <2> DEFINE after == (IF finalized THEN {Event("persisted", s, a, {})} ELSE {})
                      \cup (IF IsPending(s) THEN {Terminal(s, a, Parent(s))} ELSE {})
  <2>1. PICK accepted \in SUBSET (Openings(a) \cup after) :
           /\ Ensure(a, accepted)
           /\ IF Ensured(a, accepted)
              THEN Activate(a) /\ Accepts(Openings(a) \cup after, accepted)
              ELSE accepted = {} /\ Accepts(Openings(a), {}) /\ UNCHANGED active
    BY <1>3 DEF Contract
  <2>2. PICK events : Accepts(events, accepted)
    BY <2>1
  <2>3. out' = out \cup accepted
    BY <2>2 DEF Accepts
  <2>4. \A b \in known' \cup active' : b \in known \cup active \/ Opening(b) \in out'
    BY <2>1, <2>3 DEF Ensure, Ensured, Activate
  <2>5. Rests(Terminal(s, a, Parent(s)), out', out' \cup refused')
    BY <1>1, <2>3, TerminalRests
  <2>6. \A e \in accepted : e = Opening(a) \/ e = Event("persisted", s, a, {}) \/ e = Terminal(s, a, Parent(s))
    BY <2>1 DEF Openings
  <2>7. \A e \in accepted : Rests(e, out', out' \cup refused')
    BY <2>5, <2>6, EventsRest
  <2> QED
    BY <1>1, <2>2, <2>4, <2>7, TerminalKeeps
<1> QED
  BY <1>2, <1>3

\* A create call whose task is not bound ends where it began.
LEMMA CreateUnboundKeeps ==
    ASSUME CaptureInv, NEW s \in Spans, CreateUnbound(s)
    PROVE  CaptureInv'
<1> DEFINE a == Where(s, Active)
           end == IF a = Nothing THEN {} ELSE {Terminal(s, a, Parent(s))}
<1>1. Drop(s) /\ active' = active /\ known' = known
  BY DEF CreateUnbound, Over
<1>2. PICK opening \in {{}} \cup {Openings(b) : b \in TraceIds}, accepted \in SUBSET end :
         Accepts(opening \cup end, accepted)
  BY DEF CreateUnbound
<1>3. out \subseteq out'
  BY <1>2 DEF Accepts
<1>4. Rests(Terminal(s, a, Parent(s)), out', out' \cup refused')
  BY <1>3, WhereItBegan, TerminalRests
<1>5. \A e \in accepted : Rests(e, out', out' \cup refused')
  BY <1>2, <1>4
<1> QED
  BY <1>1, <1>2, <1>5, TerminalKeeps

\* A create call ends in the trace its task is bound to, starting there over if it started elsewhere.
LEMMA CreatedKeeps ==
    ASSUME CaptureInv, CaptureAssumption, NEW s \in Spans, NEW a \in TraceIds, Created(s, a)
    PROVE  CaptureInv'
<1> DEFINE again == IF Restarts(s, a) THEN {Start(s, a)} ELSE {}
           opening == IF a = Active THEN {} ELSE Openings(a)
<1>1. Drop(s) /\ active' = active \cup {a}
  BY DEF Created, Over, Activate
<1>2. PICK started \in SUBSET again :
         LET end == Terminal(s, a, IF Restarts(s, a) THEN started ELSE Parent(s))
             emitted == opening \cup again \cup {end}
         IN \E accepted \in SUBSET emitted :
               /\ accepted \cap again = started
               /\ a = Active \/ Ensured(a, accepted)
               /\ Accepts(emitted, accepted)
               /\ (IF a = Active THEN UNCHANGED known ELSE Ensure(a, accepted))
  BY DEF Created
<1> DEFINE end == Terminal(s, a, IF Restarts(s, a) THEN started ELSE Parent(s))
           emitted == opening \cup again \cup {end}
<1>3. PICK accepted \in SUBSET emitted :
         /\ accepted \cap again = started
         /\ a = Active \/ Ensured(a, accepted)
         /\ Accepts(emitted, accepted)
         /\ (IF a = Active THEN UNCHANGED known ELSE Ensure(a, accepted))
  BY <1>2
<1>4. out' = out \cup accepted
  BY <1>3 DEF Accepts
<1>5. Rests(end, out', out' \cup refused')
  <2>1. CASE Restarts(s, a)
    <3>1. started \subseteq {Start(s, a)} /\ started \subseteq out'
      BY <1>2, <1>3, <1>4
    <3>2. end = Terminal(s, a, started)
      BY <2>1
    <3> QED
      BY <3>1, <3>2 DEF Rests, Terminal, Start, Event
  <2>2. CASE ~Restarts(s, a)
    <3>1. IsPending(s) => Of(s).trace = a
      BY <2>2 DEF Restarts
    <3>2. end = Terminal(s, a, Parent(s))
      BY <2>2
    <3> QED
      BY <1>4, <3>1, <3>2, TerminalRests
  <2> QED
    BY <2>1, <2>2
<1>6. a = Active => a \in active
  <2>1. ASSUME Cardinality(active) = 1 PROVE active # {}
    BY <2>1, FS_EmptySet
  <2>2. Active # Nothing => Active \in active
    BY <2>1 DEF Active
  <2> QED
    BY <2>2 DEF CaptureAssumption
<1>7. \A b \in known' \cup active' : b \in known \cup active \/ Opening(b) \in out'
  <2>1. known' \subseteq known \cup (IF Opening(a) \in accepted THEN {a} ELSE {})
    BY <1>3 DEF Ensure
  <2>2. a \in active \/ a \in known \/ Opening(a) \in accepted
    BY <1>3, <1>6 DEF Ensured
  <2> QED
    BY <1>1, <1>4, <2>1, <2>2
<1>8. \A e \in accepted : e = Opening(a) \/ e = Start(s, a) \/ e = end
  BY <1>3 DEF Openings
<1> HIDE DEF end
<1>9. \A e \in accepted : Rests(e, out', out' \cup refused')
  BY <1>5, <1>8, EventsRest
<1> QED
  BY <1>1, <1>3, <1>7, <1>9, TerminalKeeps

\* Every step keeps what is emitted tied.
LEMMA CaptureStep ==
    ASSUME CaptureInv, CaptureAssumption, [CaptureNext]_captureVars
    PROVE  CaptureInv'
<1>1. ASSUME NEW s \in Spans,
             Pre(s) \/ PreCreate(s) \/ Post(s) \/ CreateUnbound(s) \/ (\E denied \in BOOLEAN : Answered(s, denied))
      PROVE  CaptureInv'
  BY <1>1, PreKeeps, PostKeeps, CreateUnboundKeeps, AnsweredKeeps
<1>2. ASSUME NEW s \in Spans, \E a \in TraceIds \cup {Nothing}, finalized \in BOOLEAN : Contract(s, a, finalized)
      PROVE  CaptureInv'
  BY <1>2, ContractKeeps
<1>3. ASSUME NEW s \in Spans, \E a \in TraceIds : Created(s, a) PROVE CaptureInv'
  BY <1>3, CreatedKeeps
<1>4. ASSUME NEW a \in TraceIds, Restored(a) PROVE CaptureInv'
  BY <1>4 DEF Restored, Activate, Opened, CaptureInv, HeldHasStarted, KnownIsOpened, TiedToItsTrace,
              ActiveIsOpened, EndsWhereItBegan, DenialHasEvidence, SettingsNameTheStart, Start, Event
<1>5. ASSUME NEW a \in TraceIds, OpenedElsewhere(a) PROVE CaptureInv'
  <2>1. Rests(Opening(a), out', out' \cup refused')
    BY EventsRest
  <2>2. out' = out \cup {Opening(a)} /\ refused' = refused /\ held' = held /\ known' = known /\ active' = active
    BY <1>5 DEF OpenedElsewhere
  <2> QED
    BY <2>1, <2>2 DEF Rests, Opened, CaptureInv, HeldHasStarted, KnownIsOpened, TiedToItsTrace,
              ActiveIsOpened, EndsWhereItBegan, DenialHasEvidence, SettingsNameTheStart, Start, Event
<1>6. ASSUME UNCHANGED captureVars PROVE CaptureInv'
  BY <1>6, NothingAccepted DEF captureVars, CaptureInv, HeldHasStarted
<1> QED
  BY <1>1, <1>2, <1>3, <1>4, <1>5, <1>6 DEF CaptureNext

\* What a hook emits hangs on something the journal has: a terminal on its start, an active trace on its
\* opening, a denial on the request it answers; the settings of a request on its start, unless the
\* journal refused that very start.
THEOREM EventsAreTied == CaptureSpec => []TiedToItsTrace
<1>1. CaptureInit => CaptureInv
  BY DEF CaptureInit, CaptureInv, HeldHasStarted, KnownIsOpened, TiedToItsTrace, ActiveIsOpened,
         EndsWhereItBegan, DenialHasEvidence, SettingsNameTheStart
<1>2. CaptureInv /\ [CaptureNext]_captureVars => CaptureInv'
  BY CaptureStep, CaptureAssumption
<1>3. CaptureInv => TiedToItsTrace
  BY DEF CaptureInv
<1> QED
  BY <1>1, <1>2, <1>3, PTL DEF CaptureSpec

-----------------------------------------------------------------------------
(* The inductive invariant *)

Publishing == {"write", "archive", "manifest"}
HasPair == {"sync", "resync", "prove"} \cup Removal

\* Until the pair has its final names the source is certain.
SourceKept == pc \in Publishing => Sure(seg, "source")

\* The final names stay, once given, until the operation has done with the segment.
ArchiveNamed == pc = "manifest" => "archive" \in present[seg]
PairNamed == pc \in HasPair => Pair \subseteq present[seg]

\* The source is touched only behind a pair that no power loss can take.
PairProved == pc \in Removal => PairSure(seg)

\* The second stage of recovery has only halves of pairs before it.
OrphansListed == pc = "orphans" => \A s \in todo : Orphan(s)

RetentionInv ==
    /\ TypeOK /\ NothingLost
    /\ SourceKept /\ ArchiveNamed /\ PairNamed /\ PairProved /\ OrphansListed

-----------------------------------------------------------------------------
(* What the helpers do to certainty *)

FilesOK == /\ present \in [Segments -> SUBSET Entry]
           /\ unsettled \in [Segments -> SUBSET Entry]

\* Segment s keeps every certain entry outside of names, and t every other one.
KeepsBut(s, names) ==
    \A t \in Segments, x \in Entry :
        Sure(t, x) /\ (t = s => x \notin names) => Sure(t, x)'

\* An entry that is changed is not certain afterwards; the others are as before.
LEMMA ChangeKeeps ==
    ASSUME FilesOK, NEW s \in Segments, NEW gone \in SUBSET Entry,
           NEW new \in SUBSET Entry, Change(s, gone, new)
    PROVE  /\ FilesOK'
           /\ KeepsBut(s, gone \cup new)
           /\ present'[s] = (present[s] \ gone) \cup new
           /\ \A t \in Segments \ {s} : present'[t] = present[t]
BY DEF FilesOK, Change, KeepsBut, Sure

\* The fsync of a directory takes no entry and makes those it covers certain.
LEMMA SyncKeeps ==
    ASSUME FilesOK, NEW names \in SUBSET Entry, SyncDirectory(names)
    PROVE  /\ FilesOK' /\ present' = present
           /\ \A t \in Segments, x \in Entry : Sure(t, x) => Sure(t, x)'
           /\ \A t \in Segments, x \in names : x \in present[t] => Sure(t, x)'
BY DEF FilesOK, SyncDirectory, SyncedDirectory, Sure

\* A discard disturbs only the named entries of one segment.
LEMMA DiscardKeeps ==
    ASSUME TypeOK, NEW s \in Segments, NEW names \in SUBSET InArchive, Discard(s, names)
    PROVE  /\ FilesOK' /\ KeepsBut(s, names)
           /\ \A t \in Segments \ {s} : present'[t] = present[t]
           /\ manual' \subseteq Segments /\ faults' \in 0..MaxFaults
<1> FilesOK /\ names \subseteq Entry /\ InArchive \subseteq Entry
    BY DEF TypeOK, FilesOK, Entry
<1>1. CASE /\ present' = [present EXCEPT ![s] = @ \ names]
           /\ unsettled' = SyncedDirectory(InArchive)
           /\ UNCHANGED <<manual, faults>>
  <2>1. FilesOK'
    BY <1>1 DEF FilesOK, SyncedDirectory
  <2>2. KeepsBut(s, names)
    BY <1>1 DEF FilesOK, SyncedDirectory, KeepsBut, Sure
  <2>3. \A t \in Segments \ {s} : present'[t] = present[t]
    BY <1>1 DEF FilesOK
  <2> QED BY <1>1, <2>1, <2>2, <2>3 DEF TypeOK
<1>2. CASE /\ Fault
           /\ Change(s, names, {}) \/ UNCHANGED files
           /\ manual' = manual \cup {s}
  <2>1. FilesOK' /\ KeepsBut(s, names) /\ \A t \in Segments \ {s} : present'[t] = present[t]
    <3>1. CASE Change(s, names, {})
      BY <3>1, ChangeKeeps DEF KeepsBut
    <3>2. CASE UNCHANGED files
      BY <3>2 DEF files, FilesOK, KeepsBut, Sure
    <3> QED BY <1>2, <3>1, <3>2
  <2>2. manual' \subseteq Segments /\ faults' \in 0..MaxFaults
    BY <1>2, BoundsAssumption DEF Fault, TypeOK, BoundsAssumption
  <2> QED BY <2>1, <2>2
<1> QED BY <1>1, <1>2 DEF Discard

-----------------------------------------------------------------------------
(* The steps, one lemma each *)

\* Nothing is lost when every certain entry stays, or only a source goes that the
\* certain pair beside it covers.
LEMMA CoveredIsKept ==
    ASSUME TypeOK, NothingLost, NEW s \in Segments, NEW names \in SUBSET Entry,
           KeepsBut(s, names),
           \/ names \cap ({"source"} \cup Pair) = {}
           \/ names \cap Pair = {} /\ PairSure(s)
           \/ "source" \notin names /\ Sure(s, "source")
    PROVE  NothingLost'
<1> "source" \in Entry /\ Pair \subseteq Entry
    BY DEF Entry, InArchive, Pair
<1> SUFFICES ASSUME NEW t \in Segments PROVE Sure(t, "source")' \/ PairSure(t)'
    BY DEF NothingLost
<1>1. Sure(t, "source") \/ PairSure(t)
    BY DEF NothingLost
<1>2. CASE t # s
    BY <1>1, <1>2 DEF KeepsBut, PairSure, Pair
<1>3. CASE t = s
    BY <1>1, <1>3 DEF KeepsBut, PairSure, Pair
<1> QED BY <1>2, <1>3

\* When every certain entry stays certain nothing is lost.
LEMMA AllKept ==
    ASSUME TypeOK, NothingLost,
           \A t \in Segments, x \in Entry : Sure(t, x) => Sure(t, x)'
    PROVE  NothingLost'
BY DEF NothingLost, PairSure, Pair, Entry, InArchive

\* Between operations the invariant is about the files alone.
LEMMA ReleaseKeeps ==
    ASSUME FilesOK', NothingLost', Release, faults' \in 0..MaxFaults,
           crashes' \in 0..MaxCrashes
    PROVE  RetentionInv'
BY DEF FilesOK, Release, RetentionInv, TypeOK, SourceKept, ArchiveNamed, PairNamed,
       PairProved, OrphansListed, Publishing, HasPair, Removal, Compaction, Recovery

\* A compaction that has to publish starts from a certain source.
LEMMA CompactBeginKeeps ==
    ASSUME RetentionInv, NEW s \in Segments, CompactBegin(s)
    PROVE  RetentionInv'
<1> USE DEF CompactBegin, files
<1>1. TypeOK'
    BY DEF RetentionInv, TypeOK, Compaction
<1>2. NothingLost'
    BY DEF RetentionInv, NothingLost, Sure, PairSure
<1>3. SourceKept'
  <2>1. CASE Pair \subseteq present[s]
    BY <2>1 DEF SourceKept, Publishing
  <2>2. CASE ~(Pair \subseteq present[s])
    <3>1. "archive" \notin present[s]
      BY <2>2 DEF Orphan, Pair
    <3>2. Sure(s, "source")
      BY <3>1 DEF RetentionInv, NothingLost, PairSure, Pair, Sure
    <3> QED BY <3>2 DEF SourceKept, Sure
  <2> QED BY <2>1, <2>2
<1>4. ArchiveNamed' /\ PairNamed' /\ PairProved' /\ OrphansListed'
    BY DEF ArchiveNamed, PairNamed, PairProved, OrphansListed, HasPair, Removal
<1> QED BY <1>1, <1>2, <1>3, <1>4 DEF RetentionInv

\* Temporaries disturb no final name.
LEMMA WriteTemporariesKeeps ==
    ASSUME RetentionInv, WriteTemporaries
    PROVE  RetentionInv'
<1> USE DEF WriteTemporaries, Go
<1> seg \in Segments /\ FilesOK
    BY DEF RetentionInv, TypeOK, Compaction, FilesOK
<1>1. KeepsBut(seg, {"temp"}) /\ FilesOK'
    BY DEF KeepsBut, Sure, FilesOK, Entry, InArchive
<1>2. TypeOK'
    BY <1>1 DEF RetentionInv, TypeOK, FilesOK, Compaction
<1>3. NothingLost'
    BY <1>1, CoveredIsKept DEF RetentionInv, Entry, InArchive, Pair
<1>4. SourceKept'
    BY <1>1 DEF RetentionInv, SourceKept, Publishing, KeepsBut, Entry, Sure
<1>5. ArchiveNamed' /\ PairNamed' /\ PairProved' /\ OrphansListed'
    BY DEF ArchiveNamed, PairNamed, PairProved, OrphansListed, HasPair, Removal
<1> QED BY <1>2, <1>3, <1>4, <1>5 DEF RetentionInv

\* Giving a file its final name in archive/ disturbs neither the source nor what is there.
LEMMA RenameKeeps ==
    ASSUME RetentionInv, NEW x \in Pair, pc \in Publishing, Change(seg, {}, {x}),
           UNCHANGED <<op, seg, todo, manual, faults, crashes>>
    PROVE  /\ FilesOK' /\ NothingLost' /\ Sure(seg, "source")'
           /\ present'[seg] = present[seg] \cup {x}
<1> seg \in Segments /\ FilesOK /\ x \in InArchive /\ x \in Entry /\ x # "source"
    BY DEF RetentionInv, TypeOK, Compaction, FilesOK, Publishing, Entry, InArchive, Pair
<1>1. /\ FilesOK' /\ KeepsBut(seg, {x})
      /\ present'[seg] = present[seg] \cup {x}
    BY DEF Change, KeepsBut, Sure, FilesOK
<1>2. Sure(seg, "source")
    BY DEF RetentionInv, SourceKept
<1>3. NothingLost'
    BY <1>1, <1>2, CoveredIsKept DEF RetentionInv
<1>4. Sure(seg, "source")'
    BY <1>1, <1>2 DEF KeepsBut, Entry, Sure
<1> QED BY <1>1, <1>3, <1>4

\* The first rename: the archive has its name.
LEMMA RenameArchiveKeeps ==
    ASSUME RetentionInv, RenameArchive
    PROVE  RetentionInv'
<1> USE DEF RenameArchive, Go
<1>1. /\ FilesOK' /\ NothingLost' /\ Sure(seg, "source")'
      /\ present'[seg] = present[seg] \cup {"archive"}
    BY RenameKeeps DEF Pair, Publishing
<1>2. TypeOK'
    BY <1>1 DEF RetentionInv, TypeOK, FilesOK, Compaction
<1>3. SourceKept' /\ ArchiveNamed'
    BY <1>1 DEF SourceKept, ArchiveNamed, Sure
<1>4. PairNamed' /\ PairProved' /\ OrphansListed'
    BY DEF PairNamed, PairProved, OrphansListed, HasPair, Removal
<1> QED BY <1>1, <1>2, <1>3, <1>4 DEF RetentionInv

\* The second rename: the pair has its names.
LEMMA RenameManifestKeeps ==
    ASSUME RetentionInv, RenameManifest
    PROVE  RetentionInv'
<1> USE DEF RenameManifest, Go
<1>1. /\ FilesOK' /\ NothingLost'
      /\ present'[seg] = present[seg] \cup {"manifest"}
    BY RenameKeeps DEF Pair, Publishing
<1>2. TypeOK'
    BY <1>1 DEF RetentionInv, TypeOK, FilesOK, Compaction
<1>3. PairNamed'
    BY <1>1 DEF RetentionInv, PairNamed, ArchiveNamed, Pair
<1>4. SourceKept' /\ ArchiveNamed' /\ PairProved' /\ OrphansListed'
    BY DEF SourceKept, ArchiveNamed, PairProved, OrphansListed, Publishing, Removal
<1> QED BY <1>1, <1>2, <1>3, <1>4 DEF RetentionInv

\* The first fsync of archive/ only adds certainty.
LEMMA SyncArchiveKeeps ==
    ASSUME RetentionInv, SyncArchive
    PROVE  RetentionInv'
<1> USE DEF SyncArchive, Go
<1>1. FilesOK /\ InArchive \in SUBSET Entry
    BY DEF RetentionInv, TypeOK, FilesOK, Entry
<1>2. /\ FilesOK' /\ present' = present
      /\ \A t \in Segments, x \in Entry : Sure(t, x) => Sure(t, x)'
    BY <1>1, SyncKeeps
<1>3. TypeOK'
    BY <1>2 DEF RetentionInv, TypeOK, FilesOK, Compaction
<1>4. NothingLost'
    BY <1>2, AllKept DEF RetentionInv
<1>5. PairNamed'
    BY <1>2 DEF RetentionInv, PairNamed, HasPair
<1>6. SourceKept' /\ ArchiveNamed' /\ PairProved' /\ OrphansListed'
    BY DEF SourceKept, ArchiveNamed, PairProved, OrphansListed, Publishing, Removal
<1> QED BY <1>3, <1>4, <1>5, <1>6 DEF RetentionInv

\* The fsync of archive/ before the removal of the source is what makes the pair certain.
LEMMA PairBecomesSure ==
    ASSUME RetentionInv, pc \in {"resync", "prove"}, SyncDirectory(InArchive)
    PROVE  /\ FilesOK' /\ NothingLost'
           /\ present' = present
           /\ \A s \in Segments : s = seg => PairSure(s)'
<1>1. FilesOK /\ InArchive \in SUBSET Entry /\ Pair \subseteq InArchive
    BY DEF RetentionInv, TypeOK, FilesOK, Entry, InArchive, Pair
<1>2. /\ FilesOK' /\ present' = present
      /\ \A t \in Segments, x \in Entry : Sure(t, x) => Sure(t, x)'
      /\ \A t \in Segments, x \in InArchive : x \in present[t] => Sure(t, x)'
    BY <1>1, SyncKeeps
<1>3. NothingLost'
    BY <1>2, AllKept DEF RetentionInv
<1>4. \A s \in Segments : s = seg => PairSure(s)'
    BY <1>1, <1>2 DEF RetentionInv, PairNamed, HasPair, PairSure
<1> QED BY <1>2, <1>3, <1>4

\* Entering the removal with a certain pair.
LEMMA RemovalBegins ==
    ASSUME RetentionInv, pc \in {"resync", "prove"}, SyncDirectory(InArchive),
           Go("unlink"), UNCHANGED <<faults, crashes>>
    PROVE  RetentionInv'
<1> USE DEF Go
<1>1. /\ FilesOK' /\ NothingLost' /\ present' = present
      /\ \A s \in Segments : s = seg => PairSure(s)'
    BY PairBecomesSure
<1>2. TypeOK'
    BY <1>1 DEF RetentionInv, TypeOK, FilesOK, Compaction, Removal
<1>3. seg' = seg /\ seg \in Segments
    BY DEF RetentionInv, TypeOK, Compaction
<1>4. PairNamed' /\ PairProved'
    BY <1>1, <1>3 DEF PairNamed, PairProved, PairSure, Sure
<1>5. SourceKept' /\ ArchiveNamed' /\ OrphansListed'
    BY DEF SourceKept, ArchiveNamed, OrphansListed, Publishing
<1> QED BY <1>1, <1>2, <1>4, <1>5 DEF RetentionInv

\* A pair found in place is made certain before its source goes.
LEMMA ProvePairKeeps ==
    ASSUME RetentionInv, ProvePair
    PROVE  RetentionInv'
<1>1. CASE "source" \in present[seg]
    BY <1>1, RemovalBegins DEF ProvePair
<1>2. CASE "source" \notin present[seg]
  <2>1. FilesOK' /\ NothingLost'
    BY PairBecomesSure DEF ProvePair
  <2> QED BY <1>2, <2>1, ReleaseKeeps DEF ProvePair, RetentionInv, TypeOK
<1> QED BY <1>1, <1>2

\* While the pair is certain its segment's source may come and go.
LEMMA SourceMoves ==
    ASSUME RetentionInv, pc \in Removal, NEW gone \in SUBSET {"source"},
           NEW new \in SUBSET {"source"}, Change(seg, gone, new)
    PROVE  /\ FilesOK' /\ NothingLost'
           /\ \A s \in Segments : s = seg => PairSure(s)'
<1> seg \in Segments /\ FilesOK /\ "source" \in Entry /\ Pair \subseteq Entry \ {"source"}
    BY DEF RetentionInv, TypeOK, FilesOK, Entry, InArchive, Pair
<1>1. FilesOK' /\ KeepsBut(seg, gone \cup new)
    BY DEF Change, KeepsBut, Sure, FilesOK
<1>2. PairSure(seg)
    BY DEF RetentionInv, PairProved
<1>3. NothingLost'
    BY <1>1, <1>2, CoveredIsKept DEF RetentionInv
<1>4. \A s \in Segments : s = seg => PairSure(s)'
    BY <1>1, <1>2 DEF PairSure, KeepsBut
<1> QED BY <1>1, <1>3, <1>4

\* A step of the removal that goes on with its segment.
LEMMA RemovalGoesOn ==
    ASSUME RetentionInv, pc \in Removal, FilesOK', NothingLost',
           \A s \in Segments : s = seg => PairSure(s)',
           NEW step \in Removal, Go(step), faults' \in 0..MaxFaults, UNCHANGED crashes
    PROVE  RetentionInv'
<1> USE DEF Go
<1>1. TypeOK'
    BY DEF RetentionInv, TypeOK, FilesOK, Removal, Compaction
<1>2. seg' = seg /\ seg \in Segments
    BY DEF RetentionInv, TypeOK
<1>3. PairNamed' /\ PairProved'
    BY <1>2 DEF PairNamed, PairProved, PairSure, Sure
<1>4. SourceKept' /\ ArchiveNamed' /\ OrphansListed'
    BY DEF SourceKept, ArchiveNamed, OrphansListed, Publishing, Removal
<1> QED BY <1>1, <1>3, <1>4 DEF RetentionInv

\* A step that lets the segment go, back to idle or to the list of recovery.
LEMMA LetGo ==
    ASSUME RetentionInv, FilesOK', NothingLost', faults' \in 0..MaxFaults, UNCHANGED crashes,
           \/ Release
           \/ pc' = "pairs" /\ seg' = NoSegment /\ UNCHANGED <<op, todo>>
              /\ manual' \subseteq Segments
    PROVE  RetentionInv'
<1>1. CASE Release
    BY <1>1, ReleaseKeeps DEF RetentionInv, TypeOK
<1>2. CASE pc' = "pairs" /\ seg' = NoSegment /\ UNCHANGED <<op, todo>>
           /\ manual' \subseteq Segments
  <2>1. TypeOK'
    BY <1>2 DEF RetentionInv, TypeOK, FilesOK, Removal, Compaction, Recovery
  <2>2. SourceKept' /\ ArchiveNamed' /\ PairNamed' /\ PairProved' /\ OrphansListed'
    BY <1>2 DEF SourceKept, ArchiveNamed, PairNamed, PairProved, OrphansListed,
                Publishing, HasPair, Removal
  <2> QED BY <2>1, <2>2 DEF RetentionInv
<1> QED BY <1>1, <1>2

\* The removal of a source behind its pair, and the ways it ends.
LEMMA RemoveKeeps ==
    ASSUME RetentionInv, RemoveSource
    PROVE  RetentionInv'
<1> FilesOK /\ NothingLost /\ faults \in 0..MaxFaults /\ crashes \in 0..MaxCrashes
    BY DEF RetentionInv, TypeOK, FilesOK
<1>1. CASE Unlink
  <2> USE <1>1 DEF Unlink
  <2>1. FilesOK' /\ NothingLost' /\ \A s \in Segments : s = seg => PairSure(s)'
    BY SourceMoves DEF Removal
  <2> QED BY <2>1, RemovalGoesOn DEF Removal
<1>2. CASE SyncClosed
  <2> USE <1>2 DEF SyncClosed
  <2>1. FilesOK' /\ NothingLost'
    BY SyncKeeps, AllKept DEF RetentionInv, Entry
  <2>2. manual \subseteq Segments
    BY DEF RetentionInv, TypeOK
  <2> QED BY <2>1, <2>2, LetGo DEF Removed
<1>3. CASE SyncClosedFails
  <2> USE <1>3 DEF SyncClosedFails, files
  <2>1. FilesOK' /\ NothingLost' /\ \A s \in Segments : s = seg => PairSure(s)'
    BY DEF RetentionInv, PairProved, Removal, FilesOK, NothingLost, PairSure, Sure
  <2>2. faults' \in 0..MaxFaults
    BY BoundsAssumption DEF Fault, BoundsAssumption
  <2> QED BY <2>1, <2>2, RemovalGoesOn DEF Removal
<1>4. CASE RestoreSource
  <2> USE <1>4 DEF RestoreSource
  <2>1. FilesOK' /\ NothingLost' /\ \A s \in Segments : s = seg => PairSure(s)'
    BY SourceMoves DEF Removal
  <2> QED BY <2>1, RemovalGoesOn DEF Removal
<1>5. CASE SyncRestored
  <2> USE <1>5 DEF SyncRestored
  <2>1. FilesOK' /\ NothingLost'
    BY SyncKeeps, AllKept DEF RetentionInv, Entry
  <2>2. manual \cup {seg} \subseteq Segments
    BY DEF RetentionInv, TypeOK, Removal
  <2> QED BY <2>1, <2>2, LetGo DEF Raise
<1>6. CASE RemovalFails
  <2> USE <1>6 DEF RemovalFails, files
  <2>1. FilesOK' /\ NothingLost'
    BY DEF FilesOK, NothingLost, PairSure, Sure
  <2>2. faults' \in 0..MaxFaults
    BY BoundsAssumption DEF Fault, BoundsAssumption
  <2>3. manual \cup {seg} \subseteq Segments
    BY DEF RetentionInv, TypeOK, Removal
  <2> QED BY <2>1, <2>2, <2>3, LetGo DEF Raise
<1> QED BY <1>1, <1>2, <1>3, <1>4, <1>5, <1>6 DEF RemoveSource

\* The steps of a compaction up to the removal.
LEMMA CompactKeeps ==
    ASSUME RetentionInv, Compact
    PROVE  RetentionInv'
<1>1. CASE ResyncArchive
    BY <1>1, RemovalBegins DEF ResyncArchive
<1> QED BY <1>1, WriteTemporariesKeeps, RenameArchiveKeeps, RenameManifestKeeps,
           SyncArchiveKeeps, ProvePairKeeps DEF Compact

\* Recovery between its stages touches no file; its second stage lists halves of pairs.
LEMMA StageKeeps ==
    ASSUME RetentionInv, UNCHANGED <<files, crashes>>, faults' \in 0..MaxFaults,
           pc' \in Recovery, op' \in {op, "recover"}, seg' \in Segments \cup {NoSegment},
           todo' \subseteq Segments, manual' \subseteq Segments,
           pc' = "orphans" => \A s \in todo' : Orphan(s)
    PROVE  RetentionInv'
<1> USE DEF files
<1>1. TypeOK'
    BY DEF RetentionInv, TypeOK, Recovery, Removal, Compaction
<1>2. NothingLost'
    BY DEF RetentionInv, NothingLost, PairSure, Sure
<1>3. SourceKept' /\ ArchiveNamed' /\ PairNamed' /\ PairProved'
    BY DEF SourceKept, ArchiveNamed, PairNamed, PairProved, Publishing, HasPair, Removal,
           Recovery
<1>4. OrphansListed'
    BY DEF OrphansListed, Orphan
<1> QED BY <1>1, <1>2, <1>3, <1>4 DEF RetentionInv

\* Discarding temporaries disturbs no final name.
LEMMA DiscardTemporariesKeeps ==
    ASSUME RetentionInv, NEW s \in Segments, DiscardTemporaries(s)
    PROVE  RetentionInv'
<1> USE DEF DiscardTemporaries
<1>1. FilesOK' /\ KeepsBut(s, {"temp"}) /\ manual' \subseteq Segments /\ faults' \in 0..MaxFaults
    BY DiscardKeeps DEF RetentionInv, InArchive
<1>2. NothingLost'
    BY <1>1, CoveredIsKept DEF RetentionInv, Entry, InArchive, Pair
<1>3. TypeOK'
    BY <1>1 DEF RetentionInv, TypeOK, FilesOK, Recovery
<1>4. SourceKept' /\ ArchiveNamed' /\ PairNamed' /\ PairProved' /\ OrphansListed'
    BY DEF SourceKept, ArchiveNamed, PairNamed, PairProved, OrphansListed,
           Publishing, HasPair, Removal
<1> QED BY <1>2, <1>3, <1>4 DEF RetentionInv

\* A half is discarded only beside a certain source.
LEMMA DiscardOrphanKeeps ==
    ASSUME RetentionInv, NEW s \in Segments, DiscardOrphan(s)
    PROVE  RetentionInv'
<1> USE DEF DiscardOrphan
<1>1. Orphan(s) /\ s \in todo
    BY DEF RetentionInv, OrphansListed
<1>2. Sure(s, "source")
    BY <1>1 DEF RetentionInv, NothingLost, PairSure, Sure, Orphan, Pair
<1>3. Discard(s, Pair)
    BY <1>2 DEF Sure
<1>4. /\ FilesOK' /\ KeepsBut(s, Pair)
      /\ \A t \in Segments \ {s} : present'[t] = present[t]
      /\ manual' \subseteq Segments /\ faults' \in 0..MaxFaults
    BY <1>3, DiscardKeeps DEF RetentionInv, InArchive, Pair
<1>5. NothingLost'
  <2>1. "source" \notin Pair /\ Pair \in SUBSET Entry
    BY DEF Pair, Entry, InArchive
  <2> QED BY <1>2, <1>4, <2>1, CoveredIsKept DEF RetentionInv
<1>6. TypeOK'
    BY <1>4 DEF RetentionInv, TypeOK, FilesOK, Recovery
<1>7. OrphansListed'
    BY <1>4 DEF RetentionInv, OrphansListed, Orphan, TypeOK
<1>8. SourceKept' /\ ArchiveNamed' /\ PairNamed' /\ PairProved'
    BY DEF SourceKept, ArchiveNamed, PairNamed, PairProved, Publishing, HasPair, Removal
<1> QED BY <1>5, <1>6, <1>7, <1>8 DEF RetentionInv

\* Taking up a pair changes no file.
LEMMA CompletePairKeeps ==
    ASSUME RetentionInv, NEW s \in Segments, CompletePair(s)
    PROVE  RetentionInv'
<1> USE DEF CompletePair, files
<1>1. TypeOK'
    BY DEF RetentionInv, TypeOK, Recovery
<1>2. NothingLost'
    BY DEF RetentionInv, NothingLost, PairSure, Sure
<1>3. PairNamed'
    BY DEF PairNamed, HasPair, Removal
<1>4. SourceKept' /\ ArchiveNamed' /\ PairProved' /\ OrphansListed'
    BY DEF SourceKept, ArchiveNamed, PairProved, OrphansListed, Publishing, Removal
<1> QED BY <1>1, <1>2, <1>3, <1>4 DEF RetentionInv

\* The steps of recovery outside of the removal.
LEMMA RecoverKeeps ==
    ASSUME RetentionInv, Recover
    PROVE  RetentionInv'
<1> /\ faults \in 0..MaxFaults /\ manual \subseteq Segments
    /\ seg \in Segments \cup {NoSegment} /\ todo \subseteq Segments
    BY DEF RetentionInv, TypeOK
<1>1. CASE NextStage
  <2>1. pc' \in Recovery /\ todo' \subseteq Segments
        /\ (pc' = "orphans" => \A s \in todo' : Orphan(s))
    BY <1>1 DEF NextStage, Recovery
  <2> QED BY <1>1, <2>1, StageKeeps DEF NextStage
<1>2. CASE RecoverEnd
  <2>1. FilesOK' /\ NothingLost'
    BY <1>2 DEF RecoverEnd, files, RetentionInv, TypeOK, FilesOK, NothingLost, PairSure, Sure
  <2> QED BY <1>2, <2>1, ReleaseKeeps DEF RecoverEnd, RetentionInv, TypeOK
<1>3. ASSUME NEW s \in Segments, PairUnverified(s)
      PROVE  RetentionInv'
  <2> USE <1>3 DEF PairUnverified
  <2>1. faults' \in 0..MaxFaults
    BY BoundsAssumption DEF Fault, BoundsAssumption
  <2>2. pc' \in Recovery /\ todo' \subseteq Segments /\ manual' \subseteq Segments
        /\ pc' # "orphans"
    BY DEF Recovery
  <2> QED BY <2>1, <2>2, StageKeeps
<1> QED BY <1>1, <1>2, <1>3, DiscardTemporariesKeeps, DiscardOrphanKeeps, CompletePairKeeps
        DEF Recover

\* An interruption leaves temporaries behind and no more.
LEMMA InterruptKeeps ==
    ASSUME RetentionInv, Interrupt
    PROVE  RetentionInv'
<1> USE DEF Interrupt
<1> FilesOK
    BY DEF RetentionInv, TypeOK, FilesOK
<1>1. FilesOK' /\ NothingLost'
  <2>1. CASE UNCHANGED files
    BY <2>1 DEF files, RetentionInv, FilesOK, NothingLost, PairSure, Sure
  <2>2. CASE pc \in Publishing /\ Change(seg, {}, {"temp"})
    <3>1. seg \in Segments
      BY <2>2 DEF RetentionInv, TypeOK, Publishing, Compaction
    <3>2. FilesOK' /\ KeepsBut(seg, {"temp"})
      BY <2>2, <3>1 DEF Change, KeepsBut, Sure, FilesOK, Entry, InArchive
    <3> QED BY <3>1, <3>2, CoveredIsKept DEF RetentionInv, Entry, InArchive, Pair
  <2> QED BY <2>1, <2>2 DEF Publishing
<1>2. crashes' \in 0..MaxCrashes /\ faults' \in 0..MaxFaults
    BY BoundsAssumption DEF BoundsAssumption, RetentionInv, TypeOK
<1> QED BY <1>1, <1>2, ReleaseKeeps

\* A power loss decides what was uncertain, and nothing else.
LEMMA PowerLossKeeps ==
    ASSUME RetentionInv, PowerLoss
    PROVE  RetentionInv'
<1> USE DEF PowerLoss
<1>1. FilesOK'
    BY DEF FilesOK
<1>2. \A t \in Segments, x \in Entry : Sure(t, x) => Sure(t, x)'
    BY DEF RetentionInv, TypeOK, Sure
<1>3. NothingLost'
    BY <1>2, AllKept DEF RetentionInv
<1>4. crashes' \in 0..MaxCrashes /\ faults' \in 0..MaxFaults
    BY BoundsAssumption DEF BoundsAssumption, RetentionInv, TypeOK
<1> QED BY <1>1, <1>3, <1>4, ReleaseKeeps

\* A step that changes nothing keeps the invariant.
LEMMA StutterKeeps ==
    ASSUME RetentionInv, UNCHANGED vars
    PROVE  RetentionInv'
BY DEF vars, files, RetentionInv, TypeOK, NothingLost, PairSure, Sure, SourceKept,
       ArchiveNamed, PairNamed, PairProved, OrphansListed, Orphan

\* Every step keeps the invariant.
LEMMA NextKeeps ==
    ASSUME RetentionInv, [Next]_vars
    PROVE  RetentionInv'
<1>1. CASE RecoverBegin
  <2>1. todo' \subseteq Segments /\ pc' \in Recovery /\ pc' # "orphans"
    BY <1>1 DEF RecoverBegin, Recovery
  <2> QED BY <1>1, <2>1, StageKeeps DEF RecoverBegin, RetentionInv, TypeOK
<1> QED BY <1>1, CompactBeginKeeps, CompactKeeps, RemoveKeeps, RecoverKeeps, InterruptKeeps,
           PowerLossKeeps, StutterKeeps DEF Next, Step

-----------------------------------------------------------------------------
(* Theorems *)

\* The invariant holds of every reachable state.
THEOREM RetentionInvariant == Spec => []RetentionInv
<1>1. Init => RetentionInv
    BY BoundsAssumption DEF Init, RetentionInv, TypeOK, NothingLost, Sure, SourceKept,
       ArchiveNamed, PairNamed, PairProved, OrphansListed, BoundsAssumption, Entry,
       InArchive, Publishing, HasPair, Removal, Compaction
<1>2. RetentionInv /\ [Next]_vars => RetentionInv'
    BY NextKeeps
<1> QED BY <1>1, <1>2, PTL DEF Spec

\* Every variable keeps its type.
THEOREM RetentionTypes == Spec => []TypeOK
<1>1. RetentionInv => TypeOK
    BY DEF RetentionInv
<1> QED BY <1>1, RetentionInvariant, PTL

\* compact_segment and recover_interrupted lose no event, whatever fails and whenever the
\* process or the machine stops.
THEOREM CompactionLosesNothing == Spec => []NothingLost
<1>1. RetentionInv => NothingLost
    BY DEF RetentionInv
<1> QED BY <1>1, RetentionInvariant, PTL

\* The manual review that recover_interrupted foresees for half a pair without its source
\* is never needed.
THEOREM OrphansHaveSources == Spec => []OrphanHasSource
<1>1. RetentionInv => OrphanHasSource
  <2> SUFFICES ASSUME RetentionInv, NEW s \in Segments, Orphan(s)
               PROVE  "source" \in present[s]
    BY DEF OrphanHasSource
  <2>1. ~PairSure(s)
    BY DEF Orphan, PairSure, Sure, Pair
  <2> QED BY <2>1 DEF RetentionInv, NothingLost, Sure
<1> QED BY <1>1, RetentionInvariant, PTL

-----------------------------------------------------------------------------
(* What an operation that returns has achieved *)

\* The removal has taken the source when it syncs, and recovery proves a pair only for
\* the sake of its source.
SourceGone == pc = "syncClosed" => "source" \notin present[seg]
SourceToGo == pc \in {"prove", "unlink"} /\ op = "recover" => "source" \in present[seg]

\* A recovery with nothing left for review has done its stages up to the current one:
\* what a stage is for is gone, listed or in hand.
TempsDone == pc \in Recovery =>
    \A s \in Segments : "temp" \in present[s] => pc = "temps" /\ s \in todo
OrphansDone == pc # "temps" =>
    \A s \in Segments : Orphan(s) => pc = "orphans" /\ s \in todo
PairsDone == pc \notin {"temps", "orphans"} =>
    \A s \in Segments : "source" \in present[s] /\ Pair \subseteq present[s] =>
        s \in todo \/ (s = seg /\ pc # "pairs")
NoTemps == pc \notin Recovery => \A s \in Segments : "temp" \notin present[s]

StagesDone == op = "recover" /\ manual = {} =>
                  TempsDone /\ OrphansDone /\ PairsDone /\ NoTemps
OpStages == /\ pc \in Recovery => op = "recover"
            /\ pc \in Compaction => op = "compact"
            /\ pc = "idle" <=> op = "none"

ProgressInv == SourceGone /\ SourceToGo /\ StagesDone /\ OpStages

\* Compaction is none of recovery's business, and says nothing about its stages.
LEMMA CompactProgress ==
    ASSUME RetentionInv, ProgressInv, pc \in Compaction, Compact
    PROVE  ProgressInv'
BY DEF ProgressInv, OpStages, Compact, WriteTemporaries, RenameArchive, RenameManifest,
       SyncArchive, ResyncArchive, ProvePair, Go, Compaction, Recovery, SourceGone,
       SourceToGo, StagesDone

\* Nothing runs, so nothing is owed.
LEMMA ReleaseProgress ==
    ASSUME Release
    PROVE  ProgressInv'
BY DEF Release, ProgressInv, SourceGone, SourceToGo, StagesDone, OpStages, Recovery,
       Compaction

\* Stages are as far as they were when files, list and review stay.
LEMMA ProveProgress ==
    ASSUME RetentionInv, ProgressInv, ProvePair
    PROVE  ProgressInv'
<1>1. CASE "source" \notin present[seg]
    BY <1>1, ReleaseProgress DEF ProvePair
<1>2. CASE "source" \in present[seg]
  <2> USE <1>2 DEF ProvePair, Go, SyncDirectory
  <2>1. SourceGone' /\ SourceToGo' /\ OpStages'
    BY DEF ProgressInv, SourceGone, SourceToGo, OpStages, Recovery, Compaction
  <2>2. StagesDone'
    BY DEF ProgressInv, StagesDone, TempsDone, OrphansDone, PairsDone, NoTemps, Recovery,
           Orphan
  <2> QED BY <2>1, <2>2 DEF ProgressInv
<1> QED BY <1>1, <1>2

\* The source in hand leaves its list for good.
LEMMA UnlinkProgress ==
    ASSUME RetentionInv, ProgressInv, Unlink
    PROVE  ProgressInv'
<1> USE DEF Unlink, Go, Change
<1> seg \in Segments /\ present \in [Segments -> SUBSET Entry]
    BY DEF RetentionInv, TypeOK, Removal
<1>1. present'[seg] = present[seg] \ {"source"}
      /\ \A t \in Segments \ {seg} : present'[t] = present[t]
    OBVIOUS
<1>2. SourceGone' /\ SourceToGo' /\ OpStages'
    BY <1>1 DEF ProgressInv, SourceGone, SourceToGo, OpStages, Recovery, Compaction
<1>3. \A t \in Segments : Orphan(t)' = Orphan(t)
    BY <1>1 DEF Orphan, Pair
<1>4. StagesDone'
    BY <1>1, <1>3 DEF ProgressInv, StagesDone, TempsDone, OrphansDone, PairsDone, NoTemps,
                      Recovery
<1> QED BY <1>2, <1>4 DEF ProgressInv

\* After the removal the segment in hand owes nothing.
LEMMA SyncClosedProgress ==
    ASSUME RetentionInv, ProgressInv, SyncClosed
    PROVE  ProgressInv'
<1>1. CASE op = "compact"
    BY <1>1, ReleaseProgress DEF SyncClosed, Removed
<1>2. CASE op = "recover"
  <2> USE <1>2 DEF SyncClosed, Removed, SyncDirectory
  <2>1. SourceGone' /\ SourceToGo' /\ OpStages'
    BY DEF SourceGone, SourceToGo, ProgressInv, OpStages, Recovery, Compaction, RetentionInv,
           TypeOK
  <2>2. StagesDone'
    BY DEF ProgressInv, StagesDone, TempsDone, OrphansDone, PairsDone, NoTemps, Recovery,
           Orphan, SourceGone
  <2> QED BY <2>1, <2>2 DEF ProgressInv
<1>3. op \in {"compact", "recover"}
    BY DEF SyncClosed, ProgressInv, OpStages, RetentionInv, TypeOK
<1> QED BY <1>1, <1>2, <1>3

\* A source that comes back is still in hand.
LEMMA RestoreProgress ==
    ASSUME RetentionInv, ProgressInv, SyncClosedFails \/ RestoreSource
    PROVE  ProgressInv'
<1> USE DEF Go
<1> seg \in Segments /\ present \in [Segments -> SUBSET Entry]
    BY DEF RetentionInv, TypeOK, Removal, SyncClosedFails, RestoreSource
<1>1. pc \in {"syncClosed", "restore"} /\ pc' \in {"restore", "restoreSync"}
      /\ UNCHANGED <<op, seg, todo, manual>>
    BY DEF SyncClosedFails, RestoreSource
<1>2. /\ \A t \in Segments \ {seg} : present'[t] = present[t]
      /\ present'[seg] \ {"source"} = present[seg] \ {"source"}
    BY DEF SyncClosedFails, RestoreSource, files, Change
<1>3. SourceGone' /\ SourceToGo' /\ OpStages'
    BY <1>1 DEF ProgressInv, SourceGone, SourceToGo, OpStages, Recovery, Compaction
<1>4. \A t \in Segments : Orphan(t)' = Orphan(t)
    BY <1>2 DEF Orphan, Pair
<1>5. StagesDone'
    BY <1>1, <1>2, <1>4 DEF ProgressInv, StagesDone, TempsDone, OrphansDone, PairsDone,
                            NoTemps, Recovery
<1> QED BY <1>3, <1>5 DEF ProgressInv

\* A segment noted for review frees recovery of what it owes the stages.
LEMMA RaiseProgress ==
    ASSUME RetentionInv, ProgressInv, Raise, pc # "idle"
    PROVE  ProgressInv'
<1>1. CASE op = "compact"
    BY <1>1, ReleaseProgress DEF Raise
<1>2. CASE op = "recover"
    BY <1>2 DEF Raise, ProgressInv, SourceGone, SourceToGo, StagesDone, OpStages, Recovery,
                Compaction
<1>3. op \in {"compact", "recover"}
    BY DEF ProgressInv, OpStages, RetentionInv, TypeOK
<1> QED BY <1>1, <1>2, <1>3

\* The steps of the removal, for whichever operation it runs.
LEMMA RemoveProgress ==
    ASSUME RetentionInv, ProgressInv, RemoveSource
    PROVE  ProgressInv'
<1>1. CASE SyncRestored
    BY <1>1, RaiseProgress DEF SyncRestored
<1>2. CASE RemovalFails
    BY <1>2, RaiseProgress DEF RemovalFails
<1> QED BY <1>1, <1>2, UnlinkProgress, SyncClosedProgress, RestoreProgress DEF RemoveSource

\* A stage that discards takes its segment off the list, or notes it for review.
LEMMA DiscardProgress ==
    ASSUME RetentionInv, ProgressInv, NEW s \in Segments,
           DiscardTemporaries(s) \/ DiscardOrphan(s)
    PROVE  ProgressInv'
<1> present \in [Segments -> SUBSET Entry]
    BY DEF RetentionInv, TypeOK
<1>1. pc \in {"temps", "orphans"} /\ s \in todo /\ todo' = todo \ {s} /\ UNCHANGED <<op, pc, seg>>
    BY DEF DiscardTemporaries, DiscardOrphan
<1>2. SourceGone' /\ SourceToGo' /\ OpStages'
    BY <1>1 DEF SourceGone, SourceToGo, OpStages, ProgressInv
<1>3. StagesDone'
  <2>1. CASE manual' # {}
    BY <2>1 DEF StagesDone
  <2>2. CASE manual' = {}
    <3>1. manual = {} /\ op = "recover"
      BY <1>1, <2>2 DEF DiscardTemporaries, DiscardOrphan, Discard, ProgressInv, OpStages,
                        Recovery
    <3>2. \E names \in {{"temp"}, Pair} :
             /\ pc = "temps" <=> names = {"temp"}
             /\ present' = [present EXCEPT ![s] = @ \ names]
      BY <2>2 DEF DiscardTemporaries, DiscardOrphan, Discard, Pair
    <3>3. /\ \A t \in Segments \ {s} : present'[t] = present[t]
          /\ pc = "temps" => present'[s] = present[s] \ {"temp"}
          /\ pc = "orphans" => present'[s] = present[s] \ Pair
      BY <1>1, <3>2
    <3>4. TempsDone'
      BY <1>1, <3>1, <3>3 DEF ProgressInv, StagesDone, TempsDone, Recovery
    <3>5. OrphansDone'
      BY <1>1, <3>1, <3>3 DEF ProgressInv, StagesDone, OrphansDone, Orphan, Pair
    <3>6. PairsDone' /\ NoTemps'
      BY <1>1 DEF PairsDone, NoTemps, Recovery
    <3> QED BY <3>4, <3>5, <3>6 DEF StagesDone
  <2> QED BY <2>1, <2>2
<1> QED BY <1>2, <1>3 DEF ProgressInv

\* The steps of recovery outside of the removal.
LEMMA RecoverProgress ==
    ASSUME RetentionInv, ProgressInv, Recover
    PROVE  ProgressInv'
<1>1. CASE NextStage
  <2> USE <1>1 DEF NextStage, files
  <2>1. SourceGone' /\ SourceToGo' /\ OpStages'
    BY DEF SourceGone, SourceToGo, OpStages, ProgressInv, Recovery, Compaction
  <2>2. StagesDone'
    BY DEF ProgressInv, StagesDone, TempsDone, OrphansDone, PairsDone, NoTemps, Recovery,
           Orphan, Pair
  <2> QED BY <2>1, <2>2 DEF ProgressInv
<1>2. CASE RecoverEnd
    BY <1>2, ReleaseProgress DEF RecoverEnd
<1>3. ASSUME NEW s \in Segments, CompletePair(s)
      PROVE  ProgressInv'
  <2> USE <1>3 DEF CompletePair, files
  <2>1. SourceGone' /\ SourceToGo' /\ OpStages'
    BY DEF SourceGone, SourceToGo, OpStages, ProgressInv, Recovery, Compaction
  <2>2. StagesDone'
    BY DEF ProgressInv, StagesDone, TempsDone, OrphansDone, PairsDone, NoTemps, Recovery,
           Orphan
  <2> QED BY <2>1, <2>2 DEF ProgressInv
<1>4. ASSUME NEW s \in Segments, PairUnverified(s)
      PROVE  ProgressInv'
    BY <1>4 DEF PairUnverified, ProgressInv, SourceGone, SourceToGo, StagesDone, OpStages
<1> QED BY <1>1, <1>2, <1>3, <1>4, DiscardProgress DEF Recover

\* Every step keeps the progress invariant.
LEMMA NextProgress ==
    ASSUME RetentionInv, ProgressInv, [Next]_vars
    PROVE  ProgressInv'
<1>1. ASSUME NEW s \in Segments, CompactBegin(s)
      PROVE  ProgressInv'
    BY <1>1 DEF CompactBegin, ProgressInv, SourceGone, SourceToGo, StagesDone, OpStages,
                Recovery, Compaction
<1>2. CASE RecoverBegin
  <2>1. manual = {} => TempsDone' /\ OrphansDone' /\ PairsDone' /\ NoTemps'
    BY <1>2 DEF RecoverBegin, files, TempsDone, OrphansDone, PairsDone, NoTemps, Recovery
  <2> QED BY <1>2, <2>1 DEF RecoverBegin, ProgressInv, SourceGone, SourceToGo, StagesDone,
                            OpStages, Recovery, Compaction
<1>3. CASE Compact
  <2>1. CASE pc = "prove"
    BY <1>3, <2>1, ProveProgress DEF Compact, WriteTemporaries, RenameArchive,
       RenameManifest, SyncArchive, ResyncArchive
  <2>2. CASE pc # "prove"
    BY <1>3, <2>2, CompactProgress DEF Compact, WriteTemporaries, RenameArchive,
       RenameManifest, SyncArchive, ResyncArchive, ProvePair, Compaction
  <2> QED BY <2>1, <2>2
<1>4. CASE Interrupt \/ PowerLoss
    BY <1>4, ReleaseProgress DEF Interrupt, PowerLoss
<1>5. CASE UNCHANGED vars
    BY <1>5 DEF vars, files, ProgressInv, SourceGone, SourceToGo, StagesDone, OpStages,
                TempsDone, OrphansDone, PairsDone, NoTemps, Orphan
<1> QED BY <1>1, <1>2, <1>3, <1>4, <1>5, RemoveProgress, RecoverProgress DEF Next, Step

\* Before the first operation nothing is owed.
LEMMA InitProgress == Init => ProgressInv
BY DEF Init, ProgressInv, SourceGone, SourceToGo, StagesDone, OpStages, Recovery, Compaction

\* Both invariants hold of every reachable state.
THEOREM ProgressInvariant == Spec => [](RetentionInv /\ ProgressInv)
<1>1. RetentionInv /\ ProgressInv /\ [Next]_vars => ProgressInv'
    BY NextProgress
<1> QED BY <1>1, InitProgress, RetentionInvariant, PTL DEF Spec

\* compact_segment returns only behind a durable pair, its source removed for good.
THEOREM ReturnsDurable == Spec => ReturnedIsDurable
<1>1. RetentionInv /\ ProgressInv /\ [Next]_vars =>
        [\A s \in Segments : CompactReturns(s) =>
            /\ PairSure(s)'
            /\ "source" \notin present'[s]
            /\ SyncClosed => "source" \notin unsettled'[s]]_vars
  <2> SUFFICES ASSUME RetentionInv, ProgressInv, NEW s \in Segments, CompactReturns(s)
               PROVE  /\ PairSure(s)' /\ "source" \notin present'[s]
                      /\ SyncClosed => "source" \notin unsettled'[s]
    OBVIOUS
  <2>0. seg = s /\ (SyncClosed \/ (ProvePair /\ pc' = "idle"))
    BY DEF CompactReturns
  <2>1. CASE SyncClosed
    <3>1. pc = "syncClosed" /\ present' = present
      BY <2>1 DEF SyncClosed, SyncDirectory
    <3>2. "source" \notin present'[s]
      BY <2>0, <3>1 DEF ProgressInv, SourceGone
    <3>3. PairSure(s)
      BY <2>0, <3>1 DEF RetentionInv, PairProved, Removal
    <3>4. PairSure(s)' /\ "source" \notin unsettled'[s]
      BY <2>1, <3>3 DEF SyncClosed, SyncDirectory, SyncedDirectory, PairSure, Sure
    <3> QED BY <3>2, <3>4
  <2>2. CASE ProvePair /\ pc' = "idle"
    <3>1. "source" \notin present[s] /\ present' = present
      BY <2>0, <2>2 DEF ProvePair, Go, SyncDirectory
    <3>2. PairSure(s)'
      BY <2>0, <2>2, PairBecomesSure DEF ProvePair
    <3>3. ~SyncClosed
      BY <2>2 DEF ProvePair, SyncClosed
    <3> QED BY <3>1, <3>2, <3>3
  <2> QED BY <2>0, <2>1, <2>2
<1> QED BY <1>1, ProgressInvariant, PTL DEF Spec, ReturnedIsDurable

\* recover_interrupted that reports nothing for manual review leaves each segment either
\* in closed/ alone or as a pair alone.
THEOREM RecoveriesSettle == Spec => RecoveredIsSettled
<1> DEFINE Clean == RecoverEnd /\ manual = {} => \A s \in Segments : Settled(s)
<1>1. RetentionInv /\ ProgressInv /\ [Next]_vars => [Clean]_vars
  <2> SUFFICES ASSUME RetentionInv, ProgressInv, RecoverEnd, manual = {}, NEW s \in Segments
               PROVE  Settled(s)
    OBVIOUS
  <2>1. pc = "pairs" /\ todo = {} /\ op = "recover"
    BY DEF RecoverEnd, ProgressInv, OpStages, Recovery
  <2>2. TempsDone /\ OrphansDone /\ PairsDone
    BY <2>1 DEF ProgressInv, StagesDone
  <2>3. "temp" \notin present[s] /\ ~Orphan(s) /\ ~("source" \in present[s] /\ Pair \subseteq present[s])
    BY <2>1, <2>2 DEF TempsDone, OrphansDone, PairsDone, Recovery
  <2>4. present[s] \subseteq {"source", "archive", "manifest"}
    BY <2>3 DEF RetentionInv, TypeOK, Entry, InArchive
  <2>5. "source" \in present[s] \/ Pair \subseteq present[s]
    BY DEF RetentionInv, NothingLost, PairSure, Sure
  <2>6. CASE Pair \subseteq present[s]
    <3>1. present[s] = Pair
      BY <2>3, <2>4, <2>6 DEF Pair
    <3> QED BY <3>1 DEF Settled
  <2>7. CASE ~(Pair \subseteq present[s])
    <3>1. Pair \cap present[s] = {} /\ "source" \in present[s]
      BY <2>3, <2>5, <2>7 DEF Orphan, Pair
    <3>2. present[s] = {"source"}
      BY <2>4, <3>1 DEF Pair
    <3> QED BY <3>2 DEF Settled
  <2> QED BY <2>6, <2>7
<1> QED BY <1>1, ProgressInvariant, PTL DEF Spec, RecoveredIsSettled
=============================================================================
