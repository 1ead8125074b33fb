-------------------------- MODULE LifecycleProofs ---------------------------
(***************************************************************************)
(* Proofs about what is installed: the transitions of an installation, the *)
(* editable mappings of interpreters, and the releases.                    *)
(***************************************************************************)
EXTENDS Lifecycle, Release, Editable, SequenceTheorems, WellFoundedInduction, TLAPS

-----------------------------------------------------------------------------
(* What a command may be about at each of its steps, and what it has       *)
(* proven when it comes there.                                             *)

Recovering == {"store_recover", "finish_recovered", "profiles", "register", "authorize"}
Replacing == {"prepare", "select", "selecting", "project", "switch", "validate"}
Removing == {"unproject", "unpoint", "remove", "unjournal"}
Steps == {"idle", "refused", "materialize", "deactivate", "commit", "restart", "finish",
          "compensate", "restore", "fail", "unselect"} \cup Recovering \cup Replacing \cup Removing

ControlInv ==
    /\ pc \in Steps
    /\ part \in {"none", "recovery", "transition", "compensation", "uninstall"}
    /\ pc = "idle" <=> part = "none"
    /\ pc \in Recovering => part = "recovery"
    /\ pc \in {"refused", "deactivate"} => part \in {"recovery", "uninstall"}
    /\ pc = "materialize" => part \in {"recovery", "transition"}
    /\ pc \in Replacing => part \in {"recovery", "transition", "compensation"}
    /\ pc \in {"commit", "restart", "finish"} => part = "transition"
    /\ pc \in {"compensate", "restore", "fail"} => part = "compensation"
    /\ pc = "unselect" => part \in {"compensation", "uninstall"}
    /\ pc \in Removing => part = "uninstall"
    /\ part = "recovery" => kind \in {"recover", "install", "update", "rollback"}
    /\ part \in {"transition", "compensation"} \/ pc = "authorize"
           => kind \in {"install", "update", "rollback"}
    /\ pc = "register" => kind \in {"install", "update"}
    /\ kind = "uninstall" <=> part = "uninstall"

DiskInv ==
    /\ homes \in Home /\ registered \subseteq Releases
    /\ Active \in registered \cup {None}
    /\ target \in MaybeRelease
    /\ kind \in {"install", "update"} => target \in Releases
    /\ pc \in {"remove", "unjournal"} => pointer = NoPointer

\* The journal: one transition at most, none once recovery has dealt with it, and the
\* markers of the homes name its ends.
PendingInv ==
    /\ JournalCoherent
    /\ part = "recovery" /\ pc \notin {"store_recover", "finish_recovered", "refused"} => pending = {}
    /\ registered # {} =>
           \A t \in pending, role \in Roles : homes[role]["marker"] \in {None, t.from, t.to}

InTransition == part \in {"transition", "compensation"}

TransitionInv ==
    InTransition =>
        /\ transition = [from |-> before.pointer.release, fromPrevious |-> before.pointer.previous,
                         to |-> target]
        /\ target \in registered /\ before.pointer.release \in registered \cup {None}
        /\ before.homes \in Home
        /\ \A role \in Roles : before.homes[role]["marker"] \in {None, before.pointer.release}
        /\ pointer = before.pointer \/ (Active = target /\ pc \notin {"prepare", "materialize", "commit"})
        /\ part = "compensation" /\ pc # "compensate" => pointer = before.pointer
        /\ pc = "unselect" => before.pointer = NoPointer

\* What the writes that are left will write.
TodoInv ==
    /\ todo \in Seq([role : Roles, file : File, release : MaybeRelease])
    /\ pc = "materialize" => \A w \in Range(todo) : w.release \in {None, Subject}
    /\ pc = "deactivate" => \A w \in Range(todo) : w.release = None
    /\ pc = "restore" =>
           /\ \A w \in Range(todo) : w.release = before.homes[w.role][w.file]
           /\ \A role \in Roles, f \in File :
                  \/ homes[role][f] = before.homes[role][f]
                  \/ \E w \in Range(todo) : w.role = role /\ w.file = f

\* What was made whole so far.
HomesMade ==
    /\ part = "recovery" /\ pc \in Replacing => homes = HomesOf(Active)
    /\ part = "transition" /\ pc \notin {"prepare", "materialize"} => homes = HomesOf(target)
    /\ part = "compensation" /\ pc \notin {"compensate", "restore"} => homes = before.homes
PointerMade ==
    part = "transition" /\ pc \notin {"prepare", "materialize", "commit"} =>
        /\ Active = target
        /\ before.pointer.release # target => pointer.previous = before.pointer.release

Replaced == pc = "fail" /\ before.pointer # NoPointer
ProjectionsMade ==
    pc \in {"project", "switch", "restart", "validate", "finish"} \/ Replaced =>
        /\ DOMAIN expectations \subseteq DOMAIN projection
        /\ Projected(Subject)
RuntimeMade ==
    /\ pc \in {"switch", "restart", "validate", "finish"} \/ Replaced => launcher = Subject
    /\ pc \in {"restart", "validate", "finish"} \/ Replaced => selector = Subject
    /\ part \in {"transition", "compensation"} => service \in {before.service, target, None}

LifecycleInv == /\ ControlInv /\ DiskInv /\ PendingInv /\ TransitionInv /\ TodoInv
                /\ HomesMade /\ PointerMade /\ ProjectionsMade /\ RuntimeMade

-----------------------------------------------------------------------------
(* Sequences.  Induction over the numbers, stated of a set of numbers      *)
(* instead of a predicate, gives what FlattenSeq and InOrder return.       *)

\* Every set of numbers that is not empty has a least one.
LEMMA Least ==
    ASSUME NEW T, T \subseteq Nat, T # {}
    PROVE  \E x \in T : \A y \in T : x <= y
<1> DEFINE R == OpToRel(<, Nat)
<1>1. IsWellFoundedOn(R, Nat) BY NatLessThanWellFounded
<1>2. \A x, y \in Nat : x < y => <<x, y>> \in R BY DEF OpToRel
<1> HIDE DEF R
<1>3. PICK x \in T : \A y \in T : ~(<<y, x>> \in R) BY <1>1, WFMin
<1>4. \A y \in T : ~(y < x) BY <1>2, <1>3
<1> QED BY <1>3, <1>4

\* Induction over the numbers, as a statement about sets.
LEMMA Induction ==
    ASSUME NEW T, 0 \in T, \A n \in Nat : n \in T => n + 1 \in T
    PROVE  Nat \subseteq T
<1> SUFFICES ASSUME ~(Nat \subseteq T) PROVE FALSE OBVIOUS
<1>1. PICK x \in Nat \ T : \A y \in Nat \ T : x <= y BY Least
<1>2. x # 0 /\ x - 1 \in Nat OBVIOUS
<1>3. x - 1 \in T BY <1>1, <1>2
<1> QED BY <1>2, <1>3

Flattens(f, s, n) == f = [i \in 1..n |-> IF i = 1 THEN s[i] ELSE f[i - 1] \o s[i]]

\* The recursion of FlattenSeq has a solution.
LEMMA FlatteningExists ==
    ASSUME NEW s, NEW m \in Nat
    PROVE  \E f : Flattens(f, s, m)
<1> DEFINE T == {n \in Nat : \E f : Flattens(f, s, n)}
<1>1. 0 \in T
  <2>1. Flattens([i \in 1..0 |-> s], s, 0) BY DEF Flattens
  <2> QED BY <2>1
<1>2. ASSUME NEW n \in Nat, n \in T PROVE n + 1 \in T
  <2>1. PICK f : Flattens(f, s, n) BY <1>2
  <2> DEFINE g == [i \in 1..(n + 1) |-> IF i = 1 THEN s[i] ELSE f[i - 1] \o s[i]]
  <2>2. ASSUME NEW i \in 1..(n + 1), i # 1 PROVE f[i - 1] = g[i - 1]
    <3>1. i - 1 \in 1..n /\ i - 1 \in 1..(n + 1) BY <2>2
    <3>2. f[i - 1] = IF i - 1 = 1 THEN s[i - 1] ELSE f[i - 1 - 1] \o s[i - 1]
      BY <2>1, <3>1 DEF Flattens
    <3> QED BY <3>1, <3>2
  <2>3. g = [i \in 1..(n + 1) |-> IF i = 1 THEN s[i] ELSE g[i - 1] \o s[i]] BY <2>2
  <2> HIDE DEF g
  <2>4. Flattens(g, s, n + 1) BY <2>3 DEF Flattens
  <2> QED BY <2>4
<1> HIDE DEF T
<1>3. m \in T BY <1>1, <1>2, Induction
<1> QED BY <1>3 DEF T

\* A flattened sequence of sequences has exactly their elements.
LEMMA FlattenedElements ==
    ASSUME NEW S, NEW s \in Seq(Seq(S))
    PROVE  /\ FlattenSeq(s) \in Seq(S)
           /\ Range(FlattenSeq(s)) = UNION {Range(s[i]) : i \in 1..Len(s)}
<1>1. CASE Len(s) = 0
  <2>1. FlattenSeq(s) = s /\ s = <<>> BY <1>1 DEF FlattenSeq
  <2>2. Range(<<>>) = {} BY DEF Range
  <2> QED BY <1>1, <2>1, <2>2
<1>2. CASE Len(s) # 0
  <2> DEFINE f == CHOOSE h : Flattens(h, s, Len(s))
             T == {n \in Nat : n + 1 \in 1..Len(s) =>
                                  /\ f[n + 1] \in Seq(S)
                                  /\ Range(f[n + 1]) = UNION {Range(s[i]) : i \in 1..(n + 1)}}
  <2>1. Len(s) \in Nat /\ Len(s) - 1 \in Nat BY <1>2
  <2>2. FlattenSeq(s) = f[Len(s)] BY <1>2 DEF FlattenSeq, Flattens
  <2>3. Flattens(f, s, Len(s)) BY <2>1, FlatteningExists
  <2> HIDE DEF f
  <2>4. \A i \in 1..Len(s) : f[i] = IF i = 1 THEN s[i] ELSE f[i - 1] \o s[i]
    BY <2>3 DEF Flattens
  <2>5. 0 \in T
    <3>1. f[1] = s[1] /\ s[1] \in Seq(S) BY <1>2, <2>1, <2>4
    <3>2. 1..(0 + 1) = {1} /\ 0 + 1 = 1 /\ 0 \in Nat OBVIOUS
    <3>3. UNION {Range(s[i]) : i \in {1}} = Range(s[1]) OBVIOUS
    <3> QED BY <3>1, <3>2, <3>3
  <2>6. ASSUME NEW n \in Nat, n \in T PROVE n + 1 \in T
    <3>0. n + 1 + 1 = n + 2 /\ n + 2 - 1 = n + 1 /\ n + 2 # 1 OBVIOUS
    <3> SUFFICES ASSUME n + 2 \in 1..Len(s)
                 PROVE  /\ f[n + 2] \in Seq(S)
                        /\ Range(f[n + 2]) = UNION {Range(s[i]) : i \in 1..(n + 2)}
        BY <3>0
    <3>1. n + 1 \in 1..Len(s) BY <2>1
    <3>2. f[n + 2] = f[n + 1] \o s[n + 2]
      <4>1. f[n + 2] = IF n + 2 = 1 THEN s[n + 2] ELSE f[n + 2 - 1] \o s[n + 2] BY <2>4
      <4> QED BY <3>0, <4>1
    <3>3. s[n + 2] \in Seq(S) OBVIOUS
    <3>4. f[n + 1] \in Seq(S) /\ Range(f[n + 1]) = UNION {Range(s[i]) : i \in 1..(n + 1)}
      BY <2>6, <3>1
    <3>5. Range(f[n + 2]) = Range(f[n + 1]) \cup Range(s[n + 2])
      BY <3>2, <3>3, <3>4, RangeConcatenation
    <3>6. 1..(n + 2) = 1..(n + 1) \cup {n + 2} OBVIOUS
    <3>7. Range(f[n + 2]) = UNION {Range(s[i]) : i \in 1..(n + 2)} BY <3>4, <3>5, <3>6
    <3> QED BY <3>2, <3>3, <3>4, <3>7
  <2> HIDE DEF T
  <2>7. Len(s) - 1 \in T BY <2>1, <2>5, <2>6, Induction
  <2> QED BY <2>1, <2>2, <2>7 DEF T
<1> QED BY <1>1, <1>2

Chooses(f, order, set, m) ==
    f = [n \in 0..m |-> IF n = 0 THEN <<>>
                        ELSE IF order[n] \in set THEN Append(f[n - 1], order[n]) ELSE f[n - 1]]

\* The recursion of InOrder has a solution.
LEMMA ChoosingExists ==
    ASSUME NEW order, NEW set, NEW m \in Nat
    PROVE  \E f : Chooses(f, order, set, m)
<1> DEFINE T == {n \in Nat : \E f : Chooses(f, order, set, n)}
<1>1. 0 \in T
  <2>1. Chooses([n \in 0..0 |-> <<>>], order, set, 0) BY DEF Chooses
  <2> QED BY <2>1
<1>2. ASSUME NEW n \in Nat, n \in T PROVE n + 1 \in T
  <2>1. PICK f : Chooses(f, order, set, n) BY <1>2
  <2> DEFINE g == [i \in 0..(n + 1) |->
                      IF i = 0 THEN <<>>
                      ELSE IF order[i] \in set THEN Append(f[i - 1], order[i]) ELSE f[i - 1]]
  <2>2. ASSUME NEW i \in 0..(n + 1), i # 0 PROVE f[i - 1] = g[i - 1]
    <3>1. i - 1 \in 0..n /\ i - 1 \in 0..(n + 1) BY <2>2
    <3>2. f[i - 1] = IF i - 1 = 0 THEN <<>>
                     ELSE IF order[i - 1] \in set THEN Append(f[i - 1 - 1], order[i - 1])
                     ELSE f[i - 1 - 1]
      BY <2>1, <3>1 DEF Chooses
    <3> QED BY <3>1, <3>2
  <2>3. g = [i \in 0..(n + 1) |->
                IF i = 0 THEN <<>>
                ELSE IF order[i] \in set THEN Append(g[i - 1], order[i]) ELSE g[i - 1]]
    BY <2>2
  <2> HIDE DEF g
  <2>4. Chooses(g, order, set, n + 1) BY <2>3 DEF Chooses
  <2> QED BY <2>4
<1> HIDE DEF T
<1>3. m \in T BY <1>1, <1>2, Induction
<1> QED BY <1>3 DEF T

\* The chosen elements of an order are a sequence of its elements.
LEMMA InOrderIsASequence ==
    ASSUME NEW S, NEW order \in Seq(S), NEW set
    PROVE  InOrder(order, set) \in Seq(S)
<1> DEFINE f == CHOOSE h : Chooses(h, order, set, Len(order))
           T == {n \in Nat : n \in 0..Len(order) => f[n] \in Seq(S)}
<1>1. InOrder(order, set) = f[Len(order)] BY DEF InOrder, Chooses
<1>2. Chooses(f, order, set, Len(order)) BY ChoosingExists
<1> HIDE DEF f
<1>3. \A n \in 0..Len(order) :
          f[n] = IF n = 0 THEN <<>>
                 ELSE IF order[n] \in set THEN Append(f[n - 1], order[n]) ELSE f[n - 1]
  BY <1>2 DEF Chooses
<1>4. 0 \in T
  <2>1. f[0] = <<>> BY <1>3
  <2>2. f[0] \in Seq(S) BY <2>1
  <2> QED BY <2>2
<1>5. ASSUME NEW n \in Nat, n \in T PROVE n + 1 \in T
  <2> SUFFICES ASSUME n + 1 \in 0..Len(order) PROVE f[n + 1] \in Seq(S) OBVIOUS
  <2>1. f[n] \in Seq(S) BY <1>5
  <2>2. order[n + 1] \in S OBVIOUS
  <2>3. f[n + 1] = IF n + 1 = 0 THEN <<>>
                   ELSE IF order[n + 1] \in set THEN Append(f[n + 1 - 1], order[n + 1])
                   ELSE f[n + 1 - 1]
    BY <1>3
  <2>4. n + 1 # 0 /\ n + 1 - 1 = n OBVIOUS
  <2>5. f[n + 1] = IF order[n + 1] \in set THEN Append(f[n], order[n + 1]) ELSE f[n]
    BY <2>3, <2>4
  <2> QED BY <2>1, <2>2, <2>5
<1> HIDE DEF T
<1>6. Len(order) \in T BY <1>4, <1>5, Induction
<1> QED BY <1>1, <1>6 DEF T

LEMMA HeadAndTail ==
    ASSUME NEW S, NEW s \in Seq(S), s # <<>>
    PROVE  Tail(s) \in Seq(S) /\ Range(s) = {Head(s)} \cup Range(Tail(s))
<1>1. Len(s) \in Nat \ {0} OBVIOUS
<1>2. Tail(s) \in Seq(S) /\ Len(Tail(s)) = Len(s) - 1 OBVIOUS
<1>3. \A i \in 1..(Len(s) - 1) : Tail(s)[i] = s[i + 1] OBVIOUS
<1>4. Head(s) = s[1] OBVIOUS
<1>5. ASSUME NEW x \in Range(s) PROVE x = Head(s) \/ x \in Range(Tail(s))
  <2>1. PICK i \in 1..Len(s) : x = s[i] BY <1>1 DEF Range
  <2>2. CASE i = 1 BY <1>4, <2>1, <2>2
  <2>3. CASE i # 1
    <3>1. i - 1 \in 1..(Len(s) - 1) /\ i - 1 + 1 = i BY <1>1, <2>3
    <3>2. x = Tail(s)[i - 1] BY <1>3, <2>1, <3>1
    <3>3. i - 1 \in DOMAIN Tail(s) BY <1>2, <3>1
    <3> QED BY <3>2, <3>3 DEF Range
  <2> QED BY <2>2, <2>3
<1>6. ASSUME NEW x \in Range(Tail(s)) PROVE x \in Range(s)
  <2>1. PICK i \in 1..(Len(s) - 1) : x = Tail(s)[i] BY <1>1, <1>2, <1>6 DEF Range
  <2>2. i + 1 \in DOMAIN s /\ x = s[i + 1] BY <1>1, <1>3, <2>1
  <2> QED BY <2>2 DEF Range
<1>7. Head(s) \in Range(s)
  <2>1. 1 \in DOMAIN s BY <1>1
  <2> QED BY <1>4, <2>1 DEF Range
<1> QED BY <1>2, <1>5, <1>6, <1>7

-----------------------------------------------------------------------------
(* The writes of the homes                                                 *)

Writes == [role : Roles, file : File, release : MaybeRelease]

LEMMA OrdersAreSequences ==
    ASSUME OrderAssumption
    PROVE  /\ RoleOrder \in Seq(Roles) /\ SkillOrder \in Seq(File)
           /\ <<"soul">> \o SkillOrder \in Seq(File)
           /\ <<"soul", "marker">> \o SkillOrder \in Seq(File)
<1>1. SkillOrder \in Seq(Skills) BY DEF OrderAssumption
<1>2. Skills \subseteq File /\ "soul" \in File /\ "marker" \in File BY DEF File
<1>3. SkillOrder \in Seq(File) BY <1>1, <1>2, SeqMonotonic
<1>4. <<"soul">> \in Seq(File) /\ <<"soul", "marker">> \in Seq(File) BY <1>2
<1> QED BY <1>3, <1>4 DEF OrderAssumption

LEMMA PutAllAreWrites ==
    ASSUME NEW role \in Roles, NEW files \in Seq(File), NEW r \in MaybeRelease
    PROVE  /\ PutAll(role, files, r) \in Seq(Writes)
           /\ \A w \in Range(PutAll(role, files, r)) : w.release = r
<1>1. \A i \in DOMAIN files : /\ Put(role, files[i], r) \in Writes
                              /\ Put(role, files[i], r).release = r
  BY DEF Put, Writes
<1>2. DOMAIN files = 1..Len(files) /\ Len(files) \in Nat OBVIOUS
<1>3. PutAll(role, files, r) \in [1..Len(files) -> Writes] BY <1>1, <1>2 DEF PutAll
<1>4. PutAll(role, files, r) \in Seq(Writes) BY <1>2, <1>3
<1>5. \A w \in Range(PutAll(role, files, r)) : w.release = r BY <1>1 DEF PutAll, Range
<1> QED BY <1>4, <1>5

LEMMA RoleWritesAreWrites ==
    ASSUME OrderAssumption, NEW role \in Roles, NEW r \in Releases, NEW owners
    PROVE  /\ RoleWrites(role, r, owners) \in Seq(Writes)
           /\ \A w \in Range(RoleWrites(role, r, owners)) : w.release \in {None, r}
<1> DEFINE retired == UNION {Ships[o][role] : o \in owners} \ Ships[r][role]
           soul == <<Put(role, "soul", r)>>
           shipped == PutAll(role, InOrder(SkillOrder, Ships[r][role]), r)
           retiring == PutAll(role, InOrder(SkillOrder, retired), None)
           marker == <<Put(role, "marker", r)>>
           P == {w \in Writes : w.release \in {None, r}}
<1>1. SkillOrder \in Seq(File) BY OrdersAreSequences
<1>2. None \in MaybeRelease /\ r \in MaybeRelease BY DEF MaybeRelease
<1>3. Put(role, "soul", r) \in P /\ Put(role, "marker", r) \in P
  BY <1>2 DEF Put, Writes, File
<1>4. soul \in Seq(P) /\ marker \in Seq(P) BY <1>3
<1>5. /\ shipped \in Seq(Writes) /\ \A w \in Range(shipped) : w.release = r
  BY <1>1, <1>2, InOrderIsASequence, PutAllAreWrites
<1>6. /\ retiring \in Seq(Writes) /\ \A w \in Range(retiring) : w.release = None
  BY <1>1, <1>2, InOrderIsASequence, PutAllAreWrites
<1>7. RoleWrites(role, r, owners) = soul \o shipped \o retiring \o marker BY DEF RoleWrites
<1> HIDE DEF soul, shipped, retiring, marker
<1>8. shipped \in Seq(P) BY <1>5 DEF Range
<1>9. retiring \in Seq(P) BY <1>6 DEF Range
<1>10. RoleWrites(role, r, owners) \in Seq(P)
  BY <1>4, <1>7, <1>8, <1>9
<1>11. \A w \in Range(RoleWrites(role, r, owners)) : w \in P BY <1>10 DEF Range
<1>12. P \subseteq Writes OBVIOUS
<1>13. RoleWrites(role, r, owners) \in Seq(Writes) BY <1>10, <1>12, SeqMonotonic
<1> QED BY <1>11, <1>13

LEMMA MaterializeWritesAre ==
    ASSUME OrderAssumption, NEW r \in Releases, NEW owners
    PROVE  /\ MaterializeWrites(r, owners) \in Seq(Writes)
           /\ \A w \in Range(MaterializeWrites(r, owners)) : w.release \in {None, r}
<1> DEFINE s == [i \in DOMAIN RoleOrder |-> RoleWrites(RoleOrder[i], r, owners)]
<1>1. RoleOrder \in Seq(Roles) BY OrdersAreSequences
<1>2. \A i \in 1..Len(RoleOrder) :
          /\ RoleWrites(RoleOrder[i], r, owners) \in Seq(Writes)
          /\ \A w \in Range(RoleWrites(RoleOrder[i], r, owners)) : w.release \in {None, r}
          /\ s[i] = RoleWrites(RoleOrder[i], r, owners)
  BY <1>1, RoleWritesAreWrites
<1>3. s \in Seq(Seq(Writes)) /\ Len(s) = Len(RoleOrder)
  <2>1. DOMAIN RoleOrder = 1..Len(RoleOrder) /\ Len(RoleOrder) \in Nat BY <1>1
  <2>2. s = [i \in 1..Len(RoleOrder) |-> s[i]] BY <2>1
  <2> HIDE DEF s
  <2>3. s \in [1..Len(RoleOrder) -> Seq(Writes)] BY <1>2, <2>2
  <2> QED BY <2>1, <2>3
<1>4. MaterializeWrites(r, owners) = FlattenSeq(s) BY DEF MaterializeWrites
<1> HIDE DEF s
<1> QED BY <1>2, <1>3, <1>4, FlattenedElements

LEMMA DeactivationWritesAre ==
    ASSUME OrderAssumption
    PROVE  /\ DeactivationWrites \in Seq(Writes)
           /\ \A w \in Range(DeactivationWrites) : w.release = None
<1> DEFINE marked == InOrder(RoleOrder, {role \in Roles : homes[role]["marker"] # None})
           Owned(role) == {"soul"} \cup Ships[homes[role]["marker"]][role]
           Removals(role) ==
               PutAll(role, InOrder(<<"soul">> \o SkillOrder, {f \in Owned(role) : homes[role][f] # None}),
                      None)
           s == [i \in DOMAIN marked |-> Removals(marked[i])]
           markers == [i \in DOMAIN marked |-> Put(marked[i], "marker", None)]
           P == {w \in Writes : w.release = None}
<1>1. marked \in Seq(Roles) BY OrdersAreSequences, InOrderIsASequence
<1>2. None \in MaybeRelease /\ "marker" \in File BY DEF MaybeRelease, File
<1>3. \A role \in Roles : Removals(role) \in Seq(Writes)
                          /\ \A w \in Range(Removals(role)) : w.release = None
  BY <1>2, OrdersAreSequences, InOrderIsASequence, PutAllAreWrites
<1>4. DeactivationWrites = FlattenSeq(s) \o markers BY DEF DeactivationWrites
<1> HIDE DEF marked, Removals
<1>5. \A i \in 1..Len(marked) : /\ Removals(marked[i]) \in Seq(Writes)
                                /\ \A w \in Range(Removals(marked[i])) : w.release = None
                                /\ Put(marked[i], "marker", None) \in P
  <2> SUFFICES ASSUME NEW i \in 1..Len(marked)
               PROVE  /\ Removals(marked[i]) \in Seq(Writes)
                      /\ \A w \in Range(Removals(marked[i])) : w.release = None
                      /\ Put(marked[i], "marker", None) \in P
      OBVIOUS
  <2>1. marked[i] \in Roles BY <1>1
  <2>2. Put(marked[i], "marker", None) \in P BY <1>2, <2>1 DEF Put, Writes
  <2> QED BY <1>3, <2>1, <2>2
<1>6. s \in Seq(Seq(Writes)) /\ Len(s) = Len(marked)
  <2>1. s \in [1..Len(marked) -> Seq(Writes)] BY <1>1, <1>5
  <2> QED BY <1>1, <2>1
<1>7. \A i \in 1..Len(s) : \A w \in Range(s[i]) : w.release = None BY <1>1, <1>5, <1>6
<1>8. markers \in Seq(P)
  <2>1. markers \in [1..Len(marked) -> P] BY <1>1, <1>5
  <2> QED BY <1>1, <2>1
<1> HIDE DEF s, markers
<1>9. FlattenSeq(s) \in Seq(Writes) /\ \A w \in Range(FlattenSeq(s)) : w.release = None
  BY <1>6, <1>7, FlattenedElements
<1>10. FlattenSeq(s) \in Seq(P) BY <1>9 DEF Range
<1>11. DeactivationWrites \in Seq(P) BY <1>4, <1>8, <1>10
<1>12. \A w \in Range(DeactivationWrites) : w \in P BY <1>11 DEF Range
<1>13. P \subseteq Writes OBVIOUS
<1>14. DeactivationWrites \in Seq(Writes) BY <1>11, <1>13, SeqMonotonic
<1> QED BY <1>12, <1>14

\* A restoration writes every managed file of every home, each as it was.
LEMMA RestoreWritesAre ==
    ASSUME OrderAssumption, NEW snapshot \in Home
    PROVE  /\ RestoreWrites(snapshot) \in Seq(Writes)
           /\ \A w \in Range(RestoreWrites(snapshot)) : w.release = snapshot[w.role][w.file]
           /\ \A role \in Roles, f \in File :
                  \E w \in Range(RestoreWrites(snapshot)) : w.role = role /\ w.file = f
<1> DEFINE order == <<"soul", "marker">> \o SkillOrder
           Of(role) == [j \in DOMAIN order |-> Put(role, order[j], snapshot[role][order[j]])]
           s == [i \in DOMAIN RoleOrder |-> Of(RoleOrder[i])]
<1>1. order \in Seq(File) /\ RoleOrder \in Seq(Roles) BY OrdersAreSequences
<1>2. RestoreWrites(snapshot) = FlattenSeq(s) BY DEF RestoreWrites
<1>3. \A f \in File : \E j \in DOMAIN order : order[j] = f
  <2>1. SkillOrder \in Seq(File) BY OrdersAreSequences
  <2> DEFINE first == <<"soul", "marker">>
  <2>2. first \in Seq(File) /\ "soul" \in Range(first) /\ "marker" \in Range(first)
    BY DEF File, Range
  <2>3. Range(order) = Range(first) \cup Range(SkillOrder)
    <3>1. order = first \o SkillOrder OBVIOUS
    <3> HIDE DEF first, order
    <3> QED BY <2>1, <2>2, <3>1, RangeConcatenation
  <2> HIDE DEF first
  <2>4. File \subseteq Range(order) BY <2>2, <2>3 DEF File, Skills
  <2> QED BY <2>4 DEF Range
<1>4. \A role \in Roles : \E i \in DOMAIN RoleOrder : RoleOrder[i] = role BY DEF Roles, Range
<1> HIDE DEF order
<1>5. ASSUME NEW role \in Roles, NEW j \in DOMAIN order
      PROVE  /\ Of(role)[j] \in Writes /\ Of(role)[j].role = role /\ Of(role)[j].file = order[j]
             /\ Of(role)[j].release = snapshot[role][order[j]]
  <2>1. order[j] \in File BY <1>1
  <2> QED BY <2>1 DEF Put, Writes, Home
<1>6. ASSUME NEW role \in Roles
      PROVE  /\ Of(role) \in Seq(Writes)
             /\ \A w \in Range(Of(role)) : w.release = snapshot[w.role][w.file]
             /\ \A f \in File : \E w \in Range(Of(role)) : w.role = role /\ w.file = f
  <2>1. DOMAIN order = 1..Len(order) /\ Len(order) \in Nat BY <1>1
  <2>2. Of(role) \in [1..Len(order) -> Writes] BY <1>5, <2>1
  <2>3. Of(role) \in Seq(Writes) BY <2>1, <2>2
  <2>4. \A w \in Range(Of(role)) : w.release = snapshot[w.role][w.file] BY <1>5 DEF Range
  <2>5. ASSUME NEW f \in File PROVE \E w \in Range(Of(role)) : w.role = role /\ w.file = f
    <3>1. PICK j \in DOMAIN order : order[j] = f BY <1>3
    <3>2. Of(role)[j] \in Range(Of(role)) BY DEF Range
    <3> QED BY <1>5, <3>1, <3>2
  <2> QED BY <2>3, <2>4, <2>5
<1> HIDE DEF Of
<1>7. s \in Seq(Seq(Writes)) /\ Len(s) = Len(RoleOrder)
  <2>1. s \in [1..Len(RoleOrder) -> Seq(Writes)] BY <1>1, <1>6
  <2> QED BY <1>1, <2>1
<1>8. \A i \in 1..Len(RoleOrder) : s[i] = Of(RoleOrder[i]) /\ RoleOrder[i] \in Roles BY <1>1
<1> HIDE DEF s
<1>9. /\ FlattenSeq(s) \in Seq(Writes)
      /\ Range(FlattenSeq(s)) = UNION {Range(s[i]) : i \in 1..Len(RoleOrder)}
  BY <1>7, FlattenedElements
<1>10. \A w \in Range(FlattenSeq(s)) : w.release = snapshot[w.role][w.file]
  BY <1>6, <1>8, <1>9
<1>11. ASSUME NEW role \in Roles, NEW f \in File
       PROVE  \E w \in Range(FlattenSeq(s)) : w.role = role /\ w.file = f
  <2>1. PICK i \in 1..Len(RoleOrder) : RoleOrder[i] = role BY <1>1, <1>4
  <2>2. PICK w \in Range(Of(role)) : w.role = role /\ w.file = f BY <1>6
  <2>3. w \in Range(s[i]) BY <1>8, <2>1, <2>2
  <2> QED BY <1>9, <2>1, <2>2, <2>3
<1> QED BY <1>2, <1>9, <1>10, <1>11

-----------------------------------------------------------------------------
(* The steps of the commands                                               *)

\* A command ends, refused or done, and leaves homes and pointer as they are.
LEMMA CommandEnds ==
    ASSUME LifecycleInv, Release, UNCHANGED <<pointer, registered, homes>>,
           pending' \subseteq pending
    PROVE  LifecycleInv'
<1>1. /\ pc' = "idle" /\ part' = "none" /\ kind' = "none" /\ target' = None /\ todo' = <<>>
  BY DEF Release
<1>2. ControlInv' BY <1>1 DEF ControlInv, Steps, Recovering, Replacing, Removing
<1>3. DiskInv' BY <1>1 DEF LifecycleInv, DiskInv, MaybeRelease, Active
<1>4. PendingInv' BY <1>1 DEF LifecycleInv, PendingInv, JournalCoherent, SourceKnown, Active
<1>5. TodoInv' BY <1>1 DEF TodoInv
<1> QED BY <1>1, <1>2, <1>3, <1>4, <1>5
        DEF LifecycleInv, TransitionInv, InTransition, HomesMade, PointerMade, ProjectionsMade, RuntimeMade,
            Replaced

\* A step of the transition fails: what was proven before no longer counts.
LEMMA CompensateKeeps ==
    ASSUME LifecycleInv, part = "transition", Compensate
    PROVE  LifecycleInv'
<1>1. /\ pc' = "compensate" /\ part' = "compensation"
      /\ UNCHANGED <<pointer, registered, pending, homes, kind, target, transition, before, todo, service>>
  BY DEF Compensate, disk
<1>2. ControlInv' BY <1>1 DEF LifecycleInv, ControlInv, Steps, Recovering, Replacing, Removing
<1>3. DiskInv' BY <1>1 DEF LifecycleInv, DiskInv, Active
<1>4. PendingInv' BY <1>1 DEF LifecycleInv, PendingInv, JournalCoherent, SourceKnown, Active
<1>5. TransitionInv' BY <1>1 DEF LifecycleInv, TransitionInv, InTransition, Active
<1>6. TodoInv' BY <1>1 DEF LifecycleInv, TodoInv
<1> QED BY <1>1, <1>2, <1>3, <1>4, <1>5, <1>6
        DEF LifecycleInv, HomesMade, PointerMade, ProjectionsMade, RuntimeMade, Replaced

\* A command starts between transitions, with no claims of its own.
LEMMA StartKeeps ==
    ASSUME OrderAssumption, LifecycleInv, NEW k \in {"recover", "install", "update", "rollback", "uninstall"},
           NEW r \in MaybeRelease, NEW e, k \in {"install", "update"} => r \in Releases,
           Start(k, r, e)
    PROVE  LifecycleInv'
<1>1. ControlInv'
  BY DEF Start, disk, runtime, Active, LifecycleInv, ControlInv, Steps, Recovering, Replacing,
         Removing
<1>2. DiskInv'
  BY DEF Start, disk, runtime, Active, LifecycleInv, ControlInv, DiskInv, Recovering, Replacing,
         Removing
<1>3. PendingInv'
  BY DEF Start, disk, runtime, Active, LifecycleInv, ControlInv, PendingInv, JournalCoherent,
         SourceKnown, Recovering, Replacing, Removing
<1>4. TransitionInv'
  BY DEF Start, disk, runtime, Active, LifecycleInv, ControlInv, TransitionInv, InTransition,
         Recovering, Replacing, Removing
<1>5. TodoInv'
  <2>1. DeactivationWrites \in Seq(Writes) /\ \A w \in Range(DeactivationWrites) : w.release = None
    BY DeactivationWritesAre
  <2>2. <<>> \in Seq(Writes) OBVIOUS
  <2>3. todo' \in Seq(Writes) /\ (pc' = "deactivate" => todo' = DeactivationWrites)
        /\ pc' \notin {"materialize", "restore"}
    BY <2>1, <2>2 DEF Start
  <2> QED BY <2>1, <2>3 DEF TodoInv, Writes
<1>6. HomesMade'
  BY DEF Start, disk, runtime, Active, LifecycleInv, ControlInv, HomesMade, Subject, Recovering,
         Replacing, Removing
<1>7. PointerMade'
  BY DEF Start, disk, runtime, Active, LifecycleInv, ControlInv, PointerMade, Recovering,
         Replacing, Removing
<1>8. ProjectionsMade'
  BY DEF Start, disk, runtime, Active, LifecycleInv, ControlInv, ProjectionsMade, Replaced,
         Projected, Subject, Recovering, Replacing, Removing
<1>9. RuntimeMade'
  BY DEF Start, disk, runtime, Active, LifecycleInv, ControlInv, RuntimeMade, Replaced, Subject,
         Recovering, Replacing, Removing
<1> QED BY <1>1, <1>2, <1>3, <1>4, <1>5, <1>6, <1>7, <1>8, <1>9 DEF LifecycleInv

LEMMA StoreRecoverKeeps ==
    ASSUME LifecycleInv, StoreRecover
    PROVE  LifecycleInv'
<1>1. ControlInv'
  BY DEF StoreRecover, runtime, progress, AfterStore, LifecycleInv, ControlInv, Steps,
         Recovering, Replacing, Removing
<1>2. DiskInv'
  BY DEF StoreRecover, runtime, progress, AfterStore, LifecycleInv, Active, ControlInv, DiskInv,
         Recovering, Replacing, Removing, SourceKnown, MaybeRelease
<1>3. PendingInv'
  BY DEF StoreRecover, runtime, progress, AfterStore, LifecycleInv, Active, ControlInv,
         PendingInv, JournalCoherent, SourceKnown, Recovering, Replacing, Removing
<1>4. TransitionInv'
  BY DEF StoreRecover, runtime, progress, AfterStore, LifecycleInv, Active, ControlInv,
         TransitionInv, InTransition, Recovering, Replacing, Removing
<1>5. TodoInv'
  BY DEF StoreRecover, runtime, progress, AfterStore, LifecycleInv, Active, ControlInv, TodoInv,
         Subject, Recovering, Replacing
<1>6. HomesMade'
  BY DEF StoreRecover, runtime, progress, AfterStore, LifecycleInv, Active, ControlInv,
         HomesMade, Subject, Recovering, Replacing, Removing
<1>7. PointerMade'
  BY DEF StoreRecover, runtime, progress, AfterStore, LifecycleInv, Active, ControlInv,
         PointerMade, Recovering, Replacing, Removing
<1>8. ProjectionsMade'
  BY DEF StoreRecover, runtime, progress, AfterStore, LifecycleInv, Active, ControlInv,
         ProjectionsMade, Replaced, Projected, Subject, Recovering, Replacing, Removing
<1>9. RuntimeMade'
  BY DEF StoreRecover, runtime, progress, AfterStore, LifecycleInv, Active, ControlInv,
         RuntimeMade, Replaced, Subject, Recovering, Replacing, Removing
<1> QED BY <1>1, <1>2, <1>3, <1>4, <1>5, <1>6, <1>7, <1>8, <1>9 DEF LifecycleInv

LEMMA FinishRecoveredKeeps ==
    ASSUME LifecycleInv, FinishRecovered
    PROVE  LifecycleInv'
<1>1. ControlInv'
  BY DEF FinishRecovered, runtime, command, progress, AfterStore, Active, LifecycleInv,
         ControlInv, Steps, Recovering, Replacing, Removing
<1>2. DiskInv'
  BY DEF FinishRecovered, runtime, command, progress, AfterStore, Active, LifecycleInv,
         ControlInv, DiskInv, Recovering, Replacing, Removing
<1>3. PendingInv'
  BY DEF FinishRecovered, runtime, command, progress, AfterStore, Active, LifecycleInv,
         ControlInv, PendingInv, JournalCoherent, SourceKnown, Recovering, Replacing, Removing
<1>4. TransitionInv'
  BY DEF FinishRecovered, runtime, command, progress, AfterStore, Active, LifecycleInv,
         ControlInv, TransitionInv, InTransition, Recovering, Replacing, Removing
<1>5. TodoInv'
  BY DEF FinishRecovered, runtime, command, progress, AfterStore, Active, LifecycleInv,
         ControlInv, TodoInv, Subject, Recovering, Replacing
<1>6. HomesMade'
  BY DEF FinishRecovered, runtime, command, progress, AfterStore, Active, LifecycleInv,
         ControlInv, HomesMade, Subject, Recovering, Replacing, Removing
<1>7. PointerMade'
  BY DEF FinishRecovered, runtime, command, progress, AfterStore, Active, LifecycleInv,
         ControlInv, PointerMade, Recovering, Replacing, Removing
<1>8. ProjectionsMade'
  BY DEF FinishRecovered, runtime, command, progress, AfterStore, Active, LifecycleInv,
         ControlInv, ProjectionsMade, Replaced, Projected, Subject, Recovering, Replacing,
         Removing
<1>9. RuntimeMade'
  BY DEF FinishRecovered, runtime, command, progress, AfterStore, Active, LifecycleInv,
         ControlInv, RuntimeMade, Replaced, Subject, Recovering, Replacing, Removing
<1> QED BY <1>1, <1>2, <1>3, <1>4, <1>5, <1>6, <1>7, <1>8, <1>9 DEF LifecycleInv

LEMMA RecoverProfilesKeeps ==
    ASSUME ReleaseAssumption, OrderAssumption, LifecycleInv, RecoverProfiles
    PROVE  LifecycleInv'
<1>1. ControlInv'
  BY DEF RecoverProfiles, disk, runtime, command, Active, LifecycleInv, ControlInv, Steps,
         Recovering, Replacing, Removing
<1>2. DiskInv'
  BY DEF RecoverProfiles, disk, runtime, command, Active, LifecycleInv, ControlInv, DiskInv,
         Recovering, Replacing, Removing
<1>3. PendingInv'
  BY DEF RecoverProfiles, disk, runtime, command, Active, LifecycleInv, ControlInv, PendingInv,
         JournalCoherent, SourceKnown, Recovering, Replacing, Removing
<1>4. TransitionInv'
  BY DEF RecoverProfiles, disk, runtime, command, Active, LifecycleInv, ControlInv,
         TransitionInv, InTransition, Recovering, Replacing, Removing
<1>5. TodoInv'
  <2>1. Active # None => Active \in Releases BY DEF LifecycleInv, DiskInv
  <2>2. DeactivationWrites \in Seq(Writes) /\ \A w \in Range(DeactivationWrites) : w.release = None
    BY DeactivationWritesAre
  <2>3. todo \in Seq(Writes) BY DEF LifecycleInv, TodoInv, Writes
  <2>4. UNCHANGED <<part, pointer>> /\ part = "recovery"
    BY DEF RecoverProfiles, disk, command, LifecycleInv, ControlInv, Recovering
  <2>5. CASE pc' = "materialize"
    <3>1. Active # None /\ todo' = MaterializeWrites(Active, {Active, recoveryRecord} \ {None})
      BY <2>5 DEF RecoverProfiles
    <3>2. todo' \in Seq(Writes) /\ \A w \in Range(todo') : w.release \in {None, Active}
      BY <2>1, <3>1, MaterializeWritesAre
    <3>3. Subject' = Active BY <2>4 DEF Subject, Active
    <3> QED BY <2>5, <3>2, <3>3 DEF TodoInv, Writes
  <2>6. CASE pc' = "deactivate"
    BY <2>2, <2>6 DEF RecoverProfiles, TodoInv, Writes
  <2>7. CASE pc' = "refused"
    BY <2>3, <2>7 DEF RecoverProfiles, TodoInv, Writes
  <2> QED BY <2>5, <2>6, <2>7 DEF RecoverProfiles
<1>6. HomesMade'
  BY DEF RecoverProfiles, disk, runtime, command, Active, LifecycleInv, ControlInv, HomesMade,
         Subject, Recovering, Replacing, Removing
<1>7. PointerMade'
  BY DEF RecoverProfiles, disk, runtime, command, Active, LifecycleInv, ControlInv, PointerMade,
         Recovering, Replacing, Removing
<1>8. ProjectionsMade'
  BY DEF RecoverProfiles, disk, runtime, command, Active, LifecycleInv, ControlInv,
         ProjectionsMade, Replaced, Projected, Subject, Recovering, Replacing, Removing
<1>9. RuntimeMade'
  BY DEF RecoverProfiles, disk, runtime, command, Active, LifecycleInv, ControlInv, RuntimeMade,
         Replaced, Subject, Recovering, Replacing, Removing
<1> QED BY <1>1, <1>2, <1>3, <1>4, <1>5, <1>6, <1>7, <1>8, <1>9 DEF LifecycleInv

LEMMA WriteHomeKeeps ==
    ASSUME OrderAssumption, LifecycleInv, WriteHome
    PROVE  LifecycleInv'
<1> DEFINE w == Head(todo)
<1>a. /\ todo \in Seq(Writes) /\ todo # <<>> /\ w \in Writes /\ todo' = Tail(todo)
      /\ Tail(todo) \in Seq(Writes) /\ Range(todo) = {w} \cup Range(Tail(todo))
      /\ homes' = [homes EXCEPT ![w.role] = [homes[w.role] EXCEPT ![w.file] = w.release]]
      /\ pc \in {"materialize", "deactivate", "restore"} /\ pc' = pc
  <2>1. todo \in Seq(Writes) /\ todo # <<>> BY DEF WriteHome, LifecycleInv, TodoInv, Writes
  <2>2. w \in Writes BY <2>1
  <2> QED BY <2>1, <2>2, HeadAndTail DEF WriteHome
<1>b. homes \in Home /\ w.role \in Roles /\ w.file \in File /\ w.release \in MaybeRelease
  BY <1>a DEF LifecycleInv, DiskInv, Writes
<1>c. homes' \in Home BY <1>a, <1>b DEF Home
<1>d. \A role \in Roles, f \in File :
          homes'[role][f] = IF role = w.role /\ f = w.file THEN w.release ELSE homes[role][f]
  <2>1. homes'[w.role] = [homes[w.role] EXCEPT ![w.file] = w.release]
        /\ homes[w.role] \in [File -> MaybeRelease]
    BY <1>a, <1>b DEF Home
  <2>2. \A role \in Roles : role # w.role => homes'[role] = homes[role] BY <1>a, <1>b DEF Home
  <2> QED BY <1>b, <2>1, <2>2
<1>e. UNCHANGED <<pointer, registered, recorded, pending, projection, launcher, selector, service,
                  kind, part, target, expected, recoveryRecord, transition, before, expectations>>
  BY DEF WriteHome, runtime, command
<1>f. w \in Range(todo) /\ Range(todo') \subseteq Range(todo) BY <1>a
<1> HIDE DEF w
<1>1. ControlInv' BY <1>a, <1>e DEF LifecycleInv, ControlInv
<1>2. DiskInv' BY <1>a, <1>c, <1>e DEF LifecycleInv, DiskInv, Active
<1>3. PendingInv'
  <2>1. JournalCoherent' BY <1>e DEF LifecycleInv, PendingInv, JournalCoherent, SourceKnown, Active
  <2>2. ASSUME registered # {}, NEW t \in pending, NEW role \in Roles
        PROVE  homes'[role]["marker"] \in {None, t.from, t.to}
    <3>1. "marker" \in File BY DEF File
    <3>2. homes[role]["marker"] \in {None, t.from, t.to} BY <2>2 DEF LifecycleInv, PendingInv
    <3>3. CASE role = w.role /\ w.file = "marker"
      <4>1. homes'[role]["marker"] = w.release BY <1>d, <3>1, <3>3
      <4>2. CASE pc = "deactivate" BY <1>f, <4>1, <4>2 DEF LifecycleInv, TodoInv
      <4>3. CASE pc = "materialize"
        <5>1. part = "transition"
          BY <4>3 DEF LifecycleInv, ControlInv, PendingInv
        <5>2. w.release \in {None, target}
          BY <1>f, <4>3, <5>1 DEF LifecycleInv, TodoInv, Subject
        <5>3. t = transition /\ t.to = target
          BY <5>1 DEF LifecycleInv, PendingInv, JournalCoherent, TransitionInv, InTransition
        <5> QED BY <4>1, <5>2, <5>3
      <4>4. CASE pc = "restore"
        <5>1. part = "compensation" BY <4>4 DEF LifecycleInv, ControlInv
        <5>2. w.release = before.homes[role]["marker"]
          BY <1>f, <3>3, <4>4 DEF LifecycleInv, TodoInv
        <5>3. t = transition /\ t.from = before.pointer.release
          BY <5>1 DEF LifecycleInv, PendingInv, JournalCoherent, TransitionInv, InTransition
        <5>4. before.homes[role]["marker"] \in {None, before.pointer.release}
          BY <5>1 DEF LifecycleInv, TransitionInv, InTransition
        <5> QED BY <4>1, <5>2, <5>3, <5>4
      <4> QED BY <1>a, <4>2, <4>3, <4>4
    <3>4. CASE ~(role = w.role /\ w.file = "marker")
      BY <1>d, <3>1, <3>2, <3>4
    <3> QED BY <3>3, <3>4
  <2> QED BY <1>a, <1>e, <2>1, <2>2 DEF LifecycleInv, PendingInv
<1>4. TransitionInv'
  BY <1>a, <1>e DEF LifecycleInv, TransitionInv, InTransition, Active
<1>5. TodoInv'
  <2>1. todo' \in Seq(Writes) BY <1>a
  <2>2. ASSUME pc = "restore", NEW role \in Roles, NEW f \in File
        PROVE  \/ homes'[role][f] = before.homes[role][f]
               \/ \E v \in Range(todo') : v.role = role /\ v.file = f
    <3>1. CASE role = w.role /\ f = w.file
      BY <1>d, <1>f, <2>2, <3>1 DEF LifecycleInv, TodoInv
    <3>2. CASE ~(role = w.role /\ f = w.file)
      <4>1. homes'[role][f] = homes[role][f] BY <1>d, <3>2
      <4>2. \A v \in Range(todo) : v.role = role /\ v.file = f => v \in Range(todo')
        BY <1>a, <3>2
      <4> QED BY <2>2, <4>1, <4>2 DEF LifecycleInv, TodoInv
    <3> QED BY <3>1, <3>2
  <2>3. pc = "restore" => \A v \in Range(todo') : v.release = before.homes[v.role][v.file]
    BY <1>f DEF LifecycleInv, TodoInv
  <2>4. pc = "materialize" => \A v \in Range(todo') : v.release \in {None, Subject}
    BY <1>f DEF LifecycleInv, TodoInv
  <2>5. pc = "deactivate" => \A v \in Range(todo') : v.release = None
    BY <1>f DEF LifecycleInv, TodoInv
  <2>6. Subject' = Subject BY <1>e DEF Subject, Active
  <2> QED BY <1>a, <1>e, <2>1, <2>2, <2>3, <2>4, <2>5, <2>6 DEF TodoInv, Writes
<1>6. HomesMade'
  BY <1>a, <1>e DEF LifecycleInv, ControlInv, HomesMade, Replacing
<1>7. PointerMade'
  BY <1>a, <1>e DEF LifecycleInv, ControlInv, PointerMade, Active
<1>8. ProjectionsMade' BY <1>a DEF ProjectionsMade, Replaced
<1>9. RuntimeMade' BY <1>a, <1>e DEF LifecycleInv, RuntimeMade, Replaced
<1> QED BY <1>1, <1>2, <1>3, <1>4, <1>5, <1>6, <1>7, <1>8, <1>9 DEF LifecycleInv

LEMMA MaterializedKeeps ==
    ASSUME LifecycleInv, Materialized
    PROVE  LifecycleInv'
<1>1. ControlInv'
  BY DEF Materialized, disk, runtime, command, progress, LifecycleInv, ControlInv, Steps,
         Recovering, Replacing, Removing
<1>2. DiskInv'
  BY DEF Materialized, disk, runtime, command, progress, LifecycleInv, Active, ControlInv,
         DiskInv, Recovering, Replacing, Removing
<1>3. PendingInv'
  BY DEF Materialized, disk, runtime, command, progress, LifecycleInv, Active, ControlInv,
         PendingInv, JournalCoherent, SourceKnown, Recovering, Replacing, Removing
<1>4. TransitionInv'
  BY DEF Materialized, disk, runtime, command, progress, LifecycleInv, Active, ControlInv,
         TransitionInv, InTransition, Recovering, Replacing, Removing
<1>5. TodoInv'
  BY DEF Materialized, disk, runtime, command, progress, LifecycleInv, Active, ControlInv,
         TodoInv, Subject, Recovering, Replacing
<1>6. HomesMade'
  BY DEF Materialized, disk, runtime, command, progress, LifecycleInv, Active, ControlInv,
         HomesMade, Subject, Recovering, Replacing, Removing
<1>7. PointerMade'
  BY DEF Materialized, disk, runtime, command, progress, LifecycleInv, Active, ControlInv,
         PointerMade, Recovering, Replacing, Removing
<1>8. ProjectionsMade'
  BY DEF Materialized, disk, runtime, command, progress, LifecycleInv, Active, ControlInv,
         ProjectionsMade, Replaced, Projected, Subject, Recovering, Replacing, Removing
<1>9. RuntimeMade'
  BY DEF Materialized, disk, runtime, command, progress, LifecycleInv, Active, ControlInv,
         RuntimeMade, Replaced, Subject, Recovering, Replacing, Removing
<1> QED BY <1>1, <1>2, <1>3, <1>4, <1>5, <1>6, <1>7, <1>8, <1>9 DEF LifecycleInv

LEMMA DeactivatedKeeps ==
    ASSUME LifecycleInv, Deactivated
    PROVE  LifecycleInv'
<1> SUFFICES ASSUME ~Release PROVE LifecycleInv'
    BY CommandEnds DEF Deactivated, disk
<1>1. ControlInv'
  BY DEF Deactivated, disk, runtime, command, progress, LifecycleInv, ControlInv, Steps,
         Recovering, Replacing, Removing
<1>2. DiskInv'
  BY DEF Deactivated, disk, runtime, command, progress, LifecycleInv, Active, ControlInv,
         DiskInv, Recovering, Replacing, Removing
<1>3. PendingInv'
  BY DEF Deactivated, disk, runtime, command, progress, LifecycleInv, Active, ControlInv,
         PendingInv, JournalCoherent, SourceKnown, Recovering, Replacing, Removing
<1>4. TransitionInv'
  BY DEF Deactivated, disk, runtime, command, progress, LifecycleInv, Active, ControlInv,
         TransitionInv, InTransition, Recovering, Replacing, Removing
<1>5. TodoInv'
  BY DEF Deactivated, disk, runtime, command, progress, LifecycleInv, Active, ControlInv,
         TodoInv, Subject, Recovering, Replacing
<1>6. HomesMade'
  BY DEF Deactivated, disk, runtime, command, progress, LifecycleInv, Active, ControlInv,
         HomesMade, Subject, Recovering, Replacing, Removing
<1>7. PointerMade'
  BY DEF Deactivated, disk, runtime, command, progress, LifecycleInv, Active, ControlInv,
         PointerMade, Recovering, Replacing, Removing
<1>8. ProjectionsMade'
  BY DEF Deactivated, disk, runtime, command, progress, LifecycleInv, Active, ControlInv,
         ProjectionsMade, Replaced, Projected, Subject, Recovering, Replacing, Removing
<1>9. RuntimeMade'
  BY DEF Deactivated, disk, runtime, command, progress, LifecycleInv, Active, ControlInv,
         RuntimeMade, Replaced, Subject, Recovering, Replacing, Removing
<1> QED BY <1>1, <1>2, <1>3, <1>4, <1>5, <1>6, <1>7, <1>8, <1>9 DEF LifecycleInv

LEMMA PrepareKeeps ==
    ASSUME ReleaseAssumption, OrderAssumption, LifecycleInv, Prepare
    PROVE  LifecycleInv'
<1>1. ControlInv'
  BY DEF Prepare, disk, runtime, command, Active, LifecycleInv, ControlInv, Steps, Recovering,
         Replacing, Removing
<1>2. DiskInv'
  BY DEF Prepare, disk, runtime, command, Active, LifecycleInv, ControlInv, DiskInv, Recovering,
         Replacing, Removing
<1>3. PendingInv'
  BY DEF Prepare, disk, runtime, command, Active, LifecycleInv, ControlInv, PendingInv,
         JournalCoherent, SourceKnown, Recovering, Replacing, Removing
<1>4. TransitionInv'
  BY DEF Prepare, disk, runtime, command, Active, LifecycleInv, ControlInv, TransitionInv,
         InTransition, Recovering, Replacing, Removing
<1>5. TodoInv'
  <2>1. todo \in Seq(Writes) BY DEF LifecycleInv, TodoInv, Writes
  <2>2. CASE part = "transition"
    <3>1. target \in Releases
      BY <2>2 DEF LifecycleInv, DiskInv, TransitionInv, InTransition
    <3>2. /\ todo' = MaterializeWrites(target, {Active} \ {None}) /\ pc' = "materialize"
          /\ UNCHANGED <<part, target>>
      BY <2>2 DEF Prepare, command
    <3>3. todo' \in Seq(Writes) /\ \A w \in Range(todo') : w.release \in {None, target}
      BY <3>1, <3>2, MaterializeWritesAre
    <3>4. Subject' = target BY <2>2, <3>2 DEF Subject
    <3> QED BY <3>2, <3>3, <3>4 DEF TodoInv, Writes
  <2>3. CASE part # "transition"
    BY <2>1, <2>3 DEF Prepare, TodoInv, Writes
  <2> QED BY <2>2, <2>3
<1>6. HomesMade'
  BY DEF Prepare, disk, runtime, command, Active, LifecycleInv, ControlInv, HomesMade, Subject,
         Recovering, Replacing, Removing
<1>7. PointerMade'
  BY DEF Prepare, disk, runtime, command, Active, LifecycleInv, ControlInv, PointerMade,
         Recovering, Replacing, Removing
<1>8. ProjectionsMade'
  BY DEF Prepare, disk, runtime, command, Active, LifecycleInv, ControlInv, ProjectionsMade,
         Replaced, Projected, Subject, Recovering, Replacing, Removing
<1>9. RuntimeMade'
  BY DEF Prepare, disk, runtime, command, Active, LifecycleInv, ControlInv, RuntimeMade,
         Replaced, Subject, Recovering, Replacing, Removing
<1> QED BY <1>1, <1>2, <1>3, <1>4, <1>5, <1>6, <1>7, <1>8, <1>9 DEF LifecycleInv

LEMMA BeginSelectKeeps ==
    ASSUME LifecycleInv, BeginSelect
    PROVE  LifecycleInv'
<1>1. ControlInv'
  BY DEF BeginSelect, disk, runtime, command, progress, LifecycleInv, ControlInv, Steps,
         Recovering, Replacing, Removing
<1>2. DiskInv'
  BY DEF BeginSelect, disk, runtime, command, progress, LifecycleInv, Active, ControlInv,
         DiskInv, Recovering, Replacing, Removing
<1>3. PendingInv'
  BY DEF BeginSelect, disk, runtime, command, progress, LifecycleInv, Active, ControlInv,
         PendingInv, JournalCoherent, SourceKnown, Recovering, Replacing, Removing
<1>4. TransitionInv'
  BY DEF BeginSelect, disk, runtime, command, progress, LifecycleInv, Active, ControlInv,
         TransitionInv, InTransition, Recovering, Replacing, Removing
<1>5. TodoInv'
  BY DEF BeginSelect, disk, runtime, command, progress, LifecycleInv, Active, ControlInv,
         TodoInv, Subject, Recovering, Replacing
<1>6. HomesMade'
  BY DEF BeginSelect, disk, runtime, command, progress, LifecycleInv, Active, ControlInv,
         HomesMade, Subject, Recovering, Replacing, Removing
<1>7. PointerMade'
  BY DEF BeginSelect, disk, runtime, command, progress, LifecycleInv, Active, ControlInv,
         PointerMade, Recovering, Replacing, Removing
<1>8. ProjectionsMade'
  BY DEF BeginSelect, disk, runtime, command, progress, LifecycleInv, Active, ControlInv,
         ProjectionsMade, Replaced, Projected, Subject, Recovering, Replacing, Removing
<1>9. RuntimeMade'
  BY DEF BeginSelect, disk, runtime, command, progress, LifecycleInv, Active, ControlInv,
         RuntimeMade, Replaced, Subject, Recovering, Replacing, Removing
<1> QED BY <1>1, <1>2, <1>3, <1>4, <1>5, <1>6, <1>7, <1>8, <1>9 DEF LifecycleInv

LEMMA SelectOneKeeps ==
    ASSUME LifecycleInv, SelectOne
    PROVE  LifecycleInv'
<1>1. ControlInv'
  BY DEF SelectOne, runtime, command, progress, LifecycleInv, ControlInv, Steps, Recovering,
         Replacing, Removing
<1>2. DiskInv'
  BY DEF SelectOne, runtime, command, progress, LifecycleInv, Active, ControlInv, DiskInv,
         Recovering, Replacing, Removing
<1>3. PendingInv'
  BY DEF SelectOne, runtime, command, progress, LifecycleInv, Active, ControlInv, PendingInv,
         JournalCoherent, SourceKnown, Recovering, Replacing, Removing
<1>4. TransitionInv'
  BY DEF SelectOne, runtime, command, progress, LifecycleInv, Active, ControlInv, TransitionInv,
         InTransition, Recovering, Replacing, Removing
<1>5. TodoInv'
  BY DEF SelectOne, runtime, command, progress, LifecycleInv, Active, ControlInv, TodoInv,
         Subject, Recovering, Replacing
<1>6. HomesMade'
  BY DEF SelectOne, runtime, command, progress, LifecycleInv, Active, ControlInv, HomesMade,
         Subject, Recovering, Replacing, Removing
<1>7. PointerMade'
  BY DEF SelectOne, runtime, command, progress, LifecycleInv, Active, ControlInv, PointerMade,
         Recovering, Replacing, Removing
<1>8. ProjectionsMade'
  BY DEF SelectOne, runtime, command, progress, LifecycleInv, Active, ControlInv,
         ProjectionsMade, Replaced, Projected, Subject, Recovering, Replacing, Removing
<1>9. RuntimeMade'
  BY DEF SelectOne, runtime, command, progress, LifecycleInv, Active, ControlInv, RuntimeMade,
         Replaced, Subject, Recovering, Replacing, Removing
<1> QED BY <1>1, <1>2, <1>3, <1>4, <1>5, <1>6, <1>7, <1>8, <1>9 DEF LifecycleInv

LEMMA EndSelectKeeps ==
    ASSUME LifecycleInv, EndSelect
    PROVE  LifecycleInv'
<1>1. ControlInv'
  BY DEF EndSelect, disk, runtime, command, progress, AfterSelect, LifecycleInv, ControlInv,
         Steps, Recovering, Replacing, Removing
<1>2. DiskInv'
  BY DEF EndSelect, disk, runtime, command, progress, AfterSelect, LifecycleInv, Active,
         ControlInv, DiskInv, Recovering, Replacing, Removing
<1>3. PendingInv'
  BY DEF EndSelect, disk, runtime, command, progress, AfterSelect, LifecycleInv, Active,
         ControlInv, PendingInv, JournalCoherent, SourceKnown, Recovering, Replacing, Removing
<1>4. TransitionInv'
  BY DEF EndSelect, disk, runtime, command, progress, AfterSelect, LifecycleInv, Active,
         ControlInv, TransitionInv, InTransition, Recovering, Replacing, Removing
<1>5. TodoInv'
  BY DEF EndSelect, disk, runtime, command, progress, AfterSelect, LifecycleInv, Active,
         ControlInv, TodoInv, Subject, Recovering, Replacing
<1>6. HomesMade'
  BY DEF EndSelect, disk, runtime, command, progress, AfterSelect, LifecycleInv, Active,
         ControlInv, HomesMade, Subject, Recovering, Replacing, Removing
<1>7. PointerMade'
  BY DEF EndSelect, disk, runtime, command, progress, AfterSelect, LifecycleInv, Active,
         ControlInv, PointerMade, Recovering, Replacing, Removing
<1>8. ProjectionsMade'
  BY DEF EndSelect, disk, runtime, command, progress, AfterSelect, LifecycleInv, Active,
         ControlInv, ProjectionsMade, Replaced, Projected, Subject, Recovering, Replacing,
         Removing, SameProjects, Selected
<1>9. RuntimeMade'
  BY DEF EndSelect, disk, runtime, command, progress, AfterSelect, LifecycleInv, Active,
         ControlInv, RuntimeMade, Replaced, Subject, Recovering, Replacing, Removing
<1> QED BY <1>1, <1>2, <1>3, <1>4, <1>5, <1>6, <1>7, <1>8, <1>9 DEF LifecycleInv

LEMMA UnselectOneKeeps ==
    ASSUME LifecycleInv, UnselectOne
    PROVE  LifecycleInv'
<1>1. ControlInv'
  BY DEF UnselectOne, runtime, command, progress, LifecycleInv, ControlInv, Steps, Recovering,
         Replacing, Removing
<1>2. DiskInv'
  BY DEF UnselectOne, runtime, command, progress, LifecycleInv, Active, ControlInv, DiskInv,
         Recovering, Replacing, Removing
<1>3. PendingInv'
  BY DEF UnselectOne, runtime, command, progress, LifecycleInv, Active, ControlInv, PendingInv,
         JournalCoherent, SourceKnown, Recovering, Replacing, Removing
<1>4. TransitionInv'
  BY DEF UnselectOne, runtime, command, progress, LifecycleInv, Active, ControlInv,
         TransitionInv, InTransition, Recovering, Replacing, Removing
<1>5. TodoInv'
  BY DEF UnselectOne, runtime, command, progress, LifecycleInv, Active, ControlInv, TodoInv,
         Subject, Recovering, Replacing
<1>6. HomesMade'
  BY DEF UnselectOne, runtime, command, progress, LifecycleInv, Active, ControlInv, HomesMade,
         Subject, Recovering, Replacing, Removing
<1>7. PointerMade'
  BY DEF UnselectOne, runtime, command, progress, LifecycleInv, Active, ControlInv, PointerMade,
         Recovering, Replacing, Removing
<1>8. ProjectionsMade'
  BY DEF UnselectOne, runtime, command, progress, LifecycleInv, Active, ControlInv,
         ProjectionsMade, Replaced, Projected, Subject, Recovering, Replacing, Removing
<1>9. RuntimeMade'
  BY DEF UnselectOne, runtime, command, progress, LifecycleInv, Active, ControlInv, RuntimeMade,
         Replaced, Subject, Recovering, Replacing, Removing
<1> QED BY <1>1, <1>2, <1>3, <1>4, <1>5, <1>6, <1>7, <1>8, <1>9 DEF LifecycleInv

LEMMA EndUnselectKeeps ==
    ASSUME LifecycleInv, EndUnselect
    PROVE  LifecycleInv'
<1>1. ControlInv'
  BY DEF EndUnselect, disk, runtime, command, progress, LifecycleInv, ControlInv, Steps,
         Recovering, Replacing, Removing
<1>2. DiskInv'
  BY DEF EndUnselect, disk, runtime, command, progress, LifecycleInv, Active, ControlInv,
         DiskInv, Recovering, Replacing, Removing
<1>3. PendingInv'
  BY DEF EndUnselect, disk, runtime, command, progress, LifecycleInv, Active, ControlInv,
         PendingInv, JournalCoherent, SourceKnown, Recovering, Replacing, Removing
<1>4. TransitionInv'
  BY DEF EndUnselect, disk, runtime, command, progress, LifecycleInv, Active, ControlInv,
         TransitionInv, InTransition, Recovering, Replacing, Removing
<1>5. TodoInv'
  BY DEF EndUnselect, disk, runtime, command, progress, LifecycleInv, Active, ControlInv,
         TodoInv, Subject, Recovering, Replacing
<1>6. HomesMade'
  BY DEF EndUnselect, disk, runtime, command, progress, LifecycleInv, Active, ControlInv,
         HomesMade, Subject, Recovering, Replacing, Removing
<1>7. PointerMade'
  BY DEF EndUnselect, disk, runtime, command, progress, LifecycleInv, Active, ControlInv,
         PointerMade, Recovering, Replacing, Removing
<1>8. ProjectionsMade'
  BY DEF EndUnselect, disk, runtime, command, progress, LifecycleInv, Active, ControlInv,
         ProjectionsMade, Replaced, Projected, Subject, Recovering, Replacing, Removing,
         TransitionInv, InTransition
<1>9. RuntimeMade'
  BY DEF EndUnselect, disk, runtime, command, progress, LifecycleInv, Active, ControlInv,
         RuntimeMade, Replaced, Subject, Recovering, Replacing, Removing, TransitionInv,
         InTransition
<1> QED BY <1>1, <1>2, <1>3, <1>4, <1>5, <1>6, <1>7, <1>8, <1>9 DEF LifecycleInv

LEMMA NewProjectKeeps ==
    ASSUME LifecycleInv, NEW p, NewProject(p)
    PROVE  LifecycleInv'
<1>1. ControlInv'
  BY DEF NewProject, runtime, command, progress, LifecycleInv, ControlInv, Steps, Recovering,
         Replacing, Removing
<1>2. DiskInv'
  BY DEF NewProject, runtime, command, progress, LifecycleInv, Active, ControlInv, DiskInv,
         Recovering, Replacing, Removing
<1>3. PendingInv'
  BY DEF NewProject, runtime, command, progress, LifecycleInv, Active, ControlInv, PendingInv,
         JournalCoherent, SourceKnown, Recovering, Replacing, Removing
<1>4. TransitionInv'
  BY DEF NewProject, runtime, command, progress, LifecycleInv, Active, ControlInv,
         TransitionInv, InTransition, Recovering, Replacing, Removing
<1>5. TodoInv'
  BY DEF NewProject, runtime, command, progress, LifecycleInv, Active, ControlInv, TodoInv,
         Subject, Recovering, Replacing
<1>6. HomesMade'
  BY DEF NewProject, runtime, command, progress, LifecycleInv, Active, ControlInv, HomesMade,
         Subject, Recovering, Replacing, Removing
<1>7. PointerMade'
  BY DEF NewProject, runtime, command, progress, LifecycleInv, Active, ControlInv, PointerMade,
         Recovering, Replacing, Removing
<1>8. ProjectionsMade'
  BY DEF NewProject, runtime, command, progress, LifecycleInv, Active, ControlInv,
         ProjectionsMade, Replaced, Projected, Subject, Recovering, Replacing, Removing
<1>9. RuntimeMade'
  BY DEF NewProject, runtime, command, progress, LifecycleInv, Active, ControlInv, RuntimeMade,
         Replaced, Subject, Recovering, Replacing, Removing
<1> QED BY <1>1, <1>2, <1>3, <1>4, <1>5, <1>6, <1>7, <1>8, <1>9 DEF LifecycleInv

LEMMA ProjectKeeps ==
    ASSUME LifecycleInv, Project
    PROVE  LifecycleInv'
<1> SUFFICES ASSUME ~Release PROVE LifecycleInv'
    BY CommandEnds DEF Project, disk
<1>1. ControlInv'
  BY DEF Project, disk, command, LifecycleInv, ControlInv, Steps, Recovering, Replacing,
         Removing
<1>2. DiskInv'
  BY DEF Project, disk, command, LifecycleInv, Active, ControlInv, DiskInv, Recovering,
         Replacing, Removing
<1>3. PendingInv'
  BY DEF Project, disk, command, LifecycleInv, Active, ControlInv, PendingInv, JournalCoherent,
         SourceKnown, Recovering, Replacing, Removing
<1>4. TransitionInv'
  BY DEF Project, disk, command, LifecycleInv, Active, ControlInv, TransitionInv, InTransition,
         Recovering, Replacing, Removing
<1>5. TodoInv'
  BY DEF Project, disk, command, LifecycleInv, Active, ControlInv, TodoInv, Subject, Recovering,
         Replacing
<1>6. HomesMade'
  BY DEF Project, disk, command, LifecycleInv, Active, ControlInv, HomesMade, Subject,
         Recovering, Replacing, Removing
<1>7. PointerMade'
  BY DEF Project, disk, command, LifecycleInv, Active, ControlInv, PointerMade, Recovering,
         Replacing, Removing
<1>8. ProjectionsMade'
  BY DEF Project, disk, command, LifecycleInv, Active, ControlInv, ProjectionsMade, Replaced,
         Projected, Subject, Recovering, Replacing, Removing
<1>9. RuntimeMade'
  BY DEF Project, disk, command, LifecycleInv, Active, ControlInv, RuntimeMade, Replaced,
         Subject, Recovering, Replacing, Removing
<1> QED BY <1>1, <1>2, <1>3, <1>4, <1>5, <1>6, <1>7, <1>8, <1>9 DEF LifecycleInv

LEMMA SwitchRuntimeCurrentKeeps ==
    ASSUME LifecycleInv, SwitchRuntimeCurrent
    PROVE  LifecycleInv'
<1>1. ControlInv'
  BY DEF SwitchRuntimeCurrent, disk, command, progress, LifecycleInv, ControlInv, Steps,
         Recovering, Replacing, Removing
<1>2. DiskInv'
  BY DEF SwitchRuntimeCurrent, disk, command, progress, LifecycleInv, Active, ControlInv,
         DiskInv, Recovering, Replacing, Removing
<1>3. PendingInv'
  BY DEF SwitchRuntimeCurrent, disk, command, progress, LifecycleInv, Active, ControlInv,
         PendingInv, JournalCoherent, SourceKnown, Recovering, Replacing, Removing
<1>4. TransitionInv'
  BY DEF SwitchRuntimeCurrent, disk, command, progress, LifecycleInv, Active, ControlInv,
         TransitionInv, InTransition, Recovering, Replacing, Removing
<1>5. TodoInv'
  BY DEF SwitchRuntimeCurrent, disk, command, progress, LifecycleInv, Active, ControlInv,
         TodoInv, Subject, Recovering, Replacing
<1>6. HomesMade'
  BY DEF SwitchRuntimeCurrent, disk, command, progress, LifecycleInv, Active, ControlInv,
         HomesMade, Subject, Recovering, Replacing, Removing
<1>7. PointerMade'
  BY DEF SwitchRuntimeCurrent, disk, command, progress, LifecycleInv, Active, ControlInv,
         PointerMade, Recovering, Replacing, Removing
<1>8. ProjectionsMade'
  BY DEF SwitchRuntimeCurrent, disk, command, progress, LifecycleInv, Active, ControlInv,
         ProjectionsMade, Replaced, Projected, Subject, Recovering, Replacing, Removing
<1>9. RuntimeMade'
  BY DEF SwitchRuntimeCurrent, disk, command, progress, LifecycleInv, Active, ControlInv,
         RuntimeMade, Replaced, Subject, Recovering, Replacing, Removing
<1> QED BY <1>1, <1>2, <1>3, <1>4, <1>5, <1>6, <1>7, <1>8, <1>9 DEF LifecycleInv

LEMMA RestartServiceKeeps ==
    ASSUME LifecycleInv, RestartService
    PROVE  LifecycleInv'
<1>1. ControlInv'
  BY DEF RestartService, disk, command, progress, LifecycleInv, ControlInv, Steps, Recovering,
         Replacing, Removing
<1>2. DiskInv'
  BY DEF RestartService, disk, command, progress, LifecycleInv, Active, ControlInv, DiskInv,
         Recovering, Replacing, Removing
<1>3. PendingInv'
  BY DEF RestartService, disk, command, progress, LifecycleInv, Active, ControlInv, PendingInv,
         JournalCoherent, SourceKnown, Recovering, Replacing, Removing
<1>4. TransitionInv'
  BY DEF RestartService, disk, command, progress, LifecycleInv, Active, ControlInv,
         TransitionInv, InTransition, Recovering, Replacing, Removing
<1>5. TodoInv'
  BY DEF RestartService, disk, command, progress, LifecycleInv, Active, ControlInv, TodoInv,
         Subject, Recovering, Replacing
<1>6. HomesMade'
  BY DEF RestartService, disk, command, progress, LifecycleInv, Active, ControlInv, HomesMade,
         Subject, Recovering, Replacing, Removing
<1>7. PointerMade'
  BY DEF RestartService, disk, command, progress, LifecycleInv, Active, ControlInv, PointerMade,
         Recovering, Replacing, Removing
<1>8. ProjectionsMade'
  BY DEF RestartService, disk, command, progress, LifecycleInv, Active, ControlInv,
         ProjectionsMade, Replaced, Projected, Subject, Recovering, Replacing, Removing
<1>9. RuntimeMade'
  BY DEF RestartService, disk, command, progress, LifecycleInv, Active, ControlInv, RuntimeMade,
         Replaced, Subject, Recovering, Replacing, Removing
<1> QED BY <1>1, <1>2, <1>3, <1>4, <1>5, <1>6, <1>7, <1>8, <1>9 DEF LifecycleInv

LEMMA ValidatedKeeps ==
    ASSUME LifecycleInv, Validated
    PROVE  LifecycleInv'
<1> SUFFICES ASSUME ~Release PROVE LifecycleInv'
    BY CommandEnds DEF Validated, disk
<1>1. ControlInv'
  BY DEF Validated, disk, runtime, command, progress, LifecycleInv, ControlInv, Steps,
         Recovering, Replacing, Removing
<1>2. DiskInv'
  BY DEF Validated, disk, runtime, command, progress, LifecycleInv, Active, ControlInv, DiskInv,
         Recovering, Replacing, Removing
<1>3. PendingInv'
  BY DEF Validated, disk, runtime, command, progress, LifecycleInv, Active, ControlInv,
         PendingInv, JournalCoherent, SourceKnown, Recovering, Replacing, Removing
<1>4. TransitionInv'
  BY DEF Validated, disk, runtime, command, progress, LifecycleInv, Active, ControlInv,
         TransitionInv, InTransition, Recovering, Replacing, Removing
<1>5. TodoInv'
  BY DEF Validated, disk, runtime, command, progress, LifecycleInv, Active, ControlInv, TodoInv,
         Subject, Recovering, Replacing
<1>6. HomesMade'
  BY DEF Validated, disk, runtime, command, progress, LifecycleInv, Active, ControlInv,
         HomesMade, Subject, Recovering, Replacing, Removing
<1>7. PointerMade'
  BY DEF Validated, disk, runtime, command, progress, LifecycleInv, Active, ControlInv,
         PointerMade, Recovering, Replacing, Removing
<1>8. ProjectionsMade'
  BY DEF Validated, disk, runtime, command, progress, LifecycleInv, Active, ControlInv,
         ProjectionsMade, Replaced, Projected, Subject, Recovering, Replacing, Removing
<1>9. RuntimeMade'
  BY DEF Validated, disk, runtime, command, progress, LifecycleInv, Active, ControlInv,
         RuntimeMade, Replaced, Subject, Recovering, Replacing, Removing
<1> QED BY <1>1, <1>2, <1>3, <1>4, <1>5, <1>6, <1>7, <1>8, <1>9 DEF LifecycleInv

LEMMA RegisterKeeps ==
    ASSUME LifecycleInv, Register
    PROVE  LifecycleInv'
<1>1. ControlInv'
  BY DEF Register, runtime, command, progress, Active, LifecycleInv, ControlInv, Steps,
         Recovering, Replacing, Removing
<1>2. DiskInv'
  BY DEF Register, runtime, command, progress, Active, LifecycleInv, ControlInv, DiskInv,
         Recovering, Replacing, Removing, MaybeRelease
<1>3. PendingInv'
  BY DEF Register, runtime, command, progress, Active, LifecycleInv, ControlInv, PendingInv,
         JournalCoherent, SourceKnown, Recovering, Replacing, Removing
<1>4. TransitionInv'
  BY DEF Register, runtime, command, progress, Active, LifecycleInv, ControlInv, TransitionInv,
         InTransition, Recovering, Replacing, Removing
<1>5. TodoInv'
  BY DEF Register, runtime, command, progress, Active, LifecycleInv, ControlInv, TodoInv,
         Subject, Recovering, Replacing
<1>6. HomesMade'
  BY DEF Register, runtime, command, progress, Active, LifecycleInv, ControlInv, HomesMade,
         Subject, Recovering, Replacing, Removing
<1>7. PointerMade'
  BY DEF Register, runtime, command, progress, Active, LifecycleInv, ControlInv, PointerMade,
         Recovering, Replacing, Removing
<1>8. ProjectionsMade'
  BY DEF Register, runtime, command, progress, Active, LifecycleInv, ControlInv,
         ProjectionsMade, Replaced, Projected, Subject, Recovering, Replacing, Removing
<1>9. RuntimeMade'
  BY DEF Register, runtime, command, progress, Active, LifecycleInv, ControlInv, RuntimeMade,
         Replaced, Subject, Recovering, Replacing, Removing
<1> QED BY <1>1, <1>2, <1>3, <1>4, <1>5, <1>6, <1>7, <1>8, <1>9 DEF LifecycleInv

LEMMA BeginKeeps ==
    ASSUME LifecycleInv, Begin
    PROVE  LifecycleInv'
<1> DEFINE t == [from |-> Active, fromPrevious |-> pointer.previous, to |-> Chosen]
<1>a. /\ pc = "authorize" /\ pc' = "prepare" /\ part = "recovery" /\ part' = "transition"
      /\ pending = {} /\ pending' = {t} /\ transition' = t /\ target' = Chosen
      /\ before' = [pointer |-> pointer, homes |-> homes, service |-> service]
      /\ Chosen \in registered /\ kind \in {"install", "update", "rollback"}
      /\ UNCHANGED <<pointer, registered, homes, projection, launcher, selector, service, kind, todo>>
  BY DEF Begin, Authorized, runtime, LifecycleInv, ControlInv, PendingInv, Recovering
<1>b. \A role \in Roles : homes[role]["marker"] \in {None, Active}
  BY DEF Begin, Authorized, PreflightAccepts
<1>c. t.from = Active /\ t.to = Chosen /\ t.fromPrevious = pointer.previous
      /\ before'.pointer = pointer /\ before'.homes = homes /\ before'.service = service
  BY <1>a
<1>d. Chosen \in Releases /\ Active \in registered \cup {None} /\ homes \in Home
  BY <1>a DEF LifecycleInv, DiskInv
<1> HIDE DEF t
<1>1. ControlInv'
  BY <1>a DEF LifecycleInv, ControlInv, Steps, Recovering, Replacing, Removing
<1>2. DiskInv'
  BY <1>a, <1>d DEF LifecycleInv, DiskInv, Active, MaybeRelease
<1>3. PendingInv'
  <2>1. JournalCoherent' BY <1>a, <1>c, <1>d DEF JournalCoherent, SourceKnown, Active
  <2> QED BY <1>a, <1>b, <1>c, <2>1 DEF PendingInv
<1>4. TransitionInv'
  <2>1. t = [from |-> pointer.release, fromPrevious |-> pointer.previous, to |-> Chosen]
    BY DEF t, Active
  <2> QED BY <1>a, <1>b, <1>c, <1>d, <2>1 DEF TransitionInv, Active
<1>5. TodoInv' BY <1>a DEF LifecycleInv, TodoInv
<1>6. HomesMade' BY <1>a DEF HomesMade
<1>7. PointerMade' BY <1>a DEF PointerMade
<1>8. ProjectionsMade' BY <1>a DEF ProjectionsMade, Replaced
<1>9. RuntimeMade' BY <1>a, <1>c DEF RuntimeMade, Replaced
<1> QED BY <1>1, <1>2, <1>3, <1>4, <1>5, <1>6, <1>7, <1>8, <1>9 DEF LifecycleInv

LEMMA CommitActiveKeeps ==
    ASSUME ReleaseAssumption, LifecycleInv, CommitActive
    PROVE  LifecycleInv'
<1>1. ControlInv'
  BY DEF CommitActive, runtime, command, progress, Active, LifecycleInv, ControlInv, Steps,
         Recovering, Replacing, Removing
<1>2. DiskInv'
  BY DEF CommitActive, runtime, command, progress, Active, LifecycleInv, ControlInv, DiskInv,
         Recovering, Replacing, Removing, TransitionInv, InTransition
<1>3. PendingInv'
  BY DEF CommitActive, runtime, command, progress, Active, LifecycleInv, ControlInv, PendingInv,
         JournalCoherent, SourceKnown, Recovering, Replacing, Removing, TransitionInv,
         InTransition
<1>4. TransitionInv'
  BY DEF CommitActive, runtime, command, progress, Active, LifecycleInv, ControlInv,
         TransitionInv, InTransition, Recovering, Replacing, Removing
<1>5. TodoInv'
  BY DEF CommitActive, runtime, command, progress, Active, LifecycleInv, ControlInv, TodoInv,
         Subject, Recovering, Replacing
<1>6. HomesMade'
  BY DEF CommitActive, runtime, command, progress, Active, LifecycleInv, ControlInv, HomesMade,
         Subject, Recovering, Replacing, Removing
<1>7. PointerMade'
  BY DEF CommitActive, runtime, command, progress, Active, LifecycleInv, ControlInv,
         PointerMade, Recovering, Replacing, Removing, TransitionInv, InTransition, Predecessor
<1>8. ProjectionsMade'
  BY DEF CommitActive, runtime, command, progress, Active, LifecycleInv, ControlInv,
         ProjectionsMade, Replaced, Projected, Subject, Recovering, Replacing, Removing
<1>9. RuntimeMade'
  BY DEF CommitActive, runtime, command, progress, Active, LifecycleInv, ControlInv,
         RuntimeMade, Replaced, Subject, Recovering, Replacing, Removing
<1> QED BY <1>1, <1>2, <1>3, <1>4, <1>5, <1>6, <1>7, <1>8, <1>9 DEF LifecycleInv

LEMMA RestorePointerKeeps ==
    ASSUME OrderAssumption, LifecycleInv, RestorePointer
    PROVE  LifecycleInv'
<1>1. ControlInv'
  BY DEF RestorePointer, runtime, command, Active, LifecycleInv, ControlInv, Steps, Recovering,
         Replacing, Removing
<1>2. DiskInv'
  BY DEF RestorePointer, runtime, command, Active, LifecycleInv, ControlInv, DiskInv,
         Recovering, Replacing, Removing, TransitionInv, InTransition
<1>3. PendingInv'
  BY DEF RestorePointer, runtime, command, Active, LifecycleInv, ControlInv, PendingInv,
         JournalCoherent, SourceKnown, Recovering, Replacing, Removing, TransitionInv,
         InTransition
<1>4. TransitionInv'
  BY DEF RestorePointer, runtime, command, Active, LifecycleInv, ControlInv, TransitionInv,
         InTransition, Recovering, Replacing, Removing
<1>5. TodoInv'
  <2>1. before.homes \in Home /\ before' = before
    BY DEF RestorePointer, command, LifecycleInv, ControlInv, TransitionInv, InTransition
  <2>2. todo' = RestoreWrites(before.homes) /\ pc' = "restore" BY DEF RestorePointer
  <2>3. /\ todo' \in Seq(Writes)
        /\ \A w \in Range(todo') : w.release = before.homes[w.role][w.file]
        /\ \A role \in Roles, f \in File :
               \E w \in Range(todo') : w.role = role /\ w.file = f
    BY <2>1, <2>2, RestoreWritesAre
  <2> QED BY <2>1, <2>2, <2>3 DEF TodoInv, Writes
<1>6. HomesMade'
  BY DEF RestorePointer, runtime, command, Active, LifecycleInv, ControlInv, HomesMade, Subject,
         Recovering, Replacing, Removing
<1>7. PointerMade'
  BY DEF RestorePointer, runtime, command, Active, LifecycleInv, ControlInv, PointerMade,
         Recovering, Replacing, Removing
<1>8. ProjectionsMade'
  BY DEF RestorePointer, runtime, command, Active, LifecycleInv, ControlInv, ProjectionsMade,
         Replaced, Projected, Subject, Recovering, Replacing, Removing
<1>9. RuntimeMade'
  BY DEF RestorePointer, runtime, command, Active, LifecycleInv, ControlInv, RuntimeMade,
         Replaced, Subject, Recovering, Replacing, Removing
<1> QED BY <1>1, <1>2, <1>3, <1>4, <1>5, <1>6, <1>7, <1>8, <1>9 DEF LifecycleInv

LEMMA RestoredKeeps ==
    ASSUME OrderAssumption, LifecycleInv, Restored
    PROVE  LifecycleInv'
<1>1. ControlInv'
  BY DEF Restored, disk, runtime, command, progress, LifecycleInv, ControlInv, Steps,
         Recovering, Replacing, Removing
<1>2. DiskInv'
  BY DEF Restored, disk, runtime, command, progress, LifecycleInv, Active, ControlInv, DiskInv,
         Recovering, Replacing, Removing
<1>3. PendingInv'
  BY DEF Restored, disk, runtime, command, progress, LifecycleInv, Active, ControlInv,
         PendingInv, JournalCoherent, SourceKnown, Recovering, Replacing, Removing
<1>4. TransitionInv'
  BY DEF Restored, disk, runtime, command, progress, LifecycleInv, Active, ControlInv,
         TransitionInv, InTransition, Recovering, Replacing, Removing
<1>5. TodoInv'
  BY DEF Restored, disk, runtime, command, progress, LifecycleInv, Active, ControlInv, TodoInv,
         Subject, Recovering, Replacing
<1>6. HomesMade'
  <2>1. /\ pc = "restore" /\ part = "compensation" /\ todo = <<>>
        /\ homes \in Home /\ before.homes \in Home
        /\ UNCHANGED <<homes, before, part>>
    BY DEF Restored, disk, command, LifecycleInv, ControlInv, DiskInv, TransitionInv, InTransition
  <2>2. Range(<<>>) = {} BY DEF Range
  <2>3. \A role \in Roles, f \in File : homes[role][f] = before.homes[role][f]
    BY <2>1, <2>2 DEF LifecycleInv, TodoInv
  <2>4. homes = before.homes BY <2>1, <2>3 DEF Home
  <2> QED BY <2>1, <2>4 DEF HomesMade
<1>7. PointerMade'
  BY DEF Restored, disk, runtime, command, progress, LifecycleInv, Active, ControlInv,
         PointerMade, Recovering, Replacing, Removing
<1>8. ProjectionsMade'
  BY DEF Restored, disk, runtime, command, progress, LifecycleInv, Active, ControlInv,
         ProjectionsMade, Replaced, Projected, Subject, Recovering, Replacing, Removing
<1>9. RuntimeMade'
  BY DEF Restored, disk, runtime, command, progress, LifecycleInv, Active, ControlInv,
         RuntimeMade, Replaced, Subject, Recovering, Replacing, Removing
<1> QED BY <1>1, <1>2, <1>3, <1>4, <1>5, <1>6, <1>7, <1>8, <1>9 DEF LifecycleInv

LEMMA UnprojectKeeps ==
    ASSUME LifecycleInv, Unproject
    PROVE  LifecycleInv'
<1>1. ControlInv'
  BY DEF Unproject, disk, command, progress, Active, LifecycleInv, ControlInv, Steps,
         Recovering, Replacing, Removing
<1>2. DiskInv'
  BY DEF Unproject, disk, command, progress, Active, LifecycleInv, ControlInv, DiskInv,
         Recovering, Replacing, Removing
<1>3. PendingInv'
  BY DEF Unproject, disk, command, progress, Active, LifecycleInv, ControlInv, PendingInv,
         JournalCoherent, SourceKnown, Recovering, Replacing, Removing
<1>4. TransitionInv'
  BY DEF Unproject, disk, command, progress, Active, LifecycleInv, ControlInv, TransitionInv,
         InTransition, Recovering, Replacing, Removing
<1>5. TodoInv'
  BY DEF Unproject, disk, command, progress, Active, LifecycleInv, ControlInv, TodoInv, Subject,
         Recovering, Replacing
<1>6. HomesMade'
  BY DEF Unproject, disk, command, progress, Active, LifecycleInv, ControlInv, HomesMade,
         Subject, Recovering, Replacing, Removing
<1>7. PointerMade'
  BY DEF Unproject, disk, command, progress, Active, LifecycleInv, ControlInv, PointerMade,
         Recovering, Replacing, Removing
<1>8. ProjectionsMade'
  BY DEF Unproject, disk, command, progress, Active, LifecycleInv, ControlInv, ProjectionsMade,
         Replaced, Projected, Subject, Recovering, Replacing, Removing
<1>9. RuntimeMade'
  BY DEF Unproject, disk, command, progress, Active, LifecycleInv, ControlInv, RuntimeMade,
         Replaced, Subject, Recovering, Replacing, Removing
<1> QED BY <1>1, <1>2, <1>3, <1>4, <1>5, <1>6, <1>7, <1>8, <1>9 DEF LifecycleInv

LEMMA RemovePointerKeeps ==
    ASSUME LifecycleInv, RemovePointer
    PROVE  LifecycleInv'
<1>1. ControlInv'
  BY DEF RemovePointer, runtime, command, progress, LifecycleInv, ControlInv, Steps, Recovering,
         Replacing, Removing
<1>2. DiskInv'
  BY DEF RemovePointer, runtime, command, progress, LifecycleInv, Active, ControlInv, DiskInv,
         Recovering, Replacing, Removing, NoPointer
<1>3. PendingInv'
  BY DEF RemovePointer, runtime, command, progress, LifecycleInv, Active, ControlInv,
         PendingInv, JournalCoherent, SourceKnown, Recovering, Replacing, Removing, NoPointer
<1>4. TransitionInv'
  BY DEF RemovePointer, runtime, command, progress, LifecycleInv, Active, ControlInv,
         TransitionInv, InTransition, Recovering, Replacing, Removing
<1>5. TodoInv'
  BY DEF RemovePointer, runtime, command, progress, LifecycleInv, Active, ControlInv, TodoInv,
         Subject, Recovering, Replacing
<1>6. HomesMade'
  BY DEF RemovePointer, runtime, command, progress, LifecycleInv, Active, ControlInv, HomesMade,
         Subject, Recovering, Replacing, Removing
<1>7. PointerMade'
  BY DEF RemovePointer, runtime, command, progress, LifecycleInv, Active, ControlInv,
         PointerMade, Recovering, Replacing, Removing
<1>8. ProjectionsMade'
  BY DEF RemovePointer, runtime, command, progress, LifecycleInv, Active, ControlInv,
         ProjectionsMade, Replaced, Projected, Subject, Recovering, Replacing, Removing
<1>9. RuntimeMade'
  BY DEF RemovePointer, runtime, command, progress, LifecycleInv, Active, ControlInv,
         RuntimeMade, Replaced, Subject, Recovering, Replacing, Removing
<1> QED BY <1>1, <1>2, <1>3, <1>4, <1>5, <1>6, <1>7, <1>8, <1>9 DEF LifecycleInv

LEMMA RemoveReleasesKeeps ==
    ASSUME LifecycleInv, RemoveReleases
    PROVE  LifecycleInv'
<1>1. ControlInv'
  BY DEF RemoveReleases, runtime, command, progress, LifecycleInv, ControlInv, Steps,
         Recovering, Replacing, Removing
<1>2. DiskInv'
  BY DEF RemoveReleases, runtime, command, progress, LifecycleInv, Active, ControlInv, DiskInv,
         Recovering, Replacing, Removing, NoPointer
<1>3. PendingInv'
  BY DEF RemoveReleases, runtime, command, progress, LifecycleInv, Active, ControlInv,
         PendingInv, JournalCoherent, SourceKnown, Recovering, Replacing, Removing, DiskInv,
         NoPointer
<1>4. TransitionInv'
  BY DEF RemoveReleases, runtime, command, progress, LifecycleInv, Active, ControlInv,
         TransitionInv, InTransition, Recovering, Replacing, Removing
<1>5. TodoInv'
  BY DEF RemoveReleases, runtime, command, progress, LifecycleInv, Active, ControlInv, TodoInv,
         Subject, Recovering, Replacing
<1>6. HomesMade'
  BY DEF RemoveReleases, runtime, command, progress, LifecycleInv, Active, ControlInv,
         HomesMade, Subject, Recovering, Replacing, Removing
<1>7. PointerMade'
  BY DEF RemoveReleases, runtime, command, progress, LifecycleInv, Active, ControlInv,
         PointerMade, Recovering, Replacing, Removing
<1>8. ProjectionsMade'
  BY DEF RemoveReleases, runtime, command, progress, LifecycleInv, Active, ControlInv,
         ProjectionsMade, Replaced, Projected, Subject, Recovering, Replacing, Removing
<1>9. RuntimeMade'
  BY DEF RemoveReleases, runtime, command, progress, LifecycleInv, Active, ControlInv,
         RuntimeMade, Replaced, Subject, Recovering, Replacing, Removing
<1> QED BY <1>1, <1>2, <1>3, <1>4, <1>5, <1>6, <1>7, <1>8, <1>9 DEF LifecycleInv

-----------------------------------------------------------------------------
(* The theorems                                                            *)

LEMMA LifecycleStarts ==
    ASSUME Init
    PROVE  LifecycleInv
<1>1. homes \in Home BY DEF Init, Home, MaybeRelease
<1>2. ControlInv BY DEF Init, ControlInv, Steps, Recovering, Replacing, Removing
<1>3. DiskInv BY <1>1 DEF Init, DiskInv, Active, NoPointer, MaybeRelease
<1>4. PendingInv BY DEF Init, PendingInv, JournalCoherent, Active, NoPointer
<1>5. TodoInv BY DEF Init, TodoInv
<1>6. pc = "idle" /\ part = "none" BY DEF Init
<1> QED BY <1>2, <1>3, <1>4, <1>5, <1>6
        DEF LifecycleInv, TransitionInv, InTransition, HomesMade, PointerMade, ProjectionsMade, RuntimeMade,
            Replaced

LEMMA StartCommandKeeps ==
    ASSUME OrderAssumption, LifecycleInv, StartCommand
    PROVE  LifecycleInv'
<1>1. None \in MaybeRelease /\ Releases \subseteq MaybeRelease BY DEF MaybeRelease
<1>2. CASE Start("recover", None, None) BY <1>1, <1>2, StartKeeps
<1>3. CASE Start("uninstall", None, None) BY <1>1, <1>3, StartKeeps
<1>4. CASE \E r \in Releases, e \in MaybeRelease :
              Start("install", r, e) \/ Start("update", r, e) \/ Start("rollback", r, e)
  BY <1>1, <1>4, StartKeeps
<1>5. CASE \E e \in MaybeRelease : Start("rollback", None, e) BY <1>1, <1>5, StartKeeps
<1> QED BY <1>2, <1>3, <1>4, <1>5 DEF StartCommand

\* The steps that only end a command.
LEMMA EndingsKeep ==
    ASSUME LifecycleInv,
           \/ Refused \/ RecoveryUnproven \/ ProjectionsRefused \/ Unauthorized \/ Finish \/ Fail
           \/ RemoveTransitions \/ Interrupt
    PROVE  LifecycleInv'
BY CommandEnds DEF Refused, RecoveryUnproven, ProjectionsRefused, Unauthorized, Finish, Fail,
                   RemoveTransitions, Interrupt, disk

LEMMA FailuresKeep ==
    ASSUME LifecycleInv, ProjectFails \/ StepFails \/ TransitionRefused
    PROVE  LifecycleInv'
BY CommandEnds, CompensateKeeps DEF ProjectFails, StepFails, TransitionRefused, disk

LEMMA StepKeeps ==
    ASSUME ReleaseAssumption, OrderAssumption, LifecycleInv, Step
    PROVE  LifecycleInv'
<1>1. CASE Refused BY <1>1, EndingsKeep
<1>2. CASE Recovery
  BY <1>2, StoreRecoverKeeps, FinishRecoveredKeeps, RecoverProfilesKeeps, EndingsKeep, DeactivatedKeeps
     DEF Recovery
<1>3. CASE Profiles BY <1>3, WriteHomeKeeps, MaterializedKeeps DEF Profiles
<1>4. CASE Projections
  BY <1>4, PrepareKeeps, BeginSelectKeeps, SelectOneKeeps, EndSelectKeeps, UnselectOneKeeps,
     EndUnselectKeeps, EndingsKeep DEF Projections
<1>5. CASE Runtime
  BY <1>5, ProjectKeeps, SwitchRuntimeCurrentKeeps, RestartServiceKeeps, ValidatedKeeps DEF Runtime
<1>6. CASE Activation
  BY <1>6, RegisterKeeps, BeginKeeps, EndingsKeep, CommitActiveKeeps, RestorePointerKeeps,
     RestoredKeeps, FailuresKeep DEF Activation
<1>7. CASE Removal
  BY <1>7, UnprojectKeeps, RemovePointerKeeps, RemoveReleasesKeeps, EndingsKeep DEF Removal
<1> QED BY <1>1, <1>2, <1>3, <1>4, <1>5, <1>6, <1>7 DEF Step

LEMMA LifecycleSteps ==
    ASSUME ReleaseAssumption, OrderAssumption, LifecycleInv, [Next]_vars
    PROVE  LifecycleInv'
<1>1. CASE UNCHANGED vars
  BY <1>1 DEF vars, disk, runtime, command, progress, limits, LifecycleInv, ControlInv, DiskInv,
              PendingInv, JournalCoherent, SourceKnown, TransitionInv, InTransition, TodoInv, Subject, HomesMade,
              PointerMade, ProjectionsMade, Projected, RuntimeMade, Replaced, Active
<1>2. CASE StartCommand BY <1>2, StartCommandKeeps
<1>3. CASE Step BY <1>3, StepKeeps
<1>4. CASE ProjectFails \/ StepFails \/ Interrupt BY <1>4, FailuresKeep, EndingsKeep
<1>5. CASE \E p \in Projects : NewProject(p) BY <1>5, NewProjectKeeps
<1> QED BY <1>1, <1>2, <1>3, <1>4, <1>5 DEF Next

\* What the steps rely on holds of every installation, whichever commands ran and crashed.
THEOREM LifecycleInvariant == Spec => []LifecycleInv
<1> USE ReleaseAssumption, OrderAssumption
<1>1. Init => LifecycleInv BY LifecycleStarts
<1>2. LifecycleInv /\ [Next]_vars => LifecycleInv' BY LifecycleSteps
<1> QED BY <1>1, <1>2, PTL DEF Spec

\* A home that is whole and whose marker is one of the ends of a transition is taken over.
LEMMA WholeHomesAreTakenOver ==
    ASSUME LifecycleInv, ReleaseAssumption, OrderAssumption, WholeHomes, registered # {},
           NEW t \in pending
    PROVE  SourceKnown(t) /\ TakesOver(t.from, t.to)
<1>1. SourceKnown(t) /\ t.to \in registered /\ registered \subseteq Releases /\ None \notin Releases
  BY DEF LifecycleInv, DiskInv, PendingInv, JournalCoherent, ReleaseAssumption
<1>2. \A role \in Roles : homes[role]["marker"] \in {None, t.from, t.to}
  BY DEF LifecycleInv, PendingInv
<1>3. ASSUME NEW role \in Roles
      PROVE  LET m == homes[role]["marker"] IN
             \/ m = None /\ \A f \in File : homes[role][f] = None
             \/ m \in Releases /\ \A f \in File : homes[role][f] \in {None, m}
  <2>1. "marker" \in File BY DEF File
  <2>2. CASE \A f \in File : homes[role][f] = None BY <2>1, <2>2
  <2>3. CASE \E r \in Releases : homes[role] = HomeOf(r, role)
    <3>1. PICK r \in Releases : homes[role] = HomeOf(r, role) BY <2>3
    <3>2. homes[role]["marker"] = r /\ \A f \in File : homes[role][f] \in {None, r}
      BY <2>1, <3>1 DEF HomeOf
    <3> QED BY <3>2
  <2> QED BY <2>2, <2>3 DEF WholeHomes
<1>4. \A r \in Releases, role \in Roles : Ships[r][role] \subseteq File /\ "soul" \in File
  BY DEF ReleaseAssumption, File
<1>5. CASE t.from = None
  <2>1. \A role \in Roles : homes[role]["marker"] \in {None, t.to} BY <1>2, <1>5
  <2> QED BY <1>1, <1>3, <1>4, <1>5, <2>1 DEF TakesOver, DeactivationAccepts
<1>6. CASE t.from # None
  <2>1. t.from \in Releases BY <1>1, <1>6 DEF SourceKnown
  <2>2. PreflightAccepts(t.from, t.from, IF t.to = t.from THEN None ELSE t.to)
    BY <1>1, <1>2, <1>3, <1>4, <2>1 DEF PreflightAccepts
  <2> QED BY <1>1, <1>6, <2>2 DEF TakesOver
<1> QED BY <1>5, <1>6

(* Recovery never has to choose between transitions, and whole homes are taken over while one
   is pending, for every set of releases, skills and roles: no step writes a marker that names
   neither end of the transition that is pending, and nothing is journalled over another. *)
THEOREM PendingIsAlwaysRecoverable == Spec => []PendingIsRecoverable
<1> USE ReleaseAssumption, OrderAssumption
<1>1. LifecycleInv => PendingIsRecoverable
  <2> SUFFICES ASSUME LifecycleInv PROVE PendingIsRecoverable OBVIOUS
  <2>1. JournalCoherent BY DEF LifecycleInv, PendingInv
  <2>2. pending # {} /\ registered # {} /\ WholeHomes => Recoverable
    BY WholeHomesAreTakenOver DEF Recoverable
  <2> QED BY <2>1, <2>2 DEF PendingIsRecoverable
<1> QED BY <1>1, LifecycleInvariant, PTL

(* A transition is reported committed only when pointer, homes, projections, launcher and selector
   are all its target's (the end of _activate_existing_locked).  Whether the service is depends on
   its restart, whose failure is only recorded: it runs the target, what it ran before, or nothing. *)
THEOREM TransitionsCommitWhole == Spec => CommittedIsWhole
<1>1. LifecycleInv /\ [Next]_vars =>
          [Finish => /\ pointer.release = target
                     /\ before.pointer.release # target =>
                            pointer.previous = before.pointer.release
                     /\ homes = HomesOf(target)
                     /\ Projected(target) /\ Serves(target) /\ ServiceIsKnown]_vars
  BY DEF Finish, LifecycleInv, ControlInv, HomesMade, PointerMade, ProjectionsMade, RuntimeMade, Serves,
         Subject, Active, ServiceIsKnown
<1> QED BY <1>1, LifecycleInvariant, PTL DEF Spec, CommittedIsWhole

(* A transition is reported failed only when its compensation put back pointer and homes, and
   projections, launcher and selector are the previous release's again, whichever step failed
   and however often.  The service may go on with the target: nothing restarts it. *)
THEOREM FailuresAreUndone == Spec => FailedIsUndone
<1>1. LifecycleInv /\ [Next]_vars =>
          [Fail => /\ pointer = before.pointer
                   /\ homes = before.homes
                   /\ before.pointer # NoPointer =>
                         Projected(before.pointer.release) /\ Serves(before.pointer.release)
                   /\ ServiceIsKnown]_vars
  BY DEF Fail, LifecycleInv, ControlInv, TransitionInv, InTransition, HomesMade, ProjectionsMade,
         RuntimeMade, Replaced, Serves, Subject, ServiceIsKnown
<1> QED BY <1>1, LifecycleInvariant, PTL DEF Spec, FailedIsUndone

(* A recovery that reports no error leaves the active release in charge of homes, projections
   and runtime, whatever the crash it recovers from left behind. *)
THEOREM RecoveriesAreWhole == Spec => RecoveredIsWhole
<1>1. LifecycleInv /\ [Next]_vars =>
          [RecoverEnds => homes = HomesOf(Active) /\ Projected(Active) /\ Serves(Active)]_vars
  <2> SUFFICES ASSUME LifecycleInv, RecoverEnds
               PROVE  homes = HomesOf(Active) /\ Projected(Active) /\ Serves(Active)
      OBVIOUS
  <2>1. part = "recovery" /\ pc \in {"validate", "project"} /\ Subject = Active
    BY DEF RecoverEnds, LifecycleInv, ControlInv, Replacing, Subject
  <2>2. homes = HomesOf(Active) /\ Projected(Active)
    BY <2>1 DEF LifecycleInv, HomesMade, ProjectionsMade, Replacing
  <2>3. CASE pc = "validate"
    BY <2>1, <2>2, <2>3 DEF LifecycleInv, RuntimeMade, Serves
  <2>4. CASE pc = "project"
    BY <2>1, <2>2, <2>4 DEF RecoverEnds, Project, InPlace, Serves
  <2> QED BY <2>1, <2>2, <2>3, <2>4
<1> QED BY <1>1, LifecycleInvariant, PTL DEF Spec, RecoveredIsWhole

-----------------------------------------------------------------------------
(* Editable mappings.  The copies are of the metadata the call began with, *)
(* because nothing is installed before the last one is taken; uv is run in *)
(* order, so it has changed nobody's scripts out of turn; and when an      *)
(* installation begins the tree has the receipt's digest, or was edited    *)
(* since that was last looked at.                                          *)

Taken(n) == [i \in 1..n |-> original[i]]

Working == {"install", "compare", "canary", "restore"}
EditableTypes ==
    /\ installed = [i \in Position |-> installed[i]]
    /\ scripts = [i \in Position |-> scripts[i]]
    /\ original = [i \in Position |-> original[i]]
    /\ edition \in [Homes -> Editions] /\ next \in Position
    /\ stage \in {"idle", "inspect", "copy"} \cup Working
    /\ stage # "idle" => home \in Homes

CopiesInv ==
    /\ stage = "inspect" => next = 1
    /\ stage \in {"inspect", "copy"} => installed = original
    /\ stage \in {"idle", "inspect"} => copies = Taken(0)
    /\ stage = "copy" => copies = Taken(next - 1)
    /\ stage \in Working => copies = Taken(Interpreters)
    /\ stage = "restore" => \A i \in Position : i < next => installed[i] = original[i]

\* uv has changed no scripts before it came to the interpreter.
InTurn == \A i \in Position : scripts[i] # originalScripts[i] =>
                                  \A j \in Position : j < i => j \in modified
ScriptsInv ==
    /\ stage \in {"inspect", "copy"} => scripts = originalScripts
    /\ stage = "install" =>
           /\ \A j \in Position : j < next => j \in modified
           /\ \A i \in Position : ~(i < next) => scripts[i] = originalScripts[i]
    /\ stage = "compare" =>
           /\ \A j \in Position : j < next \/ j = next => j \in modified
           /\ \A i \in Position : next < i => scripts[i] = originalScripts[i]
    /\ stage \in Working => InTurn

\* What a successful installation leaves.
Mapped(i) == /\ installed[i] \in Mapping /\ installed[i].home = home
             /\ scripts[i] = installed[i]
             /\ installed[i].edition = digest \/ i \in unquiet
MadeInv ==
    /\ stage = "copy" => edition[home] = digest \/ 1 \in unquiet
    /\ stage = "install" => edition[home] = digest \/ next \in unquiet
    /\ stage \in {"install", "compare"} => \A i \in Position : i < next => Mapped(i)
    /\ stage = "compare" => Mapped(next)
    /\ stage = "canary" => \A i \in Position :
           Mapped(i) /\ (i < next => wanted \subseteq Exports[installed[i].edition])

EditableInv == EditableTypes /\ CopiesInv /\ ScriptsInv /\ MadeInv /\ ReceiptIsTrue

LEMMA SomeInterpreter ==
    ASSUME EditableAssumption
    PROVE  /\ Interpreters \in Nat /\ 1 \in Position /\ Position \subseteq Nat
           /\ \A i \in Position : /\ i < Interpreters => i + 1 \in Position
                                  /\ ~(i < Interpreters) => i = Interpreters
                                  /\ ~(i < 1)
BY DEF EditableAssumption, Position

\* Taking one more copy, while nothing was changed yet.
LEMMA OneMoreTaken ==
    ASSUME NEW i \in Nat \ {0}
    PROVE  Append(Taken(i - 1), original[i]) = Taken(i)
BY DEF Taken

\* A receipt claims nothing before the call that writes it ends.
LEMMA NoReceipt == ASSUME stage' # "idle" PROVE ReceiptIsTrue'
BY DEF ReceiptIsTrue

\* The end of a call: what its receipt claims is all there is to show.
LEMMA CallEnds ==
    ASSUME EditableAssumption, EditableInv, stage' = "idle", copies' = <<>>,
           UNCHANGED <<edition, home, original, next>>,
           (installed = [i \in Position |-> installed[i]])',
           (scripts = [i \in Position |-> scripts[i]])', ReceiptIsTrue'
    PROVE  EditableInv'
<1>1. (Taken(0) = <<>>)' BY DEF Taken
<1> QED BY <1>1 DEF EditableInv, EditableTypes, CopiesInv, ScriptsInv, MadeInv, Working

LEMMA EditableStarts ==
    ASSUME EditableAssumption, EditableInit
    PROVE  EditableInv
<1>1. Taken(0) = <<>> BY DEF Taken
<1>2. installed = [i \in Position |-> installed[i]] BY DEF EditableInit
<1>3. edition \in [Homes -> Editions] BY DEF EditableInit, EditableAssumption
<1> QED BY <1>1, <1>2, <1>3, SomeInterpreter
        DEF EditableInit, EditableInv, EditableTypes, CopiesInv, ScriptsInv, MadeInv, Working,
            ReceiptIsTrue, Undone, Reconciled

LEMMA ReconcileKeeps ==
    ASSUME EditableAssumption, EditableInv, NEW h \in Homes, Reconcile(h)
    PROVE  EditableInv'
<1>1. (Taken(0) = <<>>)' /\ Taken(0) = <<>> BY DEF Taken
<1>2. ReceiptIsTrue' BY NoReceipt DEF Reconcile
<1> QED BY <1>1, <1>2, SomeInterpreter
        DEF Reconcile, EditableInv, EditableTypes, CopiesInv, ScriptsInv, MadeInv, Working

LEMMA InspectKeeps ==
    ASSUME EditableAssumption, EditableInv, Inspect
    PROVE  EditableInv'
<1>1. CASE \A i \in Position : IsEditable(i)
  <2>1. (Taken(next - 1))' = copies
    BY <1>1 DEF Inspect, input, EditableInv, CopiesInv, Taken
  <2>2. ReceiptIsTrue' BY <1>1, NoReceipt DEF Inspect
  <2> QED BY <1>1, <2>1, <2>2
          DEF Inspect, input, EditableInv, EditableTypes, CopiesInv, ScriptsInv, MadeInv, Working
<1>2. CASE ~(\A i \in Position : IsEditable(i))
  <2>1. installed = original /\ scripts = originalScripts
    BY DEF Inspect, EditableInv, CopiesInv, ScriptsInv
  <2>2. /\ stage' = "idle" /\ status' = "refused" /\ copies' = <<>>
        /\ UNCHANGED <<installed, scripts, original, originalScripts, edition, home, next>>
    BY <1>2 DEF Inspect, input, Settle
  <2>3. ReceiptIsTrue' BY <2>1, <2>2 DEF ReceiptIsTrue, Undone, Reconciled
  <2> QED BY <2>2, <2>3, CallEnds DEF EditableInv, EditableTypes
<1> QED BY <1>1, <1>2

LEMMA CopyKeeps ==
    ASSUME EditableAssumption, EditableInv, Copy
    PROVE  EditableInv'
<1>1. /\ stage = "copy" /\ installed = original /\ copies = Taken(next - 1)
      /\ scripts = originalScripts
      /\ copies' = Append(copies, installed[next])
      /\ next \in Position /\ next \in Nat \ {0}
      /\ UNCHANGED <<home, wanted, original, originalScripts, reconciles, installed, scripts,
                     edition, digest, modified, unquiet>>
  BY SomeInterpreter
     DEF Copy, input, EditableInv, EditableTypes, CopiesInv, ScriptsInv, Position
<1>2. copies' = Taken(next) BY <1>1, OneMoreTaken
<1>3. CASE next < Interpreters
  <2>1. next' = next + 1 /\ stage' = stage BY <1>3 DEF Copy, Advance
  <2>2. (Taken(next - 1))' = Taken(next) BY <1>1, <2>1 DEF Taken
  <2>3. ReceiptIsTrue' BY <1>1, <2>1, NoReceipt
  <2> QED BY <1>1, <1>2, <1>3, <2>1, <2>2, <2>3, SomeInterpreter
          DEF EditableInv, EditableTypes, CopiesInv, ScriptsInv, MadeInv, Working
<1>4. CASE ~(next < Interpreters)
  <2>1. next' = 1 /\ stage' = "install" /\ next = Interpreters
    BY <1>1, <1>4, SomeInterpreter DEF Copy, Advance
  <2>2. (Taken(Interpreters))' = Taken(next) BY <1>1, <2>1 DEF Taken
  <2>3. \A i \in Position : ~(i < next') BY <2>1 DEF Position
  <2>4. ReceiptIsTrue' BY <2>1, NoReceipt
  <2> QED BY <1>1, <1>2, <2>1, <2>2, <2>3, <2>4, SomeInterpreter
          DEF EditableInv, EditableTypes, CopiesInv, ScriptsInv, InTurn, MadeInv, Working
<1> QED BY <1>3, <1>4

LEMMA AbandonKeeps ==
    ASSUME EditableAssumption, EditableInv, Abandon
    PROVE  EditableInv'
BY CallEnds DEF Abandon, Settle, input, EditableInv, EditableTypes, ReceiptIsTrue, Undone,
                Reconciled

\* The steps of an installation leave the copies alone.
LEMMA CopiesStay ==
    ASSUME EditableInv, UNCHANGED <<original, copies>>, stage \in Working, stage' \in Working
    PROVE  copies' = (Taken(Interpreters))'
BY DEF EditableInv, CopiesInv, Taken

LEMMA ReinstallKeeps ==
    ASSUME EditableAssumption, EditableInv, Reinstall
    PROVE  EditableInv'
<1> DEFINE new == [home |-> home, edition |-> edition[home]]
<1>1. /\ stage = "install" /\ stage' = "compare" /\ home \in Homes /\ next \in Position
      /\ edition[home] = digest \/ next \in unquiet
      /\ edition[home] \in Editions
      /\ installed' = [installed EXCEPT ![next] = new] /\ scripts' = [scripts EXCEPT ![next] = new]
      /\ modified' = modified \cup {next}
      /\ UNCHANGED <<home, original, originalScripts, edition, next, digest, copies, unquiet>>
  BY DEF Reinstall, input, EditableInv, EditableTypes, MadeInv, Working
<1>2. new \in Mapping BY <1>1 DEF Mapping
<1>3. /\ (installed = [i \in Position |-> installed[i]])'
      /\ (scripts = [i \in Position |-> scripts[i]])'
  BY <1>1 DEF EditableInv, EditableTypes
<1>4. /\ installed'[next] = new /\ scripts'[next] = new
      /\ \A i \in Position : i # next => installed'[i] = installed[i] /\ scripts'[i] = scripts[i]
  BY <1>1 DEF EditableInv, EditableTypes
<1>5. Mapped(next)' BY <1>1, <1>2, <1>4 DEF Mapped
<1>6. \A i \in Position : i < next => i # next BY SomeInterpreter
<1>7. \A i \in Position : next < i => ~(i < next) /\ i # next BY <1>1, SomeInterpreter
<1>8. \A i \in Position : i < next => Mapped(i)'
  <2> SUFFICES ASSUME NEW i \in Position, i < next PROVE Mapped(i)' OBVIOUS
  <2>1. Mapped(i) BY <1>1 DEF EditableInv, MadeInv
  <2> QED BY <1>1, <1>4, <1>6, <2>1 DEF Mapped
<1>9. ScriptsInv'
  <2>1. \A j \in Position : j < next => j \in modified BY <1>1 DEF EditableInv, ScriptsInv
  <2>2. \A i \in Position : next < i => scripts'[i] = originalScripts'[i]
    BY <1>1, <1>4, <1>7 DEF EditableInv, ScriptsInv
  <2>3. \A i \in Position : scripts'[i] # originalScripts'[i] => ~(next < i)
    BY <2>2
  <2>4. \A i, j \in Position : ~(next < i) /\ j < i => j < next BY <1>1, SomeInterpreter
  <2>5. InTurn' BY <1>1, <2>1, <2>3, <2>4 DEF InTurn
  <2> QED BY <1>1, <2>1, <2>2, <2>5 DEF ScriptsInv
<1>10. CopiesInv'
  <2>1. copies' = (Taken(Interpreters))' BY <1>1, CopiesStay DEF Working
  <2> QED BY <1>1, <2>1 DEF CopiesInv, Working
<1>11. MadeInv' BY <1>1, <1>5, <1>8 DEF MadeInv
<1>12. ReceiptIsTrue' BY <1>1, NoReceipt
<1> QED BY <1>1, <1>3, <1>9, <1>10, <1>11, <1>12 DEF EditableInv, EditableTypes, Working

\* Once a step failed, what was made so far no longer matters.
LEMMA RollsBack ==
    ASSUME EditableAssumption, EditableInv, stage \in Working, RollBack,
           UNCHANGED <<home, original, edition>>,
           (installed = [i \in Position |-> installed[i]])',
           (scripts = [i \in Position |-> scripts[i]])', InTurn'
    PROVE  EditableInv'
<1>1. stage' = "restore" /\ next' = 1 /\ copies' = copies BY DEF RollBack
<1>2. copies' = (Taken(Interpreters))' BY <1>1, CopiesStay DEF Working
<1>3. \A i \in Position : ~(i < next') BY <1>1 DEF Position
<1>4. ReceiptIsTrue' BY <1>1, NoReceipt
<1> QED BY <1>1, <1>2, <1>3, <1>4, SomeInterpreter
        DEF EditableInv, EditableTypes, CopiesInv, ScriptsInv, MadeInv, Working

\* A failing uv leaves or removes the scripts of the interpreter it was run for.
LEMMA ReinstallFailsKeeps ==
    ASSUME EditableAssumption, EditableInv, ReinstallFails
    PROVE  EditableInv'
<1>1. /\ stage = "install" /\ next \in Position
      /\ UNCHANGED <<home, original, originalScripts, edition, modified>>
      /\ \E left \in {scripts[next], Bare} : scripts' = [scripts EXCEPT ![next] = left]
  BY DEF ReinstallFails, input, EditableInv, EditableTypes
<1>2. /\ (installed = [i \in Position |-> installed[i]])'
      /\ (scripts = [i \in Position |-> scripts[i]])'
  BY <1>1 DEF ReinstallFails, EditableInv, EditableTypes
<1>3. \A i \in Position : i # next => scripts'[i] = scripts[i]
  BY <1>1 DEF EditableInv, EditableTypes
<1>4. InTurn'
  <2>1. \A j \in Position : j < next => j \in modified
    BY <1>1 DEF EditableInv, ScriptsInv
  <2>2. InTurn BY <1>1 DEF EditableInv, ScriptsInv, Working
  <2> QED BY <1>1, <1>3, <2>1, <2>2 DEF InTurn
<1> QED BY <1>1, <1>2, <1>4, RollsBack DEF ReinstallFails, Working

LEMMA CompareTreeKeeps ==
    ASSUME EditableAssumption, EditableInv, CompareTree
    PROVE  EditableInv'
<1>1. /\ stage = "compare" /\ next \in Position
      /\ UNCHANGED <<home, wanted, original, originalScripts, installed, scripts, edition,
                     digest, modified, unquiet>>
  BY DEF CompareTree, input, EditableInv, EditableTypes
<1>a. InTurn /\ InTurn' BY <1>1 DEF EditableInv, ScriptsInv, Working, InTurn
<1>2. CASE ~TreeKept
  BY <1>1, <1>a, <1>2, RollsBack DEF CompareTree, Working, EditableInv, EditableTypes
<1>3. CASE TreeKept
  <2>1. copies' = copies BY <1>3 DEF CompareTree
  <2>2. \A i \in Position : i < next \/ i = next => Mapped(i)
    BY <1>1 DEF EditableInv, MadeInv
  <2>3. \A i \in Position : Mapped(i)' <=> Mapped(i) BY <1>1 DEF Mapped
  <2>4. /\ \A j \in Position : j < next \/ j = next => j \in modified
        /\ \A i \in Position : next < i => scripts[i] = originalScripts[i]
    BY <1>1 DEF EditableInv, ScriptsInv
  <2>5. CASE next < Interpreters
    <3>1. next' = next + 1 /\ stage' = "install" BY <1>3, <2>5 DEF CompareTree
    <3>2. \A i \in Position : /\ i < next' => i < next \/ i = next
                              /\ ~(i < next') => next < i
      BY <1>1, <3>1, SomeInterpreter
    <3>3. copies' = (Taken(Interpreters))' BY <1>1, <2>1, <3>1, CopiesStay DEF Working
    <3>4. ScriptsInv' BY <1>1, <1>a, <2>4, <3>1, <3>2 DEF ScriptsInv
    <3>5. MadeInv' BY <1>1, <1>3, <2>2, <2>3, <3>1, <3>2 DEF MadeInv, TreeKept
    <3>6. ReceiptIsTrue' BY <3>1, NoReceipt
    <3> QED BY <1>1, <2>5, <3>1, <3>3, <3>4, <3>5, <3>6, SomeInterpreter
            DEF EditableInv, EditableTypes, CopiesInv, Working
  <2>6. CASE ~(next < Interpreters)
    <3>1. next' = 1 /\ stage' = "canary" /\ next = Interpreters
      BY <1>1, <1>3, <2>6, SomeInterpreter DEF CompareTree
    <3>2. \A i \in Position : i < next \/ i = next BY <3>1 DEF Position, EditableAssumption
    <3>3. copies' = (Taken(Interpreters))' BY <1>1, <2>1, <3>1, CopiesStay DEF Working
    <3>4. ScriptsInv' BY <1>a, <3>1 DEF ScriptsInv
    <3>5. MadeInv' BY <2>2, <2>3, <3>1, <3>2, SomeInterpreter DEF MadeInv
    <3>6. ReceiptIsTrue' BY <3>1, NoReceipt
    <3> QED BY <1>1, <3>1, <3>3, <3>4, <3>5, <3>6, SomeInterpreter
            DEF EditableInv, EditableTypes, CopiesInv, Working
  <2> QED BY <2>5, <2>6
<1> QED BY <1>2, <1>3

\* Each interpreter that passes has the modules that were wanted.
LEMMA CanaryKeeps ==
    ASSUME EditableAssumption, EditableInv, Canary
    PROVE  EditableInv'
<1>1. /\ stage = "canary" /\ next \in Position
      /\ UNCHANGED <<home, wanted, original, originalScripts, installed, scripts, edition,
                     digest, modified, unquiet>>
      /\ installed = [i \in Position |-> installed[i]] /\ scripts = [i \in Position |-> scripts[i]]
  BY DEF Canary, input, EditableInv, EditableTypes
<1>a. InTurn /\ InTurn' BY <1>1 DEF EditableInv, ScriptsInv, Working, InTurn
<1>2. CASE RollBack BY <1>1, <1>a, <1>2, RollsBack DEF Working
<1>3. CASE ~RollBack
  <2>1. wanted \subseteq Exports[installed[next].edition] BY <1>3 DEF Canary, Resolves
  <2>2. \A i \in Position :
            Mapped(i) /\ (i < next => wanted \subseteq Exports[installed[i].edition])
    BY <1>1 DEF EditableInv, MadeInv
  <2>3. \A i \in Position : Mapped(i)' <=> Mapped(i) BY <1>1 DEF Mapped
  <2>4. CASE next < Interpreters
    <3>1. next' = next + 1 /\ UNCHANGED <<stage, status, copies>> BY <1>3, <2>4 DEF Canary
    <3>2. copies' = (Taken(Interpreters))' BY <1>1, <3>1, CopiesStay DEF Working
    <3>3. \A i \in Position : i < next' => i < next \/ i = next BY <1>1, <3>1, SomeInterpreter
    <3>4. MadeInv' BY <1>1, <2>1, <2>2, <2>3, <3>1, <3>3 DEF MadeInv
    <3>5. ReceiptIsTrue' BY <1>1, <3>1, NoReceipt
    <3> QED BY <1>1, <1>a, <2>4, <3>1, <3>2, <3>4, <3>5, SomeInterpreter
            DEF EditableInv, EditableTypes, CopiesInv, ScriptsInv, Working
  <2>5. CASE ~(next < Interpreters)
    <3>1. Settle("reconciled") /\ UNCHANGED next BY <1>3, <2>5 DEF Canary
    <3>2. \A i \in Position : i < next \/ i = next
      BY <1>1, <2>5, SomeInterpreter DEF Position
    <3>3. \A i \in Position : wanted \subseteq Exports[installed[i].edition]
      BY <2>1, <2>2, <3>2
    <3>4. ReceiptIsTrue'
      BY <1>1, <2>2, <3>1, <3>3 DEF Settle, ReceiptIsTrue, Undone, Reconciled, Mapped
    <3> QED BY <1>1, <3>1, <3>4, CallEnds DEF Settle
  <2> QED BY <2>4, <2>5
<1> QED BY <1>2, <1>3

LEMMA RestoreKeeps ==
    ASSUME EditableAssumption, EditableInv, Restore
    PROVE  EditableInv'
<1>1. /\ stage = "restore" /\ next \in Position /\ copies = Taken(Interpreters)
      /\ installed' = [installed EXCEPT ![next] = copies[next]]
      /\ UNCHANGED <<home, original, originalScripts, scripts, edition, digest, modified>>
  BY DEF Restore, ToRestore, input, EditableInv, EditableTypes, CopiesInv, Working
<1>a. InTurn /\ InTurn' BY <1>1 DEF EditableInv, ScriptsInv, Working, InTurn
<1>2. copies[next] = original[next] BY <1>1 DEF Taken, Position
<1>3. /\ (installed = [i \in Position |-> installed[i]])'
      /\ (scripts = [i \in Position |-> scripts[i]])'
  BY <1>1 DEF EditableInv, EditableTypes
<1>4. \A i \in Position : i < next \/ i = next => installed'[i] = original[i]
  BY <1>1, <1>2 DEF EditableInv, EditableTypes, CopiesInv
<1>5. CASE next < Interpreters
  <2>1. next' = next + 1 /\ UNCHANGED <<stage, status, copies>> BY <1>5 DEF Restore
  <2>2. copies' = (Taken(Interpreters))' BY <1>1, <2>1, CopiesStay DEF Working
  <2>3. \A i \in Position : i < next' => i < next \/ i = next BY <1>1, <2>1, SomeInterpreter
  <2>4. ReceiptIsTrue' BY <1>1, <2>1, NoReceipt
  <2> QED BY <1>1, <1>a, <1>3, <1>4, <1>5, <2>1, <2>2, <2>3, <2>4, SomeInterpreter
          DEF EditableInv, EditableTypes, CopiesInv, ScriptsInv, MadeInv, Working
<1>6. CASE ~(next < Interpreters)
  <2>1. Settle("rolled_back") /\ UNCHANGED next BY <1>6 DEF Restore
  <2>2. \A i \in Position : i < next \/ i = next
    BY <1>1, <1>6, SomeInterpreter DEF Position
  <2>3. installed' = original'
    BY <1>1, <1>3, <1>4, <2>2 DEF EditableInv, EditableTypes
  <2>4. ReceiptIsTrue'
    BY <1>1, <1>a, <2>1, <2>3 DEF Settle, ReceiptIsTrue, Undone, Reconciled, InTurn
  <2> QED BY <1>1, <1>3, <2>1, <2>4, CallEnds DEF Settle
<1> QED BY <1>5, <1>6

LEMMA RestoreFailsKeeps ==
    ASSUME EditableAssumption, EditableInv, RestoreFails
    PROVE  EditableInv'
<1>1. /\ (installed = [i \in Position |-> installed[i]])'
      /\ (scripts = [i \in Position |-> scripts[i]])'
  BY DEF RestoreFails, EditableInv, EditableTypes
<1> QED BY <1>1, CallEnds DEF RestoreFails, Settle, input, ReceiptIsTrue, Undone, Reconciled

LEMMA UserInterruptsKeeps ==
    ASSUME EditableAssumption, EditableInv, UserInterrupts
    PROVE  EditableInv'
<1>1. /\ (installed = [i \in Position |-> installed[i]])'
      /\ (scripts = [i \in Position |-> scripts[i]])'
  BY DEF UserInterrupts, EditableInv, EditableTypes
<1> QED BY <1>1, CallEnds DEF UserInterrupts, Settle, input, ReceiptIsTrue, Undone, Reconciled

\* An edit that could be in time for an installation is remembered for that interpreter.
LEMMA EditKeeps ==
    ASSUME EditableAssumption, EditableInv, NEW h \in Homes, Edit(h)
    PROVE  EditableInv'
<1>1. /\ UNCHANGED <<home, wanted, original, originalScripts, installed, scripts, stage, next,
                     digest, copies, modified, status>>
      /\ unquiet \subseteq unquiet'
      /\ \E e \in Editions : edition' = [edition EXCEPT ![h] = e]
      /\ edition \in [Homes -> Editions]
      /\ h = home /\ stage = "copy" => 1 \in unquiet'
      /\ h = home /\ stage = "install" => next \in unquiet'
  BY DEF Edit, input, EditableInv, EditableTypes
<1>2. edition' \in [Homes -> Editions] /\ \A g \in Homes : g # h => edition'[g] = edition[g]
  BY <1>1
<1>3. EditableTypes' BY <1>1, <1>2 DEF EditableInv, EditableTypes
<1>4. \A n : (Taken(n))' = Taken(n) BY <1>1 DEF Taken
<1>5. CopiesInv' BY <1>1, <1>4 DEF EditableInv, CopiesInv
<1>6. ScriptsInv' BY <1>1 DEF EditableInv, ScriptsInv, InTurn
<1>7. \A i : Mapped(i) => Mapped(i)' BY <1>1 DEF Mapped
<1>8. ASSUME stage \in {"copy", "install"}, home # h PROVE edition'[home] = edition[home]
  BY <1>2, <1>8 DEF EditableInv, EditableTypes
<1>9. MadeInv' BY <1>1, <1>7, <1>8 DEF EditableInv, MadeInv
<1>10. ReceiptIsTrue' BY <1>1 DEF EditableInv, ReceiptIsTrue, Undone, Reconciled
<1> QED BY <1>3, <1>5, <1>6, <1>9, <1>10 DEF EditableInv

(* The receipt of a reconciliation is true: "refused" touched nothing; "rolled_back" leaves every
   interpreter the metadata and the mapping it had, and its scripts too where uv did not come to
   it; "reconciled" maps all of them to the one source with the wanted modules, and to the edition
   whose digest the receipt carries but for interpreters during whose installation the tree was
   edited; for any number of interpreters, edits, failures and interruptions. *)
THEOREM ReceiptsAreTrue == EditableSpec => []ReceiptIsTrue
<1> USE EditableAssumption
<1>1. EditableInit => EditableInv BY EditableStarts
<1>2. EditableInv /\ [EditableNext]_editableVars => EditableInv'
  <2> SUFFICES ASSUME EditableInv, [EditableNext]_editableVars PROVE EditableInv' OBVIOUS
  <2>1. CASE UNCHANGED editableVars
    BY <2>1 DEF editableVars, input, EditableInv, EditableTypes, CopiesInv, ScriptsInv, InTurn,
                MadeInv, Mapped, ReceiptIsTrue, Undone, Reconciled, Taken
  <2>2. CASE \E h \in Homes : Reconcile(h) \/ Edit(h) BY <2>2, ReconcileKeeps, EditKeeps
  <2>3. CASE Inspect \/ Copy \/ Abandon BY <2>3, InspectKeeps, CopyKeeps, AbandonKeeps
  <2>4. CASE Reinstall \/ ReinstallFails BY <2>4, ReinstallKeeps, ReinstallFailsKeeps
  <2>5. CASE CompareTree \/ Canary BY <2>5, CompareTreeKeeps, CanaryKeeps
  <2>6. CASE Restore \/ RestoreFails \/ UserInterrupts
    BY <2>6, RestoreKeeps, RestoreFailsKeeps, UserInterruptsKeeps
  <2> QED BY <2>1, <2>2, <2>3, <2>4, <2>5, <2>6 DEF EditableNext
<1>3. EditableInv => ReceiptIsTrue BY DEF EditableInv
<1> QED BY <1>1, <1>2, <1>3, PTL DEF EditableSpec

-----------------------------------------------------------------------------
(* Releases.  A command that stages holds a directory that nobody had      *)
(* before, so what it makes there can spoil neither the selected release   *)
(* nor a recorded one; the record is written last, over parts that are     *)
(* each the build's own or were damaged after they were made.              *)

Staged == {"wheel", "lock", "source", "manager", "packages", "runtime", "compare", "markers",
           "profile", "tui", "manifest", "register"}
ReleaseSteps == {"idle", "candidate", "inputs", "validate", "switch", "prove", "compensate"} \cup Staged

\* The parts a staging command has made and compared when it comes to a step.
Made(step) ==
    LET first == {"wheel", "lock", "source"}
        second == first \cup {"manager", "runtime"} IN
    CASE step = "lock" -> {"wheel"}
      [] step = "source" -> {"wheel", "lock"}
      [] step \in {"manager", "packages", "runtime", "compare"} -> first
      [] step = "markers" -> second
      [] step = "profile" -> second \cup {"markers"}
      [] step = "tui" -> second \cup {"markers", "profile"}
      [] step = "manifest" -> second \cup {"markers", "profile", "tui"}
      [] step = "register" -> second \cup {"markers", "profile", "tui", "manifest"}
      [] OTHER -> {}

\* The parts it has put in place and not compared yet.
Uncompared(step) == CASE step \in {"packages", "runtime"} -> {"manager"}
                    [] step = "compare" -> {"manager", "runtime"}
                    [] OTHER -> {}

ReleaseTypes ==
    /\ kept \in [Wheels -> [Parts -> Builds \cup {Lacking, Spoiled}]]
    /\ since \in [Wheels -> SUBSET Parts]
    /\ at \in ReleaseSteps
    /\ at # "idle" => build \in Builds

DirectoriesInv ==
    /\ \A w \in Wheels : kept[w]["record"] \in Builds => w \in directories
    /\ active \in {Lacking} \cup (directories \cap Wheels)
    /\ at # "idle" => prior \in {Lacking} \cup (directories \cap Wheels)
    /\ at = "switch" => build.wheel \in directories
    /\ at = "prove" => active = build.wheel

StagingInv ==
    at \in Staged =>
        /\ build.wheel \in directories /\ build.wheel # active
        /\ kept[build.wheel]["record"] \notin Builds
        /\ \A piece \in Made(at) : kept[build.wheel][piece] = build
             \/ <<build.wheel, piece>> \in ever
        /\ \A piece \in Uncompared(at) : kept[build.wheel][piece] \in {build, Spoiled}

ReleaseInv == ReleaseTypes /\ DirectoriesInv /\ StagingInv /\ OneBuild /\ SettledIsWhole

LEMMA BuildsNameWheels ==
    ASSUME ReleaseBoundsAssumption
    PROVE  /\ \A b \in Builds : b.wheel \in Wheels
           /\ Lacking \notin Builds /\ Spoiled \notin Builds /\ Lacking \notin Wheels
BY DEF ReleaseBoundsAssumption, Builds

LEMMA CertifiedIsWhole ==
    ASSUME NEW w, Certified(w)
    PROVE  /\ kept[w]["record"] \in Builds
           /\ \A piece \in Parts : kept[w][piece] \in Builds
BY DEF Certified, Identified, SourceIs, WheelIs, ProfileIs, MarkersAre, EnvironmentsAre, OfWheel,
       Parts

LEMMA ReleaseStarts ==
    ASSUME ReleaseBoundsAssumption, ReleaseInit
    PROVE  ReleaseInv
<1>1. \A w \in Wheels : kept[w] = [piece \in Parts |-> Lacking] BY DEF ReleaseInit, NoParts
<1>2. "record" \in Parts BY DEF Parts
<1>3. kept \in [Wheels -> [Parts -> Builds \cup {Lacking, Spoiled}]]
  BY DEF ReleaseInit, NoParts
<1> QED BY <1>1, <1>2, <1>3, BuildsNameWheels
        DEF ReleaseInit, ReleaseInv, ReleaseTypes, ReleaseSteps, Staged, DirectoriesInv, StagingInv, OneBuild, SettledIsWhole

\* What is settled stays so while neither the release nor the damage to it changes.
LEMMA SettledStays ==
    ASSUME SettledIsWhole, UNCHANGED <<kept, active, since, unproven>>,
           at \in {"prove", "compensate"} => at' \in {"prove", "compensate"}
    PROVE  SettledIsWhole'
BY DEF SettledIsWhole

\* A command ends. What it made stays; the only question is what it selected.
LEMMA PreparationEnds ==
    ASSUME ReleaseInv, at' = "idle", UNCHANGED <<kept, directories, active, history>>,
           SettledIsWhole'
    PROVE  ReleaseInv'
BY DEF ReleaseInv, ReleaseTypes, ReleaseSteps, Staged, DirectoriesInv, StagingInv, OneBuild, history

LEMMA CommandGivesUp ==
    ASSUME ReleaseInv, at' = "idle", at \notin {"prove", "compensate"},
           UNCHANGED <<kept, directories, active, unproven, history>>
    PROVE  ReleaseInv'
<1>1. SettledIsWhole' BY SettledStays DEF ReleaseInv, history
<1> QED BY <1>1, PreparationEnds

\* A command goes on without touching a release and is not staging, or stages what it had.
LEMMA CommandGoesOn ==
    ASSUME ReleaseInv, UNCHANGED <<kept, directories, active, unproven, history>>,
           at' \in ReleaseSteps, at' \notin Staged \cup {"prove"},
           at' # "idle" => build' \in Builds /\ prior' \in {Lacking} \cup (directories \cap Wheels),
           at' = "switch" => build'.wheel \in directories,
           at \in {"prove", "compensate"} => at' \in {"prove", "compensate"}
    PROVE  ReleaseInv'
<1>1. SettledIsWhole' BY SettledStays DEF ReleaseInv, history
<1> QED BY <1>1 DEF ReleaseInv, ReleaseTypes, DirectoriesInv, StagingInv, OneBuild, history

LEMMA AskKeeps ==
    ASSUME ReleaseInv, NEW b \in Builds,
           NEW name \in {"prepare", "install", "update", "local", "activate", "rollback"},
           Ask(name, b)
    PROVE  ReleaseInv'
<1>1. at' \in {"candidate", "validate", "inputs"} BY DEF Ask
<1>2. prior' \in {Lacking} \cup (directories \cap Wheels)
  BY DEF Ask, ReleaseInv, DirectoriesInv
<1> QED BY <1>1, <1>2, CommandGoesOn DEF Ask, parts, ReleaseSteps, Staged

LEMMA InputsKeep ==
    ASSUME ReleaseInv, BuildCandidate \/ RefuseInputs
    PROVE  ReleaseInv'
<1>1. CASE BuildCandidate
  BY <1>1, CommandGoesOn
     DEF BuildCandidate, call, ReleaseInv, ReleaseTypes, DirectoriesInv, ReleaseSteps, Staged
<1>2. CASE RefuseInputs BY <1>2, CommandGivesUp DEF RefuseInputs, Leave
<1> QED BY <1>1, <1>2

\* Nobody recorded anything in a directory that is not there, and none is selected.
LEMMA StageKeeps ==
    ASSUME ReleaseInv, ReleaseBoundsAssumption, Stage
    PROVE  ReleaseInv'
<1>1. CASE ~MayStage(build.wheel)
  BY <1>1, CommandGivesUp DEF Stage, Leave
<1>2. CASE MayStage(build.wheel)
  <2>1. /\ at = "inputs" /\ at' = "wheel" /\ directories' = directories \cup {build.wheel}
        /\ UNCHANGED <<kept, active, unproven, call, history>> /\ build.wheel \notin directories
    BY <1>2 DEF Stage, MayStage
  <2>2. build \in Builds /\ build.wheel \in Wheels /\ build.wheel # active
        /\ kept[build.wheel]["record"] \notin Builds
    BY <2>1, BuildsNameWheels DEF ReleaseInv, ReleaseTypes, DirectoriesInv
  <2>3. SettledIsWhole' BY <2>1, SettledStays DEF ReleaseInv, history
  <2>4. Made("wheel") = {} /\ Uncompared("wheel") = {} BY DEF Made, Uncompared
  <2> QED BY <2>1, <2>2, <2>3, <2>4
          DEF ReleaseInv, ReleaseTypes, ReleaseSteps, Staged, DirectoriesInv, StagingInv, OneBuild, call, history
<1> QED BY <1>1, <1>2

\* One part is put in place, in a directory that holds no record and is not selected.
LEMMA PartIsMade ==
    ASSUME ReleaseInv, ReleaseBoundsAssumption, at \in Staged, at' \in Staged \cup {"idle"},
           NEW piece \in Parts \ {"record"}, NEW v \in {build, Spoiled}, Install(piece, v), Keep,
           Made(at') \subseteq Made(at) \cup {piece}, v = build \/ piece \notin Made(at'),
           Uncompared(at') \subseteq Uncompared(at) \cup {piece}
    PROVE  ReleaseInv'
<1> DEFINE w == build.wheel
<1>1. /\ w \in Wheels /\ w \in directories /\ w # active /\ build \in Builds
      /\ kept[w]["record"] \notin Builds /\ at # "idle"
      /\ UNCHANGED <<directories, active, unproven, build, prior, since, ever>>
  BY BuildsNameWheels DEF ReleaseInv, ReleaseTypes, StagingInv, Staged, Keep, call, history
<1>2. /\ kept' = [kept EXCEPT ![w] = [kept[w] EXCEPT ![piece] = v]]
      /\ kept[w] \in [Parts -> Builds \cup {Lacking, Spoiled}]
  BY <1>1 DEF Install, ReleaseInv, ReleaseTypes
<1>3. kept' \in [Wheels -> [Parts -> Builds \cup {Lacking, Spoiled}]]
  BY <1>1, <1>2 DEF ReleaseInv, ReleaseTypes
<1>4. /\ \A u \in Wheels : u # w => kept'[u] = kept[u]
      /\ \A p \in Parts : kept'[w][p] = IF p = piece THEN v ELSE kept[w][p]
      /\ kept'[w]["record"] = kept[w]["record"]
  <2>1. kept'[w] = [kept[w] EXCEPT ![piece] = v] BY <1>1, <1>2 DEF ReleaseInv, ReleaseTypes
  <2>2. \A p \in Parts : kept'[w][p] = IF p = piece THEN v ELSE kept[w][p] BY <1>2, <2>1
  <2>3. "record" \in Parts /\ piece # "record" BY DEF Parts
  <2> QED BY <1>1, <1>2, <2>2, <2>3 DEF ReleaseInv, ReleaseTypes
<1> HIDE DEF w
<1>5. ReleaseTypes' BY <1>1, <1>3 DEF ReleaseInv, ReleaseTypes, ReleaseSteps
<1>6. DirectoriesInv'
  <2>1. at' \notin {"switch", "prove"} BY DEF Staged
  <2>2. \A u \in Wheels : kept'[u]["record"] = kept[u]["record"] BY <1>4
  <2> QED BY <1>1, <2>1, <2>2 DEF ReleaseInv, DirectoriesInv
<1>7. \A p \in Made(at') : kept'[w][p] = build \/ <<w, p>> \in ever
  <2> SUFFICES ASSUME NEW p \in Made(at') PROVE kept'[w][p] = build \/ <<w, p>> \in ever OBVIOUS
  <2>1. p \in Parts BY DEF Made, Parts
  <2>2. CASE p = piece BY <1>4, <2>1, <2>2
  <2>3. CASE p # piece
    <3>1. p \in Made(at) BY <2>3
    <3> QED BY <1>4, <2>1, <2>3, <3>1 DEF ReleaseInv, StagingInv, w
  <2> QED BY <2>2, <2>3
<1>8. \A p \in Uncompared(at') : kept'[w][p] \in {build, Spoiled}
  <2> SUFFICES ASSUME NEW p \in Uncompared(at') PROVE kept'[w][p] \in {build, Spoiled} OBVIOUS
  <2>1. p \in Parts BY DEF Uncompared, Parts
  <2>2. CASE p = piece BY <1>4, <2>1, <2>2
  <2>3. CASE p # piece
    <3>1. p \in Uncompared(at) BY <2>3
    <3> QED BY <1>4, <2>1, <2>3, <3>1 DEF ReleaseInv, StagingInv, w
  <2> QED BY <2>2, <2>3
<1>11. StagingInv' BY <1>1, <1>4, <1>7, <1>8 DEF StagingInv, w
<1>9. OneBuild' BY <1>1, <1>4 DEF ReleaseInv, OneBuild
<1>10. SettledIsWhole'
  <2>1. active # Lacking => active \in Wheels BY DEF ReleaseInv, DirectoriesInv
  <2>2. at \notin {"prove", "compensate"} BY DEF Staged
  <2> QED BY <1>1, <1>4, <2>1, <2>2 DEF ReleaseInv, SettledIsWhole
<1> QED BY <1>5, <1>6, <1>9, <1>10, <1>11 DEF ReleaseInv

\* A staging command goes on to a step that counts no more parts as made.
LEMMA StagingGoesOn ==
    ASSUME ReleaseInv, UNCHANGED kept, Keep, at \in Staged, at' \in Staged,
           \A piece \in Made(at') :
               kept[build.wheel][piece] = build \/ <<build.wheel, piece>> \in ever,
           Uncompared(at') \subseteq Uncompared(at)
    PROVE  ReleaseInv'
<1>1. at \notin {"prove", "compensate", "idle"} /\ at' \notin {"switch", "prove", "idle"} BY DEF Staged
<1>2. SettledIsWhole' BY <1>1, SettledStays DEF ReleaseInv, Keep, history
<1> QED BY <1>1, <1>2
        DEF ReleaseInv, ReleaseTypes, ReleaseSteps, DirectoriesInv, StagingInv, OneBuild, Keep, call, history

LEMMA FirstPartsKeep ==
    ASSUME ReleaseInv, ReleaseBoundsAssumption, CopyWheel \/ WriteLock \/ Materialize
    PROVE  ReleaseInv'
<1>1. CASE CopyWheel
  <2>1. at = "wheel" /\ Keep BY <1>1 DEF CopyWheel
  <2>2. CASE Install("wheel", build) /\ Go("lock")
    BY <2>1, <2>2, PartIsMade DEF Go, Made, Uncompared, Staged, Parts
  <2>3. CASE Install("wheel", Spoiled) /\ Leave
    BY <2>1, <2>3, PartIsMade DEF Leave, Made, Uncompared, Staged, Parts
  <2> QED BY <1>1, <2>2, <2>3 DEF CopyWheel
<1>2. CASE WriteLock
  BY <1>2, PartIsMade DEF WriteLock, Go, Made, Uncompared, Staged, Parts
<1>3. CASE Materialize
  <2>1. at = "source" /\ Keep BY <1>3 DEF Materialize
  <2>2. CASE Install("source", build) /\ Go("manager")
    BY <2>1, <2>2, PartIsMade DEF Go, Made, Uncompared, Staged, Parts
  <2>3. CASE Install("source", Spoiled) /\ Leave
    BY <2>1, <2>3, PartIsMade DEF Leave, Made, Uncompared, Staged, Parts
  <2> QED BY <1>3, <2>2, <2>3 DEF Materialize
<1> QED BY <1>1, <1>2, <1>3

LEMMA EnvironmentsKeep ==
    ASSUME ReleaseInv, ReleaseBoundsAssumption,
           InstallManager \/ InstallHermes \/ InstallRuntime \/ CompareInstalled
    PROVE  ReleaseInv'
<1>1. CASE InstallManager
  <2>1. PICK v \in {build, Spoiled} : Install("manager", v) BY <1>1 DEF InstallManager
  <2> QED BY <1>1, <2>1, PartIsMade DEF InstallManager, Go, Made, Uncompared, Staged, Parts
<1>2. CASE InstallRuntime
  <2>1. PICK v \in {build, Spoiled} : Install("runtime", v) BY <1>2 DEF InstallRuntime
  <2> QED BY <1>2, <2>1, PartIsMade DEF InstallRuntime, Go, Made, Uncompared, Staged, Parts
<1>3. CASE CompareInstalled
  <2>1. at = "compare" /\ UNCHANGED kept /\ Keep BY <1>3 DEF CompareInstalled
  <2>2. CASE InstalledIs(build.wheel, build)
    <3>1. at' = "markers" BY <1>3, <2>2 DEF CompareInstalled, Go
    <3>2. \A piece \in Made("markers") : piece \in Made("compare") \/ piece \in {"manager", "runtime"}
      BY DEF Made
    <3>3. \A piece \in Made("compare") :
              kept[build.wheel][piece] = build \/ <<build.wheel, piece>> \in ever
      BY <2>1 DEF ReleaseInv, StagingInv, Staged
    <3>4. kept[build.wheel]["manager"] = build /\ kept[build.wheel]["runtime"] = build
      <4>1. \A piece \in {"manager", "runtime"} : kept[build.wheel][piece] \in {build, Spoiled}
        BY <2>1 DEF ReleaseInv, StagingInv, Staged, Uncompared
      <4> QED BY <2>2, <4>1, BuildsNameWheels DEF InstalledIs, EnvironmentsAre, OfWheel
    <3>5. Uncompared("markers") = {} BY DEF Uncompared
    <3> QED BY <2>1, <3>1, <3>2, <3>3, <3>4, <3>5, StagingGoesOn DEF Staged
  <2>3. CASE ~InstalledIs(build.wheel, build)
    BY <1>3, <2>1, <2>3, CommandGivesUp DEF CompareInstalled, Leave, Keep
  <2> QED BY <2>2, <2>3
<1>4. CASE InstallHermes
  <2>1. at = "packages" /\ at' = "runtime" /\ UNCHANGED kept /\ Keep
    BY <1>4 DEF InstallHermes, Go
  <2>2. Made("runtime") = Made("packages") /\ Uncompared("runtime") = Uncompared("packages")
    BY DEF Made, Uncompared
  <2> QED BY <2>1, <2>2, StagingGoesOn DEF Staged, ReleaseInv, StagingInv
<1> QED BY <1>1, <1>2, <1>3, <1>4

LEMMA LastPartsKeep ==
    ASSUME ReleaseInv, ReleaseBoundsAssumption,
           WriteMarkers \/ PrepareProfile \/ BuildTui \/ WriteManifest
    PROVE  ReleaseInv'
<1>1. CASE WriteMarkers
  BY <1>1, PartIsMade DEF WriteMarkers, Go, Made, Uncompared, Staged, Parts
<1>2. CASE PrepareProfile
  <2>1. at = "profile" /\ Keep BY <1>2 DEF PrepareProfile
  <2>2. CASE Install("profile", build) /\ Go("tui")
    BY <2>1, <2>2, PartIsMade DEF Go, Made, Uncompared, Staged, Parts
  <2>3. CASE Install("profile", Spoiled) /\ Leave
    BY <2>1, <2>3, PartIsMade DEF Leave, Made, Uncompared, Staged, Parts
  <2> QED BY <1>2, <2>2, <2>3 DEF PrepareProfile
<1>3. CASE BuildTui
  BY <1>3, PartIsMade DEF BuildTui, Go, Made, Uncompared, Staged, Parts
<1>4. CASE WriteManifest
  <2>1. at = "manifest" /\ Keep /\ Install("manifest", build) BY <1>4 DEF WriteManifest
  <2>2. CASE at' = "idle"
    BY <2>1, <2>2, PartIsMade DEF Made, Uncompared, Staged, Parts
  <2>3. CASE at' = "register"
    BY <2>1, <2>3, PartIsMade DEF Made, Uncompared, Staged, Parts
  <2> QED BY <1>4, <2>2, <2>3 DEF WriteManifest, Leave, Go
<1> QED BY <1>1, <1>2, <1>3, <1>4

LEMMA ToolFailsKeeps ==
    ASSUME ReleaseInv, ToolFails
    PROVE  ReleaseInv'
BY CommandGivesUp DEF ToolFails, Leave, Keep

\* The record is the last part: the others are the build's, or were damaged.
LEMMA RecordKeeps ==
    ASSUME ReleaseInv, ReleaseBoundsAssumption, Record
    PROVE  ReleaseInv'
<1>1. CASE ~(WheelIs(build.wheel, build) /\ MarkersAre(build.wheel, build))
  BY <1>1, CommandGivesUp DEF Record, Leave, Keep
<1>2. CASE WheelIs(build.wheel, build) /\ MarkersAre(build.wheel, build)
  <2> DEFINE w == build.wheel
  <2>1. /\ at = "register" /\ at' = "validate" /\ Keep /\ Install("record", build)
    BY <1>2 DEF Record, Go
  <2>2. /\ w \in Wheels /\ w \in directories /\ w # active /\ build \in Builds
        /\ UNCHANGED <<directories, active, unproven, build, prior, since, ever>>
        /\ \A piece \in Made("register") : kept[w][piece] = build \/ <<w, piece>> \in ever
    BY <2>1, BuildsNameWheels DEF ReleaseInv, ReleaseTypes, StagingInv, Staged, Keep, call, history
  <2>3. kept' = [kept EXCEPT ![w] = [kept[w] EXCEPT !["record"] = build]]
    BY <2>1 DEF Install
  <2>4. "record" \in Parts /\ \A piece \in Parts : piece \in Made("register") \/ piece = "record"
    BY DEF Parts, Made
  <2>5. kept' \in [Wheels -> [Parts -> Builds \cup {Lacking, Spoiled}]]
    BY <2>2, <2>3, <2>4 DEF ReleaseInv, ReleaseTypes
  <2>6. kept'[w] = [kept[w] EXCEPT !["record"] = build]
        /\ kept[w] \in [Parts -> Builds \cup {Lacking, Spoiled}]
    BY <2>2, <2>3 DEF ReleaseInv, ReleaseTypes
  <2>7. /\ \A u \in Wheels : u # w => kept'[u] = kept[u]
        /\ \A p \in Parts : kept'[w][p] = IF p = "record" THEN build ELSE kept[w][p]
    BY <2>2, <2>3, <2>6 DEF ReleaseInv, ReleaseTypes
  <2> HIDE DEF w
  <2>8. ReleaseTypes' BY <2>1, <2>2, <2>5 DEF ReleaseInv, ReleaseTypes, ReleaseSteps
  <2>9. DirectoriesInv'
    <3>1. at # "idle" /\ at' \notin {"switch", "prove"} BY <2>1
    <3>2. \A u \in Wheels : u # w => kept'[u]["record"] = kept[u]["record"] BY <2>7
    <3> QED BY <2>2, <3>1, <3>2 DEF ReleaseInv, DirectoriesInv
  <2>10. StagingInv' BY <2>1 DEF StagingInv, Staged
  <2>11. OneBuild'
    <3>1. kept'[w]["record"] = build BY <2>4, <2>7
    <3>2. \A piece \in Parts : kept'[w][piece] = build \/ <<w, piece>> \in ever
      BY <2>2, <2>4, <2>7
    <3> QED BY <2>2, <2>7, <3>1, <3>2 DEF ReleaseInv, OneBuild
  <2>12. SettledIsWhole'
    <3>1. active # Lacking => active \in Wheels BY DEF ReleaseInv, DirectoriesInv
    <3> QED BY <2>1, <2>2, <2>7, <3>1 DEF ReleaseInv, SettledIsWhole
  <2> QED BY <2>8, <2>9, <2>10, <2>11, <2>12 DEF ReleaseInv
<1> QED BY <1>1, <1>2

\* What is certified has a record, so its directory is there.
LEMMA ValidateKeeps ==
    ASSUME ReleaseInv, ReleaseBoundsAssumption, Validate
    PROVE  ReleaseInv'
<1>1. /\ at = "validate" /\ build \in Builds /\ build.wheel \in Wheels
      /\ UNCHANGED <<kept, directories, active, unproven, call, history>>
      /\ at' \in {"switch", "idle"}
  BY BuildsNameWheels DEF Validate, Keep, Leave, Go, ReleaseInv, ReleaseTypes
<1>2. CASE at' = "idle" BY <1>1, <1>2, CommandGivesUp
<1>3. CASE at' = "switch"
  <2>1. Certified(build.wheel) BY <1>3 DEF Validate, Leave
  <2>2. build.wheel \in directories
    BY <1>1, <2>1, CertifiedIsWhole DEF ReleaseInv, DirectoriesInv
  <2> QED BY <1>1, <1>3, <2>2, CommandGoesOn
          DEF ReleaseInv, DirectoriesInv, call, ReleaseSteps, Staged
<1> QED BY <1>1, <1>2, <1>3

LEMMA SwitchKeeps ==
    ASSUME ReleaseInv, ReleaseBoundsAssumption, Switch \/ SwitchFails
    PROVE  ReleaseInv'
<1>1. CASE Switch
  <2>1. build \in Builds /\ build.wheel \in Wheels /\ build.wheel \in directories
    BY <1>1, BuildsNameWheels DEF Switch, ReleaseInv, ReleaseTypes, DirectoriesInv
  <2>2. since' \in [Wheels -> SUBSET Parts] BY <1>1, <2>1 DEF Switch, ReleaseInv, ReleaseTypes
  <2> QED BY <1>1, <2>1, <2>2
          DEF Switch, Go, call, ReleaseInv, ReleaseTypes, ReleaseSteps, Staged, DirectoriesInv, StagingInv, OneBuild,
              SettledIsWhole
<1>2. CASE SwitchFails BY <1>2, CommandGivesUp DEF SwitchFails, Leave, Keep
<1> QED BY <1>1, <1>2

LEMMA ProveKeeps ==
    ASSUME ReleaseInv, ReleaseBoundsAssumption, Prove
    PROVE  ReleaseInv'
<1>1. at = "prove" /\ UNCHANGED <<kept, directories, active, unproven, call, history>>
  BY DEF Prove, Keep
<1>2. CASE at' = "compensate"
  BY <1>1, <1>2, CommandGoesOn DEF ReleaseInv, ReleaseTypes, DirectoriesInv, call, ReleaseSteps, Staged
<1>3. CASE at' = "idle"
  <2>1. Certified(active)
    BY <1>1, <1>3 DEF Prove, Go, StillCertified, ReleaseInv, DirectoriesInv
  <2>2. SettledIsWhole' BY <1>1, <2>1, CertifiedIsWhole DEF SettledIsWhole, Parts
  <2> QED BY <1>1, <1>3, <2>2, PreparationEnds
<1> QED BY <1>2, <1>3 DEF Prove, Leave, Go

LEMMA SelectPriorKeeps ==
    ASSUME ReleaseInv, ReleaseBoundsAssumption, SelectPrior
    PROVE  ReleaseInv'
<1>1. /\ at = "compensate" /\ at' = "idle" /\ active' = prior
      /\ unproven' = (prior # Lacking /\ ~Certified(prior))
      /\ UNCHANGED <<kept, directories, call, history>>
  BY DEF SelectPrior, Leave
<1>2. active' \in {Lacking} \cup (directories \cap Wheels)
  BY <1>1 DEF ReleaseInv, DirectoriesInv
<1>3. active' # Lacking /\ ~unproven' => Certified(active') BY <1>1
<1>4. SettledIsWhole' BY <1>1, <1>3, CertifiedIsWhole DEF SettledIsWhole, Parts
<1> QED BY <1>1, <1>2, <1>4
        DEF ReleaseInv, ReleaseTypes, ReleaseSteps, Staged, DirectoriesInv, StagingInv, OneBuild, history

LEMMA CommandDiesKeeps ==
    ASSUME ReleaseInv, CommandDies
    PROVE  ReleaseInv'
<1>1. /\ at' = "idle" /\ UNCHANGED <<kept, directories, active, history>>
      /\ ~unproven' => ~unproven /\ at \notin {"prove", "compensate"}
  BY DEF CommandDies, parts
<1>2. SettledIsWhole' BY <1>1 DEF ReleaseInv, SettledIsWhole, history
<1> QED BY <1>1, <1>2, PreparationEnds

\* Damage is remembered, so neither claim speaks of the part any more.
LEMMA DamageKeeps ==
    ASSUME ReleaseInv, ReleaseBoundsAssumption, NEW w \in Wheels, NEW piece \in Parts,
           Damage(w, piece)
    PROVE  ReleaseInv'
<1>1. /\ kept' = [kept EXCEPT ![w] = [kept[w] EXCEPT ![piece] = Spoiled]]
      /\ since' = [since EXCEPT ![w] = @ \cup {piece}] /\ ever' = ever \cup {<<w, piece>>}
      /\ UNCHANGED <<directories, active, unproven, at, build, prior>>
  BY DEF Damage, call
<1>2. /\ kept' \in [Wheels -> [Parts -> Builds \cup {Lacking, Spoiled}]]
      /\ since' \in [Wheels -> SUBSET Parts]
  BY <1>1 DEF ReleaseInv, ReleaseTypes
<1>3. /\ \A u \in Wheels : u # w => kept'[u] = kept[u] /\ since'[u] = since[u]
      /\ \A p \in Parts : kept'[w][p] = IF p = piece THEN Spoiled ELSE kept[w][p]
      /\ since'[w] = since[w] \cup {piece}
  <2>1. kept'[w] = [kept[w] EXCEPT ![piece] = Spoiled]
        /\ kept[w] \in [Parts -> Builds \cup {Lacking, Spoiled}]
    BY <1>1 DEF ReleaseInv, ReleaseTypes
  <2> QED BY <1>1, <2>1 DEF ReleaseInv, ReleaseTypes
<1>4. "record" \in Parts /\ Spoiled \notin Builds BY BuildsNameWheels DEF Parts
<1>5. \A u \in Wheels : kept'[u]["record"] \in Builds => kept'[u]["record"] = kept[u]["record"]
  BY <1>3, <1>4
<1>6. \A u \in Wheels, p \in Parts :
          kept'[u][p] = kept[u][p] \/ (<<u, p>> \in ever' /\ p \in since'[u])
  BY <1>1, <1>3
<1>7. ever \subseteq ever' /\ \A u \in Wheels : since[u] \subseteq since'[u] BY <1>1, <1>3
<1>8. ReleaseTypes' BY <1>1, <1>2 DEF ReleaseInv, ReleaseTypes
<1>9. DirectoriesInv' BY <1>1, <1>5 DEF ReleaseInv, DirectoriesInv
<1>10. StagingInv'
  <2> SUFFICES ASSUME at \in Staged PROVE StagingInv' BY <1>1 DEF StagingInv
  <2>1. build \in Builds /\ build.wheel \in Wheels
    BY BuildsNameWheels DEF ReleaseInv, ReleaseTypes, Staged
  <2>2. \A p \in Made(at) : p \in Parts BY DEF Made, Parts
  <2>3. \A p \in Made(at) : kept'[build.wheel][p] = build \/ <<build.wheel, p>> \in ever'
    BY <1>6, <1>7, <2>1, <2>2 DEF ReleaseInv, StagingInv
  <2>4. \A p \in Uncompared(at) : kept'[build.wheel][p] \in {build, Spoiled}
    <3>1. \A p \in Uncompared(at) : p \in Parts BY DEF Uncompared, Parts
    <3>2. \A p \in Uncompared(at) : kept[build.wheel][p] \in {build, Spoiled}
      BY DEF ReleaseInv, StagingInv
    <3> QED BY <1>3, <2>1, <3>1, <3>2
  <2> QED BY <1>1, <1>5, <2>1, <2>3, <2>4 DEF ReleaseInv, StagingInv
<1>11. OneBuild'
  <2> SUFFICES ASSUME NEW u \in Wheels, kept'[u]["record"] \in Builds, NEW p \in Parts
               PROVE  kept'[u][p] = kept'[u]["record"] \/ <<u, p>> \in ever'
      BY DEF OneBuild
  <2>1. kept[u][p] = kept[u]["record"] \/ <<u, p>> \in ever
    BY <1>5 DEF ReleaseInv, OneBuild
  <2> QED BY <1>5, <1>6, <1>7, <2>1
<1>12. SettledIsWhole'
  <2> SUFFICES ASSUME active # Lacking, ~unproven, at \notin {"prove", "compensate"}
               PROVE  \A p \in Parts : kept'[active][p] \in Builds \/ p \in since'[active]
      BY <1>1 DEF SettledIsWhole
  <2>1. active \in Wheels BY DEF ReleaseInv, DirectoriesInv
  <2>2. \A p \in Parts : kept[active][p] \in Builds \/ p \in since[active]
    BY DEF ReleaseInv, SettledIsWhole
  <2> QED BY <1>4, <1>6, <1>7, <2>1, <2>2
<1> QED BY <1>8, <1>9, <1>10, <1>11, <1>12 DEF ReleaseInv

(* In every part that validate_release compares (Aether's files and the versions in the two
   environments, not their other packages), a recorded release is of one build, and the selected
   one was proven when its transition ended, whatever fails quietly, is damaged, crashes or is
   tried again, for any wheels, Hermes commits and number of commands. *)
THEOREM ReleasesAreWhole == ReleaseSpec => []ReleaseIsWhole
<1> USE ReleaseBoundsAssumption
<1>1. ReleaseInit => ReleaseInv BY ReleaseStarts
<1>2. ReleaseInv /\ [ReleaseNext]_releaseVars => ReleaseInv'
  <2> SUFFICES ASSUME ReleaseInv, [ReleaseNext]_releaseVars PROVE ReleaseInv' OBVIOUS
  <2>1. CASE UNCHANGED releaseVars
    BY <2>1 DEF releaseVars, parts, call, history, ReleaseInv, ReleaseTypes, DirectoriesInv, StagingInv, OneBuild,
                SettledIsWhole
  <2>2. CASE \E name \in {"prepare", "install", "update", "local", "activate", "rollback"},
                 b \in Builds : Ask(name, b)
    BY <2>2, AskKeeps
  <2>3. CASE BuildCandidate \/ RefuseInputs \/ Stage BY <2>3, InputsKeep, StageKeeps
  <2>4. CASE CopyWheel \/ WriteLock \/ Materialize BY <2>4, FirstPartsKeep
  <2>5. CASE InstallManager \/ InstallHermes \/ InstallRuntime \/ CompareInstalled
    BY <2>5, EnvironmentsKeep
  <2>6. CASE WriteMarkers \/ PrepareProfile \/ BuildTui \/ WriteManifest BY <2>6, LastPartsKeep
  <2>7. CASE ToolFails \/ Record BY <2>7, ToolFailsKeeps, RecordKeeps
  <2>8. CASE Validate \/ Switch \/ SwitchFails BY <2>8, ValidateKeeps, SwitchKeeps
  <2>9. CASE Prove \/ SelectPrior \/ CommandDies BY <2>9, ProveKeeps, SelectPriorKeeps, CommandDiesKeeps
  <2>10. CASE \E w \in Wheels, piece \in Parts : Damage(w, piece) BY <2>10, DamageKeeps
  <2> QED BY <2>1, <2>2, <2>3, <2>4, <2>5, <2>6, <2>7, <2>8, <2>9, <2>10 DEF ReleaseNext
<1>3. ReleaseInv => ReleaseIsWhole BY DEF ReleaseInv, ReleaseIsWhole
<1> QED BY <1>1, <1>2, <1>3, PTL DEF ReleaseSpec
=============================================================================
