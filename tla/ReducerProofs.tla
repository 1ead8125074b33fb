--------------------------- MODULE ReducerProofs ---------------------------
(***************************************************************************)
(* Proofs about what is read out of a trace: the order its events are read  *)
(* in, the duplicates that collapse, the durations, the completion and the  *)
(* rounds of work that are reported.                                        *)
(* The folds are reasoned about through the accumulators they go through:   *)
(* an instance of FoldFacts per fold, with its step as the operator.        *)
(***************************************************************************)
EXTENDS Process, FiniteSetTheorems, SequenceTheorems, TLAPS

-----------------------------------------------------------------------------
(* Orders.  A relation is a set of pairs here, so that what holds of any    *)
(* strict order is a lemma with no operator in it.                          *)

Linear(S, R) ==
    /\ \A e, f \in S : e = f \/ <<e, f>> \in R \/ <<f, e>> \in R
    /\ \A e, f, g \in S : <<e, f>> \in R /\ <<f, g>> \in R => <<e, g>> \in R

TakeEarliest(S, acc, i) ==
    Append(acc, CHOOSE e \in S \ Range(acc) : \A f \in S \ Range(acc) : f = e \/ Earliest(e, f))
TakeBefore(S, acc, i) ==
    Append(acc, CHOOSE e \in S \ Range(acc) : \A f \in S \ Range(acc) : f = e \/ Before(e, f))
TakeEarlier(S, acc, i) ==
    Append(acc, CHOOSE e \in S \ Range(acc) : \A f \in S \ Range(acc) : f = e \/ Earlier(e, f))

ByClock == INSTANCE FoldFacts WITH Op <- TakeEarliest
ByEpoch == INSTANCE FoldFacts WITH Op <- TakeBefore
ByStart == INSTANCE FoldFacts WITH Op <- TakeEarlier

\* A sequence of members of S, each once, those that come first in R first
Sorted(s, S, R) ==
    /\ s \in [1..Cardinality(S) -> S] /\ {s[i] : i \in 1..Cardinality(S)} = S
    /\ \A i, j \in 1..Cardinality(S) : i < j => s[i] # s[j] /\ <<s[i], s[j]>> \in R

\* A finite set that is not empty has a least member.
LEMMA LeastMember ==
    ASSUME NEW S, NEW R, IsFiniteSet(S), S # {}, Linear(S, R)
    PROVE  \E e \in S : \A f \in S : f = e \/ <<e, f>> \in R
<1> DEFINE Has(U) == \E e \in U : \A f \in U : f = e \/ <<e, f>> \in R
           T == {n \in Nat : \A U \in SUBSET S : U # {} /\ Cardinality(U) <= n => Has(U)}
<1>1. \A U \in SUBSET S : IsFiniteSet(U) /\ Cardinality(U) \in Nat /\ (Cardinality(U) = 0 <=> U = {})
  BY FS_Subset, FS_CardinalityType, FS_EmptySet
<1>2. 0 \in T
  BY <1>1
<1>3. ASSUME NEW n \in Nat, n \in T
      PROVE  n + 1 \in T
  <2> SUFFICES ASSUME NEW U \in SUBSET S, U # {}, Cardinality(U) <= n + 1
               PROVE  Has(U)
    OBVIOUS
  <2>1. PICK e \in U : TRUE
    OBVIOUS
  <2>2. U \ {e} \in SUBSET S /\ Cardinality(U \ {e}) <= n
    BY <1>1, FS_RemoveElement
  <2>3. CASE U \ {e} = {}
    BY <2>1, <2>3
  <2>4. CASE U \ {e} # {}
    <3>1. Has(U \ {e})
      BY <1>3, <2>2, <2>4
    <3>2. PICK f \in U \ {e} : \A g \in U \ {e} : g = f \/ <<f, g>> \in R
      BY <3>1
    <3>3. CASE <<f, e>> \in R
      BY <3>2, <3>3
    <3>4. CASE <<e, f>> \in R
      <4>1. \A g \in U : g = e \/ <<e, g>> \in R
        BY <2>1, <3>2, <3>4 DEF Linear
      <4> QED BY <2>1, <4>1
    <3>5. e = f \/ <<e, f>> \in R \/ <<f, e>> \in R
      BY <2>1, <3>2 DEF Linear
    <3> QED BY <3>2, <3>3, <3>4, <3>5
  <2> QED BY <2>3, <2>4
<1> HIDE DEF T
<1>4. Nat \subseteq T
  BY <1>2, <1>3, ByClock!Induction
<1> QED BY <1>1, <1>4 DEF T

LEMMA RangeAppended ==
    ASSUME NEW S, NEW s \in Seq(S), NEW e \in S
    PROVE  Append(s, e) \in Seq(S) /\ Range(Append(s, e)) = Range(s) \cup {e}
<1>1. /\ Append(s, e) \in Seq(S) /\ Len(Append(s, e)) = Len(s) + 1 /\ Len(s) \in Nat
      /\ \A i \in 1..Len(s) : Append(s, e)[i] = s[i]
      /\ Append(s, e)[Len(s) + 1] = e
  BY AppendProperties, LenProperties
<1>2. Range(Append(s, e)) = {Append(s, e)[i] : i \in 1..Len(s) + 1} /\ Range(s) = {s[i] : i \in 1..Len(s)}
  BY <1>1, RangeEquality
<1>3. 1..Len(s) + 1 = (1..Len(s)) \cup {Len(s) + 1}
  BY <1>1
<1> QED BY <1>1, <1>2, <1>3

\* Taking a least one of what is left, as often as there are members, sorts them.
LEMMA TakingSorts ==
    ASSUME NEW S, NEW R, IsFiniteSet(S), Linear(S, R), NEW acc, acc[0] = <<>>,
           \A k \in 1..Cardinality(S) : \A e \in S \ Range(acc[k - 1]) :
               (\A f \in S \ Range(acc[k - 1]) : f = e \/ <<e, f>> \in R) =>
               \E g \in S \ Range(acc[k - 1]) : /\ acc[k] = Append(acc[k - 1], g)
                                                 /\ \A f \in S \ Range(acc[k - 1]) : f = g \/ <<g, f>> \in R
    PROVE  Sorted(acc[Cardinality(S)], S, R)
<1> DEFINE N == Cardinality(S)
           So(k) == /\ acc[k] \in [1..k -> S]
                    /\ \A i, j \in 1..k : i < j => acc[k][i] # acc[k][j] /\ <<acc[k][i], acc[k][j]>> \in R
                    /\ \A i \in 1..k : \A f \in S \ Range(acc[k]) : <<acc[k][i], f>> \in R
           T == {k \in Nat : k <= N => So(k)}
<1>1. N \in Nat
  BY FS_CardinalityType
<1>2. 0 \in T
  <2>1. acc[0] \in [1..0 -> S] /\ 1..0 = {}
    OBVIOUS
  <2>2. So(0)
    BY <2>1
  <2> HIDE DEF So
  <2> QED BY <2>2
<1>3. ASSUME NEW k \in Nat, k <= N, So(k)
      PROVE  /\ IsFiniteSet(Range(acc[k])) /\ Cardinality(Range(acc[k])) = k
             /\ Range(acc[k]) = {acc[k][i] : i \in 1..k} /\ Range(acc[k]) \subseteq S
  <2>1. Range(acc[k]) = {acc[k][i] : i \in 1..k} /\ Range(acc[k]) \subseteq S
    BY <1>3 DEF Range
  <2>2. IsFiniteSet(1..k) /\ Cardinality(1..k) = k
    BY FS_Interval
  <2>3. acc[k] \in Injection(1..k, Range(acc[k]))
    <3>1. acc[k] \in [1..k -> Range(acc[k])]
      BY <1>3, <2>1
    <3>2. ASSUME NEW i \in 1..k, NEW j \in 1..k, acc[k][i] = acc[k][j], i # j
          PROVE  FALSE
      <4>1. i < j \/ j < i
        BY <3>2
      <4> QED BY <1>3, <3>2, <4>1
    <3> HIDE DEF So
    <3> QED BY <3>1, <3>2 DEF Injection, IsInjective
  <2>4. acc[k] \in Surjection(1..k, Range(acc[k]))
    BY <2>1, <2>3 DEF Surjection, Injection
  <2> QED BY <2>1, <2>2, <2>3, <2>4, FS_Surjection
<1>4. ASSUME NEW k \in Nat, k \in T
      PROVE  k + 1 \in T
  <2> HIDE DEF So
  <2> SUFFICES ASSUME k + 1 <= N PROVE So(k + 1)
    OBVIOUS
  <2>1. So(k) /\ k <= N
    BY <1>1, <1>4
  <2> DEFINE rest == S \ Range(acc[k])
  <2>2. rest # {} /\ rest \subseteq S /\ IsFiniteSet(rest)
    <3>1. Range(acc[k]) # S
      BY <1>1, <1>3, <2>1
    <3>2. Range(acc[k]) \subseteq S
      BY <1>3, <2>1
    <3> QED BY <3>1, <3>2, FS_Subset
  <2>3. \E e \in rest : \A f \in rest : f = e \/ <<e, f>> \in R
    <3>1. Linear(rest, R)
      BY <2>2 DEF Linear
    <3> HIDE DEF rest
    <3> QED BY <2>2, <3>1, LeastMember
  <2>4. k + 1 \in 1..N /\ k + 1 - 1 = k
    BY <1>1
  <2>5. PICK g \in rest : acc[k + 1] = Append(acc[k], g) /\ \A f \in rest : f = g \/ <<g, f>> \in R
    BY <2>3, <2>4
  <2>6. /\ acc[k] \in [1..k -> S] /\ Range(acc[k]) = {acc[k][i] : i \in 1..k}
        /\ \A i, j \in 1..k : i < j => acc[k][i] # acc[k][j] /\ <<acc[k][i], acc[k][j]>> \in R
        /\ \A i \in 1..k : \A f \in rest : <<acc[k][i], f>> \in R
    BY <1>3, <2>1 DEF So
  <2>7. acc[k] \in Seq(S) /\ Len(acc[k]) = k
    BY <2>6, LenProperties, SeqDef
  <2>8. /\ acc[k + 1] \in [1..k + 1 -> S] /\ acc[k + 1][k + 1] = g
        /\ \A i \in 1..k : acc[k + 1][i] = acc[k][i]
    <3>1. g \in S
      BY <2>2
    <3>2. acc[k + 1] \in Seq(S) /\ Len(acc[k + 1]) = k + 1
      BY <2>5, <2>7, <3>1, AppendProperties
    <3>3. acc[k + 1][k + 1] = g /\ \A i \in 1..k : acc[k + 1][i] = acc[k][i]
      BY <2>5, <2>7, <3>1, AppendProperties
    <3> QED BY <3>2, <3>3, LenProperties
  <2>9. Range(acc[k + 1]) = Range(acc[k]) \cup {g}
    <3>1. g \in S
      BY <2>2
    <3> HIDE DEF rest
    <3> QED BY <2>5, <2>7, <3>1, RangeAppended
  <2>10. ASSUME NEW i \in 1..k + 1, NEW j \in 1..k + 1, i < j
         PROVE  acc[k + 1][i] # acc[k + 1][j] /\ <<acc[k + 1][i], acc[k + 1][j]>> \in R
    <3>1. i \in 1..k /\ (j \in 1..k \/ j = k + 1)
      BY <2>10
    <3>2. CASE j \in 1..k
      BY <2>6, <2>8, <2>10, <3>1, <3>2
    <3>3. CASE j = k + 1
      <4>1. acc[k][i] \in Range(acc[k])
        BY <2>6, <3>1
      <4> QED BY <2>5, <2>6, <2>8, <3>1, <3>3, <4>1
    <3> QED BY <3>1, <3>2, <3>3
  <2>11. ASSUME NEW i \in 1..k + 1, NEW f \in S \ Range(acc[k + 1])
         PROVE  <<acc[k + 1][i], f>> \in R
    <3>1. f \in rest /\ f # g
      BY <2>9
    <3>2. i \in 1..k \/ i = k + 1
      OBVIOUS
    <3> QED BY <2>5, <2>6, <2>8, <3>1, <3>2
  <2> QED BY <2>8, <2>10, <2>11 DEF So
<1>5. So(N)
  <2> HIDE DEF T, So
  <2>1. Nat \subseteq T
    BY <1>2, <1>4, ByClock!Induction
  <2> QED BY <1>1, <2>1 DEF T
<1>6. Range(acc[N]) = S
  <2>1. Range(acc[N]) \subseteq S /\ Cardinality(Range(acc[N])) = Cardinality(S)
    BY <1>1, <1>3, <1>5
  <2> QED BY <2>1, FS_Subset
<1>7. Range(acc[N]) = {acc[N][i] : i \in 1..N}
  <2>1. N <= N
    BY <1>1
  <2> HIDE DEF So
  <2> QED BY <1>1, <1>3, <1>5, <2>1
<1> QED BY <1>5, <1>6, <1>7 DEF Sorted

\* The orders of the code, on the events of a trace and on intervals
ClockOrder(S) == {p \in S \X S : Earliest(p[1], p[2])}
EpochOrder(S) == {p \in S \X S : Before(p[1], p[2])}
StartOrder(S) == {p \in S \X S : Earlier(p[1], p[2])}

LEMMA EpochLinear ==
    ASSUME NEW S, Identified(S)
    PROVE  Linear(S, EpochOrder(S))
<1>1. \A e \in S : e.id \in Nat /\ e.epoch \in Nat /\ e.seq \in Nat
  BY DEF Identified, IsEvent
<1>2. \A e, f \in S : e = f \/ Before(e, f) \/ Before(f, e)
  BY <1>1 DEF Identified, Before
<1>3. \A e, f, g \in S : Before(e, f) /\ Before(f, g) => Before(e, g)
  BY <1>1 DEF Before
<1> QED BY <1>2, <1>3 DEF Linear, EpochOrder

LEMMA ClockLinear ==
    ASSUME NEW S, Identified(S)
    PROVE  Linear(S, ClockOrder(S))
<1>1. \A e \in S : e.id \in Nat /\ e.epoch \in Nat /\ e.seq \in Nat /\ e.at \in Nat
  BY DEF Identified, IsEvent
<1>2. \A e, f \in S : e = f \/ Earliest(e, f) \/ Earliest(f, e)
  BY <1>1 DEF Identified, Before, Earliest
<1>3. \A e, f, g \in S : Before(e, f) /\ Before(f, g) => Before(e, g)
  BY <1>1 DEF Before
<1>4. \A e, f, g \in S : Earliest(e, f) /\ Earliest(f, g) => Earliest(e, g)
  BY <1>1, <1>3 DEF Earliest
<1> QED BY <1>2, <1>4 DEF Linear, ClockOrder

LEMMA StartLinear ==
    ASSUME NEW S, S \subseteq Nat \X Nat
    PROVE  Linear(S, StartOrder(S))
<1>1. \A i, j \in S : i = j \/ Earlier(i, j) \/ Earlier(j, i)
  BY DEF Earlier
<1>2. \A i, j, k \in S : Earlier(i, j) /\ Earlier(j, k) => Earlier(i, k)
  BY DEF Earlier
<1> QED BY <1>1, <1>2 DEF Linear, StartOrder

\* What InOrder returns, for each order it is used with
LEMMA ReaderSorts ==
    ASSUME NEW S, Identified(S)
    PROVE  Sorted(InOrder(S, Earliest), S, ClockOrder(S))
<1> DEFINE n == Cardinality(S)
<1>1. IsFiniteSet(S) /\ n \in Nat /\ DOMAIN Upto(n) = 1..n /\ \A i \in 1..n : Upto(n)[i] = i
  BY FS_CardinalityType DEF Identified, Upto
<1>2. InOrder(S, Earliest) = ByClock!Fold(S, <<>>, Upto(n))
  BY DEF InOrder, FoldLeft, MapThenFoldSet, Max, ByClock!Fold, ByClock!Top, TakeEarliest, Upto
<1> HIDE DEF n
<1>3. PICK acc : /\ ByClock!Trajectory(acc, S, <<>>, Upto(n), n)
                 /\ ByClock!Fold(S, <<>>, Upto(n)) = acc[n]
  BY <1>1, ByClock!FoldGoes
<1>4. acc[0] = <<>> /\ \A k \in 1..n : acc[k] = TakeEarliest(S, acc[k - 1], k)
  BY <1>1, <1>3 DEF ByClock!Trajectory
<1>5. \A k \in 1..n : \A e \in S \ Range(acc[k - 1]) :
          (\A f \in S \ Range(acc[k - 1]) : f = e \/ <<e, f>> \in ClockOrder(S)) =>
          \E g \in S \ Range(acc[k - 1]) : /\ acc[k] = Append(acc[k - 1], g)
                                            /\ \A f \in S \ Range(acc[k - 1]) : f = g \/ <<g, f>> \in ClockOrder(S)
  BY <1>4 DEF TakeEarliest, ClockOrder
<1> QED BY <1>1, <1>2, <1>3, <1>4, <1>5, ClockLinear, TakingSorts DEF n

LEMMA EpochsSort ==
    ASSUME NEW S, Identified(S)
    PROVE  Sorted(InOrder(S, Before), S, EpochOrder(S))
<1> DEFINE n == Cardinality(S)
<1>1. IsFiniteSet(S) /\ n \in Nat /\ DOMAIN Upto(n) = 1..n /\ \A i \in 1..n : Upto(n)[i] = i
  BY FS_CardinalityType DEF Identified, Upto
<1>2. InOrder(S, Before) = ByEpoch!Fold(S, <<>>, Upto(n))
  BY DEF InOrder, FoldLeft, MapThenFoldSet, Max, ByEpoch!Fold, ByEpoch!Top, TakeBefore, Upto
<1> HIDE DEF n
<1>3. PICK acc : /\ ByEpoch!Trajectory(acc, S, <<>>, Upto(n), n)
                 /\ ByEpoch!Fold(S, <<>>, Upto(n)) = acc[n]
  BY <1>1, ByEpoch!FoldGoes
<1>4. acc[0] = <<>> /\ \A k \in 1..n : acc[k] = TakeBefore(S, acc[k - 1], k)
  BY <1>1, <1>3 DEF ByEpoch!Trajectory
<1>5. \A k \in 1..n : \A e \in S \ Range(acc[k - 1]) :
          (\A f \in S \ Range(acc[k - 1]) : f = e \/ <<e, f>> \in EpochOrder(S)) =>
          \E g \in S \ Range(acc[k - 1]) : /\ acc[k] = Append(acc[k - 1], g)
                                            /\ \A f \in S \ Range(acc[k - 1]) : f = g \/ <<g, f>> \in EpochOrder(S)
  BY <1>4 DEF TakeBefore, EpochOrder
<1> QED BY <1>1, <1>2, <1>3, <1>4, <1>5, EpochLinear, TakingSorts DEF n

LEMMA StartsSort ==
    ASSUME NEW S, S \subseteq Nat \X Nat, IsFiniteSet(S)
    PROVE  Sorted(InOrder(S, Earlier), S, StartOrder(S))
<1> DEFINE n == Cardinality(S)
<1>1. n \in Nat /\ DOMAIN Upto(n) = 1..n /\ \A i \in 1..n : Upto(n)[i] = i
  BY FS_CardinalityType DEF Upto
<1>2. InOrder(S, Earlier) = ByStart!Fold(S, <<>>, Upto(n))
  BY DEF InOrder, FoldLeft, MapThenFoldSet, Max, ByStart!Fold, ByStart!Top, TakeEarlier, Upto
<1> HIDE DEF n
<1>3. PICK acc : /\ ByStart!Trajectory(acc, S, <<>>, Upto(n), n)
                 /\ ByStart!Fold(S, <<>>, Upto(n)) = acc[n]
  BY <1>1, ByStart!FoldGoes
<1>4. acc[0] = <<>> /\ \A k \in 1..n : acc[k] = TakeEarlier(S, acc[k - 1], k)
  BY <1>1, <1>3 DEF ByStart!Trajectory
<1>5. \A k \in 1..n : \A e \in S \ Range(acc[k - 1]) :
          (\A f \in S \ Range(acc[k - 1]) : f = e \/ <<e, f>> \in StartOrder(S)) =>
          \E g \in S \ Range(acc[k - 1]) : /\ acc[k] = Append(acc[k - 1], g)
                                            /\ \A f \in S \ Range(acc[k - 1]) : f = g \/ <<g, f>> \in StartOrder(S)
  BY <1>4 DEF TakeEarlier, StartOrder
<1>6. Linear(S, StartOrder(S)) /\ n = Cardinality(S)
  BY StartLinear DEF n
<1>7. Sorted(acc[n], S, StartOrder(S))
  BY <1>4, <1>5, <1>6, TakingSorts
<1> QED BY <1>2, <1>3, <1>7

\* A sorted sequence holds what it sorts.
LEMMA SortedHolds ==
    ASSUME NEW s, NEW S, NEW R, Sorted(s, S, R), IsFiniteSet(S)
    PROVE  /\ Cardinality(S) \in Nat /\ DOMAIN s = 1..Cardinality(S) /\ Range(s) = S
           /\ s \in Seq(S) /\ Len(s) = Cardinality(S)
<1>1. Cardinality(S) \in Nat
  BY FS_CardinalityType
<1>2. s \in [1..Cardinality(S) -> S] /\ {s[i] : i \in 1..Cardinality(S)} = S
  BY DEF Sorted
<1>3. Range(s) = S
  BY <1>2 DEF Range
<1>4. s \in Seq(S)
  BY <1>1, <1>2, SeqDef
<1>5. Len(s) = Cardinality(S)
  BY <1>1, <1>2, <1>4, LenProperties
<1> QED BY <1>1, <1>2, <1>3, <1>4, <1>5

-----------------------------------------------------------------------------
(* Duplicates.  Which of the events of one fact is kept is a function of    *)
(* the set of them: those that are named as a parent, or the one that       *)
(* outranks the others.                                                    *)

SameFact(e, f) == NativeKey(f) = NativeKey(e) /\ NativeKey(e) # None
Alike(e, f) == SameFact(e, f) /\ Disposition(f) = Disposition(e)

Kept(P, named) ==
    {e \in P : \/ NativeKey(e) = None \/ e.id \in named
               \/ \A f \in P : Alike(e, f) => f = e \/ (f.id \notin named /\ Outranks(e, f))}

\* The tasks whose status is told in two ways
StatusOpen(P) ==
    {<<"status", e.task>> : e \in {f \in P : /\ f.type = "work_unit.status"
                                             /\ \E g \in P : SameFact(f, g) /\ Disposition(g) # Disposition(f)}}

NamedBy(S) == {e.parent : e \in S}

KeepStep(named, acc, e) == Keep(acc, e, named)
Keeping == INSTANCE FoldFacts WITH Op <- KeepStep

\* What was kept of the events P that were read
HasKept(acc, P, named, S) ==
    /\ acc = [events |-> acc.events, open |-> acc.open, conflicts |-> acc.conflicts]
    /\ acc.events \in Seq(S) /\ Range(acc.events) = Kept(P, named)
    /\ acc.open = StatusOpen(P)
    /\ \A f \in P : NativeKey(f) # None => \E g \in Kept(P, named) : Alike(f, g)

LEMMA OutranksOrders ==
    ASSUME NEW S, Identified(S)
    PROVE  /\ \A e, f \in S : e = f \/ Outranks(e, f) \/ Outranks(f, e)
           /\ \A e, f \in S : ~(Outranks(e, f) /\ Outranks(f, e))
           /\ \A e, f, g \in S : Outranks(e, f) /\ Outranks(f, g) => Outranks(e, g)
<1>1. \A e \in S : e.id \in Nat /\ SourceRank(e) \in Nat
  BY DEF Identified, IsEvent, SourceRank
<1>2. \A e, f \in S : e.id = f.id => e = f
  BY DEF Identified
<1> QED BY <1>1, <1>2 DEF Outranks

LEMMA RangeReplaced ==
    ASSUME NEW S, NEW s \in Seq(S), NEW old \in Range(s), NEW new \in S
    PROVE  /\ ReplaceAll(s, old, new) \in Seq(S)
           /\ Range(ReplaceAll(s, old, new)) = (Range(s) \ {old}) \cup {new}
<1>1. Len(s) \in Nat /\ s \in [1..Len(s) -> S] /\ Range(s) = {s[i] : i \in 1..Len(s)}
  BY LenProperties, RangeEquality
<1> DEFINE r == [i \in 1..Len(s) |-> IF s[i] = old THEN new ELSE s[i]]
<1>2. ReplaceAll(s, old, new) = r
  BY DEF ReplaceAll
<1>3. r \in [1..Len(s) -> S]
  BY <1>1
<1>4. r \in Seq(S)
  BY <1>1, <1>3, SeqDef
<1>5. Range(r) = {r[i] : i \in 1..Len(s)}
  BY <1>3 DEF Range
<1>6. \A x : x \in Range(r) <=> x \in (Range(s) \ {old}) \cup {new}
  BY <1>1, <1>5
<1> QED BY <1>2, <1>4, <1>6

\* Of the events that are alike, one that is kept is the only one unless it is named.
LEMMA KeptAlone ==
    ASSUME NEW S, Identified(S), NEW P \in SUBSET S, NEW named,
           NEW f \in Kept(P, named), NEW g \in Kept(P, named), Alike(f, g),
           f.id \notin named, g.id \notin named
    PROVE  f = g
<1>1. f \in S /\ g \in S /\ Alike(g, f)
  BY DEF Kept, Alike, SameFact
<1>2. f = g \/ Outranks(f, g)
  BY DEF Kept, Alike, SameFact
<1>3. f = g \/ Outranks(g, f)
  BY <1>1 DEF Kept, Alike, SameFact
<1> QED BY <1>1, <1>2, <1>3, OutranksOrders

LEMMA StatusKey ==
    ASSUME NEW e, NEW f, SameFact(e, f), e.type = "work_unit.status"
    PROVE  f.type = "work_unit.status" /\ f.task = e.task
<1>1. NativeKey(e) = <<e.type, e.task, e.run, e.at>>
  BY DEF NativeKey, RunTypes, BindingTypes
<1>2. NativeKey(f) # None
  BY DEF SameFact
<1>3. NativeKey(f)[1] = f.type
  BY <1>2 DEF NativeKey
<1>4. f.type = "work_unit.status"
  BY <1>1, <1>3 DEF SameFact
<1>5. NativeKey(f) = <<f.type, f.task, f.run, f.at>>
  BY <1>4 DEF NativeKey, RunTypes, BindingTypes
<1> QED BY <1>1, <1>4, <1>5 DEF SameFact

LEMMA StatusAmbiguities ==
    ASSUME NEW T, \A f \in T : f.type = "work_unit.status"
    PROVE  Ambiguities(T) = {<<"status", f.task>> : f \in T}
<1>1. ASSUME NEW f \in T
      PROVE  (IF f.type \in Protected THEN {<<"authority", f.id>>} ELSE {})
             \cup (CASE f.type \in BindingTypes -> {<<"binding", f.task>>}
                     [] f.type = "work_unit.status" -> {<<"status", f.task>>}
                     [] f.type \in ReviewTypes -> {<<"review", f.task>>}
                     [] f.type \in RunTypes -> {<<"run", f.task, f.run>>}
                     [] OTHER -> {}) = {<<"status", f.task>>}
  BY DEF Protected, ReviewTypes, TerminalTypes, InvariantTypes, BindingTypes, RunTypes
<1>2. Ambiguities(T) = UNION {{<<"status", f.task>>} : f \in T}
  BY <1>1 DEF Ambiguities
<1> QED BY <1>2

\* What is kept once e is read, in each case of Keep
LEMMA KeptWithNew ==
    ASSUME NEW P, NEW named, NEW e, \A f \in P : ~Alike(e, f), NEW Q, Q = P \cup {e}
    PROVE  Kept(Q, named) = Kept(P, named) \cup {e}
BY DEF Kept, Alike, SameFact

LEMMA KeptWithNamed ==
    ASSUME NEW P, NEW named, NEW e, e.id \in named, NEW h \in P, h.id \in named, Alike(e, h)
    PROVE  Kept(P \cup {e}, named) = Kept(P, named) \cup {e}
<1>1. ASSUME NEW g \in P
      PROVE  g \in Kept(P \cup {e}, named) <=> g \in Kept(P, named)
  <2>1. CASE Alike(g, e)
    <3>1. Alike(g, h)
      BY <2>1 DEF Alike, SameFact
    <3> QED BY <2>1, <3>1 DEF Kept
  <2>2. CASE ~Alike(g, e)
    BY <2>2 DEF Kept
  <2> QED BY <2>1, <2>2
<1>2. e \in Kept(P \cup {e}, named)
  BY DEF Kept
<1>3. Kept(P \cup {e}, named) \subseteq P \cup {e} /\ Kept(P, named) \subseteq P
  BY DEF Kept
<1> QED BY <1>1, <1>2, <1>3

\* e takes the place of the only one alike that was kept
LEMMA KeptInstead ==
    ASSUME NEW S, Identified(S), NEW P \in SUBSET S, NEW named, NEW e \in S,
           NEW old \in Kept(P, named), Alike(e, old), \A f \in P : Alike(e, f) => f.id \notin named,
           e.id \in named \/ Outranks(e, old)
    PROVE  Kept(P \cup {e}, named) = (Kept(P, named) \ {old}) \cup {e}
<1>1. old \in P /\ old.id \notin named /\ Alike(old, e) /\ NativeKey(old) # None /\ old \in S
  BY DEF Kept, Alike, SameFact
<1>2. \A f \in P : Alike(old, f) => f = old \/ Outranks(old, f)
  BY <1>1 DEF Kept
<1>3. old # e
  BY <1>1, OutranksOrders
<1>4. e \in Kept(P \cup {e}, named)
  <2> SUFFICES ASSUME e.id \notin named, NEW f \in P, Alike(e, f), f # e
               PROVE  f.id \notin named /\ Outranks(e, f)
    BY DEF Kept
  <2>1. f = old \/ Outranks(old, f)
    BY <1>2 DEF Alike, SameFact
  <2> QED BY <1>1, <2>1, OutranksOrders
<1>5. old \notin Kept(P \cup {e}, named)
  <2> SUFFICES ASSUME old \in Kept(P \cup {e}, named) PROVE FALSE
    OBVIOUS
  <2>1. e.id \notin named /\ Outranks(old, e)
    BY <1>1, <1>3 DEF Kept
  <2> QED BY <1>1, <2>1, OutranksOrders
<1>6. ASSUME NEW g \in P, g # old, g # e
      PROVE  g \in Kept(P \cup {e}, named) <=> g \in Kept(P, named)
  <2>1. CASE Alike(g, e)
    <3>1. Alike(g, old) /\ Alike(old, g) /\ Alike(e, g) /\ g \in S /\ g.id \notin named
      BY <2>1 DEF Alike, SameFact
    <3>2. g \notin Kept(P, named)
      BY <1>1, <1>6, <3>1, KeptAlone
    <3>3. g \notin Kept(P \cup {e}, named)
      <4> SUFFICES ASSUME g \in Kept(P \cup {e}, named) PROVE FALSE
        OBVIOUS
      <4>1. Outranks(g, old)
        BY <1>1, <1>6, <3>1 DEF Kept, Alike, SameFact
      <4>2. Outranks(old, g)
        BY <1>2, <1>6, <3>1
      <4> QED BY <1>1, <3>1, <4>1, <4>2, OutranksOrders
    <3> QED BY <3>2, <3>3
  <2>2. CASE ~Alike(g, e)
    BY <2>2 DEF Kept
  <2> QED BY <2>1, <2>2
<1>7. Kept(P \cup {e}, named) \subseteq P \cup {e} /\ Kept(P, named) \subseteq P
  BY DEF Kept
<1>8. \A x : x \in Kept(P \cup {e}, named) <=> x \in (Kept(P, named) \ {old}) \cup {e}
  BY <1>4, <1>5, <1>6, <1>7, <1>3
<1> QED BY <1>8

\* e adds nothing: one alike is named, or outranks it
LEMMA KeptWithout ==
    ASSUME NEW S, Identified(S), NEW P \in SUBSET S, NEW named, NEW e \in S, e.id \notin named,
           NEW h \in Kept(P, named), Alike(e, h), h.id \in named \/ h = e \/ Outranks(h, e)
    PROVE  Kept(P \cup {e}, named) = Kept(P, named)
<1>1. h \in P /\ h \in S /\ Alike(h, e) /\ NativeKey(e) # None
  BY DEF Kept, Alike, SameFact
<1>2. CASE h = e
  <2>1. P \cup {e} = P
    BY <1>1, <1>2
  <2> QED BY <2>1
<1>3. CASE h # e
  <2>1. e \notin Kept(P \cup {e}, named)
    <3> SUFFICES ASSUME e \in Kept(P \cup {e}, named) PROVE FALSE
      OBVIOUS
    <3>1. h.id \notin named /\ Outranks(e, h)
      BY <1>1, <1>3 DEF Kept
    <3> QED BY <1>1, <1>3, <3>1, OutranksOrders
  <2>2. e \notin Kept(P, named)
    <3> SUFFICES ASSUME e \in Kept(P, named) PROVE FALSE
      OBVIOUS
    <3>1. h.id \notin named /\ Outranks(e, h)
      BY <1>1, <1>3 DEF Kept
    <3> QED BY <1>1, <1>3, <3>1, OutranksOrders
  <2>3. ASSUME NEW g \in P, g # e
        PROVE  g \in Kept(P \cup {e}, named) <=> g \in Kept(P, named)
    <3>1. CASE Alike(g, e)
      <4>1. Alike(g, h) /\ g \in S
        BY <1>1, <3>1 DEF Alike, SameFact
      <4>2. ASSUME g \in Kept(P, named), g.id \notin named
            PROVE  Outranks(g, e)
        <5>1. h = g \/ (h.id \notin named /\ Outranks(g, h))
          BY <1>1, <4>1, <4>2 DEF Kept, Alike, SameFact
        <5> QED BY <1>1, <1>3, <2>3, <4>1, <4>2, <5>1, OutranksOrders
      <4> QED BY <4>2 DEF Kept
    <3>2. CASE ~Alike(g, e)
      BY <3>2 DEF Kept
    <3> QED BY <3>1, <3>2
  <2>4. Kept(P \cup {e}, named) \subseteq P \cup {e} /\ Kept(P, named) \subseteq P
    BY DEF Kept
  <2> QED BY <2>1, <2>2, <2>3, <2>4
<1> QED BY <1>2, <1>3

\* What is open once e tells one more way a fact that others told
OpenedBy(same, e) ==
    IF same # {} THEN Ambiguities({f \in same \cup {e} : f.type = "work_unit.status"}) ELSE {}

LEMMA StatusOpened ==
    ASSUME NEW P, NEW named, NEW e, \A f \in P : ~Alike(e, f),
           \A f \in P : NativeKey(f) # None => \E g \in Kept(P, named) : Alike(f, g),
           NEW same, same = {f \in Kept(P, named) : SameFact(e, f)}, NEW Q, Q = P \cup {e}
    PROVE  StatusOpen(Q) = StatusOpen(P) \cup OpenedBy(same, e)
<1> DEFINE Twofold(T) == {f \in T : /\ f.type = "work_unit.status"
                                    /\ \E g \in T : SameFact(f, g) /\ Disposition(g) # Disposition(f)}
           news == {f \in same \cup {e} : f.type = "work_unit.status"}
<1>1. StatusOpen(P) = {<<"status", f.task>> : f \in Twofold(P)}
      /\ StatusOpen(P \cup {e}) = {<<"status", f.task>> : f \in Twofold(P \cup {e})}
  BY DEF StatusOpen
<1>2. Ambiguities(news) = {<<"status", f.task>> : f \in news}
  BY StatusAmbiguities
<1>3. Twofold(P) \subseteq Twofold(P \cup {e})
  OBVIOUS
<1>4. same \subseteq P
  BY DEF Kept
<1>5. CASE same = {}
  <2>1. \A f \in P : ~SameFact(e, f)
    <3> SUFFICES ASSUME NEW f \in P, SameFact(e, f) PROVE FALSE
      OBVIOUS
    <3>1. PICK g \in Kept(P, named) : Alike(f, g)
      BY DEF SameFact
    <3>2. SameFact(e, g)
      BY <3>1 DEF SameFact, Alike
    <3> QED BY <1>5, <3>2
  <2>2. \A f \in P : ~SameFact(f, e)
    BY <2>1 DEF SameFact
  <2>3. Twofold(P \cup {e}) = Twofold(P)
    BY <2>1, <2>2
  <2> QED BY <1>1, <1>5, <2>3 DEF OpenedBy
<1>6. CASE same # {}
  <2>1. \A f \in same : SameFact(f, e) /\ SameFact(e, f) /\ Disposition(f) # Disposition(e)
    BY <1>4 DEF SameFact, Alike
  <2>2. news \subseteq Twofold(P \cup {e})
    <3>1. ASSUME NEW f \in news
          PROVE  f \in Twofold(P \cup {e})
      <4>1. CASE f \in same
        BY <1>4, <2>1, <4>1
      <4>2. CASE f = e
        BY <1>4, <1>6, <2>1, <4>2
      <4> QED BY <4>1, <4>2
    <3> QED BY <3>1
  <2>3. ASSUME NEW f \in Twofold(P \cup {e}), f \notin Twofold(P)
        PROVE  \E g \in news : g.task = f.task
    <3>1. f.type = "work_unit.status" /\ (f = e \/ SameFact(f, e))
      BY <2>3
    <3>2. e.type = "work_unit.status" /\ e.task = f.task
      BY <3>1, StatusKey
    <3>3. e \in news
      BY <3>2
    <3> QED BY <3>2, <3>3
  <2>4. ASSUME NEW x
        PROVE  x \in StatusOpen(P \cup {e}) <=> x \in StatusOpen(P) \cup Ambiguities(news)
    <3>1. ASSUME x \in StatusOpen(P \cup {e})
          PROVE  x \in StatusOpen(P) \cup Ambiguities(news)
      <4> HIDE DEF Twofold, news
      <4>1. PICK f \in Twofold(P \cup {e}) : x = <<"status", f.task>>
        BY <1>1, <3>1
      <4> QED BY <1>1, <1>2, <2>3, <4>1
    <3>2. ASSUME x \in StatusOpen(P) \cup Ambiguities(news)
          PROVE  x \in StatusOpen(P \cup {e})
      <4> HIDE DEF Twofold, news
      <4> QED BY <1>1, <1>2, <1>3, <2>2, <3>2
    <3> QED BY <3>1, <3>2
  <2> QED BY <1>6, <2>4 DEF OpenedBy
<1> QED BY <1>5, <1>6

\* Nothing more is open about an event that is alike one that was read.
LEMMA StatusKnown ==
    ASSUME NEW P, NEW e, NEW h \in P, Alike(e, h)
    PROVE  StatusOpen(P \cup {e}) = StatusOpen(P)
<1> DEFINE Twofold(Q) == {f \in Q : /\ f.type = "work_unit.status"
                                    /\ \E g \in Q : SameFact(f, g) /\ Disposition(g) # Disposition(f)}
<1>1. StatusOpen(P) = {<<"status", f.task>> : f \in Twofold(P)}
      /\ StatusOpen(P \cup {e}) = {<<"status", f.task>> : f \in Twofold(P \cup {e})}
  BY DEF StatusOpen
<1>2. \A f \in P : SameFact(f, e) <=> SameFact(f, h)
  BY DEF Alike, SameFact
<1>3. Disposition(h) = Disposition(e) /\ SameFact(e, h) /\ SameFact(h, e)
  BY DEF Alike, SameFact
<1>4. \A f \in P : f \in Twofold(P \cup {e}) <=> f \in Twofold(P)
  BY <1>2, <1>3
<1>5. e \in Twofold(P \cup {e}) => h \in Twofold(P) /\ h.task = e.task
  <2> SUFFICES ASSUME e \in Twofold(P \cup {e}) PROVE h \in Twofold(P) /\ h.task = e.task
    OBVIOUS
  <2>1. h.type = "work_unit.status" /\ h.task = e.task
    BY <1>3, StatusKey
  <2>2. PICK g \in P \cup {e} : SameFact(e, g) /\ Disposition(g) # Disposition(e)
    OBVIOUS
  <2>3. g \in P /\ SameFact(h, g) /\ Disposition(g) # Disposition(h)
    BY <1>3, <2>2 DEF SameFact
  <2> QED BY <2>1, <2>3
<1> HIDE DEF Twofold
<1>6. Twofold(P \cup {e}) \subseteq P \cup {e} /\ Twofold(P) \subseteq P
  BY DEF Twofold
<1>7. \A x : x \in StatusOpen(P \cup {e}) <=> x \in StatusOpen(P)
  BY <1>1, <1>4, <1>5, <1>6
<1> QED BY <1>7

LEMMA KeepKeeps ==
    ASSUME NEW S, Identified(S), NEW P \in SUBSET S, NEW named, NEW e \in S,
           NEW acc, HasKept(acc, P, named, S)
    PROVE  HasKept(Keep(acc, e, named), P \cup {e}, named, S)
<1> DEFINE K == Range(acc.events)
           same == {f \in K : NativeKey(f) = NativeKey(e) /\ NativeKey(e) # None}
           equal == {f \in same : Disposition(f) = Disposition(e)}
           other == equal = {} /\ same # {}
           old == CHOOSE f \in equal : \A g \in equal : f = g \/ Outranks(f, g)
           addressed == {f \in equal : f.id \in named} # {}
           after == Keep(acc, e, named)
           Shown == \A f \in P \cup {e} : NativeKey(f) # None => \E g \in Kept(P \cup {e}, named) : Alike(f, g)
<1>1. /\ acc = [events |-> acc.events, open |-> acc.open, conflicts |-> acc.conflicts]
      /\ acc.events \in Seq(S) /\ K = Kept(P, named) /\ acc.open = StatusOpen(P)
      /\ \A f \in P : NativeKey(f) # None => \E g \in Kept(P, named) : Alike(f, g)
  BY DEF HasKept
<1>2. same = {f \in Kept(P, named) : SameFact(e, f)} /\ equal = {f \in Kept(P, named) : Alike(e, f)}
  BY <1>1 DEF SameFact, Alike
<1>3. Kept(P, named) \subseteq P
  BY DEF Kept
<1>4. CASE equal = {} \/ (e.id \in named /\ addressed)
  <2>1. after = [events |-> Append(acc.events, e),
                 open |-> acc.open \cup (IF other THEN Ambiguities({f \in same \cup {e} : f.type = "work_unit.status"})
                                         ELSE {}),
                 conflicts |-> acc.conflicts \cup (IF other THEN {NativeKey(e)} ELSE {})]
    BY <1>4 DEF Keep
  <2>2. after.events \in Seq(S) /\ Range(after.events) = Kept(P, named) \cup {e}
    BY <1>1, <2>1, RangeAppended
  <2>3. CASE equal = {}
    <3>1. \A f \in P : ~Alike(e, f)
      <4> SUFFICES ASSUME NEW f \in P, Alike(e, f) PROVE FALSE
        OBVIOUS
      <4>1. PICK g \in Kept(P, named) : Alike(f, g)
        BY <1>1 DEF Alike, SameFact
      <4>2. Alike(e, g)
        BY <4>1 DEF Alike, SameFact
      <4> QED BY <1>2, <2>3, <4>2
    <3> HIDE DEF same, equal, other, old, addressed, after, Shown, K
    <3>2. Kept(P \cup {e}, named) = Kept(P, named) \cup {e}
      BY <3>1, KeptWithNew
    <3>3. after.open = StatusOpen(P \cup {e})
      <4>1. after.open = StatusOpen(P) \cup OpenedBy(same, e)
        BY <1>1, <2>1, <2>3 DEF other, OpenedBy
      <4>2. same = {f \in Kept(P, named) : SameFact(e, f)}
            /\ \A f \in P : NativeKey(f) # None => \E g \in Kept(P, named) : Alike(f, g)
        BY <1>1, <1>2
      <4> DEFINE Q == P \cup {e}
      <4> HIDE DEF Q
      <4>3. StatusOpen(Q) = StatusOpen(P) \cup OpenedBy(same, e)
        BY <3>1, <4>2, StatusOpened DEF Q
      <4> QED BY <4>1, <4>3 DEF Q
    <3>4. Shown
      BY <1>1, <3>2 DEF Alike, SameFact, Shown
    <3> QED BY <2>1, <2>2, <3>2, <3>3, <3>4 DEF HasKept, Shown, after
  <2>4. CASE equal # {} /\ e.id \in named /\ addressed
    <3>1. PICK h \in Kept(P, named) : h.id \in named /\ Alike(e, h)
      BY <1>2, <2>4
    <3>2. h \in P /\ e.id \in named
      BY <1>3, <2>4
    <3>3. after.open = acc.open
      BY <2>1, <2>4
    <3> HIDE DEF same, equal, other, old, addressed, after, Shown, K
    <3>4. Kept(P \cup {e}, named) = Kept(P, named) \cup {e}
      BY <3>1, <3>2, KeptWithNamed
    <3>5. after.open = StatusOpen(P \cup {e})
      BY <1>1, <3>1, <3>2, <3>3, StatusKnown
    <3>6. Shown
      BY <1>1, <3>4 DEF Alike, SameFact, Shown
    <3> QED BY <2>1, <2>2, <3>4, <3>5, <3>6 DEF HasKept, Shown, after
  <2> QED BY <1>4, <2>3, <2>4
<1>5. CASE equal # {} /\ ~(e.id \in named /\ addressed) /\ (e.id \in named \/ (~addressed /\ Outranks(e, old)))
  <2>1. ~addressed
    BY <1>5
  <2>2. PICK h \in equal : TRUE
    BY <1>5
  <2>3. equal = {h}
    <3> SUFFICES ASSUME NEW g \in equal PROVE g = h
      OBVIOUS
    <3>1. g \in Kept(P, named) /\ h \in Kept(P, named) /\ g.id \notin named /\ h.id \notin named /\ Alike(g, h)
      BY <1>2, <2>1 DEF Alike, SameFact
    <3> QED BY <3>1, KeptAlone
  <2>4. old = h /\ h \in Kept(P, named) /\ Alike(e, h)
    BY <1>2, <2>3
  <2>5. \A f \in P : Alike(e, f) => f.id \notin named
    <3> SUFFICES ASSUME NEW f \in P, Alike(e, f), f.id \in named PROVE FALSE
      OBVIOUS
    <3>1. f \in Kept(P, named)
      BY DEF Kept
    <3> QED BY <1>2, <2>1, <3>1
  <2>6. after = [acc EXCEPT !.events = ReplaceAll(@, old, e)]
    BY <1>5 DEF Keep
  <2>7. after = [events |-> ReplaceAll(acc.events, h, e), open |-> acc.open, conflicts |-> acc.conflicts]
    <3> HIDE DEF after, old
    <3> QED BY <1>1, <2>4, <2>6
  <2> HIDE DEF after, old, equal, same, addressed
  <2>8. after.events \in Seq(S) /\ Range(after.events) = (Kept(P, named) \ {h}) \cup {e}
    BY <1>1, <2>4, <2>7, RangeReplaced
  <2>9. Kept(P \cup {e}, named) = (Kept(P, named) \ {h}) \cup {e}
    BY <1>5, <2>1, <2>4, <2>5, KeptInstead
  <2>10. after.open = StatusOpen(P \cup {e})
    BY <1>1, <1>3, <2>4, <2>7, StatusKnown
  <2>11. Shown
    <3> SUFFICES ASSUME NEW f \in P \cup {e}, NativeKey(f) # None
                 PROVE  \E g \in Kept(P \cup {e}, named) : Alike(f, g)
      OBVIOUS
    <3>1. CASE Alike(f, h) \/ f = e
      BY <2>4, <2>9, <3>1 DEF Alike, SameFact
    <3>2. CASE ~Alike(f, h) /\ f \in P
      BY <1>1, <2>9, <3>2
    <3> QED BY <3>1, <3>2
  <2>12. after = [events |-> after.events, open |-> after.open, conflicts |-> after.conflicts]
    BY <2>7
  <2> HIDE DEF Shown
  <2>13. HasKept(after, P \cup {e}, named, S)
    BY <2>8, <2>9, <2>10, <2>11, <2>12 DEF HasKept, Shown
  <2> QED BY <2>13 DEF after
<1>6. CASE equal # {} /\ e.id \notin named /\ ~(~addressed /\ Outranks(e, old))
  <2>1. after = acc
    BY <1>6 DEF Keep
  <2>2. \E h \in Kept(P, named) : Alike(e, h) /\ (h.id \in named \/ h = e \/ Outranks(h, e))
    <3>1. CASE addressed
      BY <1>2, <3>1
    <3>2. CASE ~addressed
      <4>1. PICK h \in equal : TRUE
        BY <1>6
      <4>2. equal = {h}
        <5> SUFFICES ASSUME NEW g \in equal PROVE g = h
          OBVIOUS
        <5>1. g \in Kept(P, named) /\ h \in Kept(P, named) /\ g.id \notin named /\ h.id \notin named /\ Alike(g, h)
          BY <1>2, <3>2 DEF Alike, SameFact
        <5> QED BY <5>1, KeptAlone
      <4>3. old = h /\ h \in Kept(P, named) /\ Alike(e, h) /\ h \in S
        BY <1>2, <1>3, <4>2
      <4>4. ~Outranks(e, h)
        BY <1>6, <3>2, <4>3
      <4> HIDE DEF old, equal, addressed
      <4> QED BY <4>3, <4>4, OutranksOrders
    <3> QED BY <3>1, <3>2
  <2>3. PICK h \in Kept(P, named) : Alike(e, h) /\ (h.id \in named \/ h = e \/ Outranks(h, e))
    BY <2>2
  <2> HIDE DEF after, old, equal, same, addressed
  <2>4. Kept(P \cup {e}, named) = Kept(P, named)
    BY <1>6, <2>3, KeptWithout
  <2>5. StatusOpen(P \cup {e}) = StatusOpen(P)
    BY <1>3, <2>3, StatusKnown
  <2>6. Shown
    BY <1>1, <2>3, <2>4
  <2> HIDE DEF Shown
  <2>7. HasKept(after, P \cup {e}, named, S)
    BY <1>1, <2>1, <2>4, <2>5, <2>6 DEF HasKept, Shown, K
  <2> QED BY <2>7 DEF after
<1> QED BY <1>4, <1>5, <1>6

\* Whatever the order they are read in, the same events are kept of a set, and the same is open.
LEMMA DedupeOf ==
    ASSUME NEW S, Identified(S), NEW n \in Nat, NEW s \in Seq(S), DOMAIN s = 1..n, Range(s) = S
    PROVE  /\ Dedupe(s).events = Kept(S, NamedBy(S))
           /\ Dedupe(s).open = StatusOpen(S) \cup Ambiguities(Twice(Kept(S, NamedBy(S))))
<1> DEFINE named == NamedBy(S)
           none == [events |-> <<>>, open |-> {}, conflicts |-> {}]
           fold == FoldLeft(LAMBDA a, e : Keep(a, e, named), none, s)
           P(k) == {s[i] : i \in 1..k}
<1>1. fold = Keeping!Fold(named, none, s)
  BY DEF FoldLeft, MapThenFoldSet, Max, Keeping!Fold, Keeping!Top, KeepStep
<1>2. PICK acc : Keeping!Trajectory(acc, named, none, s, n) /\ Keeping!Fold(named, none, s) = acc[n]
  <2> HIDE DEF named, none
  <2> QED BY Keeping!FoldGoes
<1>3. acc[0] = none /\ \A k \in 1..n : acc[k] = Keep(acc[k - 1], s[k], named)
  BY <1>2 DEF Keeping!Trajectory, KeepStep
<1> DEFINE T == {k \in Nat : k <= n => HasKept(acc[k], P(k), named, S)}
<1>4. 0 \in T
  <2>1. P(0) = {} /\ Kept({}, named) = {} /\ StatusOpen({}) = {}
    BY DEF Kept, StatusOpen
  <2>2. none.events \in Seq(S) /\ Range(none.events) = {}
    BY DEF Range
  <2>3. HasKept(none, {}, named, S)
    BY <2>1, <2>2 DEF HasKept
  <2> HIDE DEF none, P
  <2> QED BY <1>3, <2>1, <2>3
<1>5. ASSUME NEW k \in Nat, k \in T
      PROVE  k + 1 \in T
  <2> SUFFICES ASSUME k + 1 <= n PROVE HasKept(acc[k + 1], P(k + 1), named, S)
    OBVIOUS
  <2>1. HasKept(acc[k], P(k), named, S) /\ k + 1 \in 1..n /\ k + 1 - 1 = k
    BY <1>5
  <2>2. \A i \in 1..n : s[i] \in S
    BY DEF Range
  <2>3. P(k) \in SUBSET S /\ s[k + 1] \in S
    BY <2>1, <2>2
  <2>4. P(k + 1) = P(k) \cup {s[k + 1]}
    <3>1. 1..k + 1 = (1..k) \cup {k + 1}
      OBVIOUS
    <3> QED BY <3>1
  <2>5. acc[k + 1] = Keep(acc[k], s[k + 1], named)
    BY <1>3, <2>1
  <2> HIDE DEF P, named
  <2> QED BY <2>1, <2>3, <2>4, <2>5, KeepKeeps
<1>6. HasKept(acc[n], S, named, S)
  <2>1. P(n) = S
    BY DEF Range
  <2> HIDE DEF T, P, named
  <2>2. Nat \subseteq T
    BY <1>4, <1>5, ByClock!Induction
  <2> QED BY <2>1, <2>2 DEF T
<1>7. Range(fold.events) = Kept(S, named) /\ fold.open = StatusOpen(S)
  BY <1>1, <1>2, <1>6 DEF HasKept
<1>8. named = {e.parent : e \in Range(s)}
  BY DEF NamedBy
<1>9. Dedupe(s).events = Range(fold.events)
      /\ Dedupe(s).open = fold.open \cup Ambiguities(Twice(Range(fold.events)))
  BY <1>8 DEF Dedupe
<1> HIDE DEF fold, named
<1>10. named = NamedBy(S)
  BY DEF named
<1> QED BY <1>7, <1>9, <1>10

-----------------------------------------------------------------------------
(* The events that arrive are those of a scenario. *)

Known == Identified(stored \cup late)

LEMMA Skewed ==
    ASSUME NEW sc \in Scenarios, NEW skew \in Skews
    PROVE  Identified(By(skew, sc.given) \cup By(skew, sc.late))
<1> DEFINE S == sc.given \cup sc.late
           Moved(e) == [e EXCEPT !.at = @ + skew[e.epoch]]
           T == {Moved(e) : e \in S}
<1>1. /\ Identified(S)
      /\ \A e \in S : e.at + skew[e.epoch] \in Nat /\ (e.dur = None \/ e.dur <= e.at + skew[e.epoch])
  BY TraceAssumption
<1>2. By(skew, sc.given) \cup By(skew, sc.late) = T
  BY DEF By
<1>3. IsFiniteSet(T)
  <2>1. IsFiniteSet(S)
    BY <1>1 DEF Identified
  <2>2. [e \in S |-> Moved(e)] \in Surjection(S, T)
    BY DEF Surjection
  <2> HIDE DEF S, T, Moved
  <2> QED BY <2>1, <2>2, FS_Surjection
<1>4. ASSUME NEW e \in S
      PROVE  /\ IsEvent(Moved(e)) /\ Moved(e).id = e.id
  <2>1. IsEvent(e) /\ e.at + skew[e.epoch] \in Nat /\ (e.dur = None \/ e.dur <= e.at + skew[e.epoch])
    <3>1. \A f \in S : IsEvent(f)
      BY <1>1 DEF Identified
    <3> QED BY <1>1, <3>1
  <2>2. /\ DOMAIN Moved(e) = DOMAIN Blank /\ Moved(e) = [f \in DOMAIN Blank |-> Moved(e)[f]]
        /\ Moved(e).at = e.at + skew[e.epoch]
        /\ Moved(e).id = e.id /\ Moved(e).epoch = e.epoch /\ Moved(e).seq = e.seq /\ Moved(e).dur = e.dur
    BY <2>1 DEF IsEvent, Blank
  <2> HIDE DEF Moved
  <2> QED BY <2>1, <2>2 DEF IsEvent
<1>5. \A e, f \in T : e.id = f.id => e = f
  <2>1. \A e, f \in S : e.id = f.id => e = f
    BY <1>1 DEF Identified
  <2> HIDE DEF S, Moved
  <2> QED BY <1>4, <2>1
<1>6. \A e \in T : IsEvent(e)
  BY <1>4
<1> HIDE DEF T
<1> QED BY <1>2, <1>3, <1>5, <1>6 DEF Identified

LEMMA AlwaysKnown == SummarySpec => []Known
<1>1. SummaryInit => Known
  BY Skewed DEF SummaryInit, Known
<1>2. Known /\ [SummaryNext]_<<stored, late>> => Known'
  <2>1. ASSUME [SummaryNext]_<<stored, late>>
        PROVE  stored' \cup late' = stored \cup late
    BY <2>1 DEF SummaryNext, Arrive
  <2> QED BY <2>1 DEF Known
<1> QED BY <1>1, <1>2, PTL DEF SummarySpec

LEMMA StoredIdentified ==
    ASSUME Known
    PROVE  Identified(stored)
BY FS_Subset DEF Known, Identified

-----------------------------------------------------------------------------
(* The theorems *)

\* The duplicate that stands for a fact, and what is left open about it, do not depend on the
\* order the reader presents the events in, however far off the clocks of their producers are.
THEOREM ReductionIsOrderFree == SummarySpec => []OrderFree
<1>1. ASSUME Known
      PROVE  OrderFree
  <2>1. Identified(stored) /\ IsFiniteSet(stored)
    BY <1>1, StoredIdentified DEF Identified
  <2>2. /\ Cardinality(stored) \in Nat /\ DOMAIN log = 1..Cardinality(stored)
        /\ Range(log) = stored /\ log \in Seq(stored)
    BY <2>1, ReaderSorts, SortedHolds DEF log, Reader
  <2>3. /\ DOMAIN InOrder(stored, Before) = 1..Cardinality(stored)
        /\ Range(InOrder(stored, Before)) = stored /\ InOrder(stored, Before) \in Seq(stored)
    BY <2>1, EpochsSort, SortedHolds
  <2>4. /\ Dedupe(log).events = Kept(stored, NamedBy(stored))
        /\ Dedupe(log).open = StatusOpen(stored) \cup Ambiguities(Twice(Kept(stored, NamedBy(stored))))
    BY <2>1, <2>2, DedupeOf
  <2>5. /\ Dedupe(InOrder(stored, Before)).events = Kept(stored, NamedBy(stored))
        /\ Dedupe(InOrder(stored, Before)).open
               = StatusOpen(stored) \cup Ambiguities(Twice(Kept(stored, NamedBy(stored))))
    BY <2>1, <2>2, <2>3, DedupeOf
  <2> QED BY <2>4, <2>5 DEF OrderFree
<1> QED BY <1>1, AlwaysKnown, PTL

-----------------------------------------------------------------------------
(* Interval arithmetic: what is counted are the points of intervals.        *)

Intervals(S) == S \subseteq Nat \X Nat /\ IsFiniteSet(S) /\ \A i \in S : i[1] <= i[2]

MergeStep(all, acc, i) ==
    IF i[1] > acc.to THEN [sum |-> acc.sum + acc.to - acc.from, from |-> i[1], to |-> i[2]]
    ELSE [acc EXCEPT !.to = Max({@, i[2]})]
Merging == INSTANCE FoldFacts WITH Op <- MergeStep

LEMMA MaxOfTwo ==
    ASSUME NEW a \in Int, NEW b \in Int
    PROVE  Max({a, b}) = IF a >= b THEN a ELSE b
<1>1. CASE a >= b
  <2>1. \A x \in {a, b} : (\A y \in {a, b} : x >= y) <=> x = a
    BY <1>1
  <2> QED BY <1>1, <2>1 DEF Max
<1>2. CASE ~(a >= b)
  <2>1. \A x \in {a, b} : (\A y \in {a, b} : x >= y) <=> x = b
    BY <1>2
  <2> QED BY <1>2, <2>1 DEF Max
<1> QED BY <1>1, <1>2

LEMMA MinOfTwo ==
    ASSUME NEW a \in Int, NEW b \in Int
    PROVE  Min({a, b}) = IF a <= b THEN a ELSE b
<1>1. CASE a <= b
  <2>1. \A x \in {a, b} : (\A y \in {a, b} : x =< y) <=> x = a
    BY <1>1
  <2> QED BY <1>1, <2>1 DEF Min
<1>2. CASE ~(a <= b)
  <2>1. \A x \in {a, b} : (\A y \in {a, b} : x =< y) <=> x = b
    BY <1>2
  <2> QED BY <1>2, <2>1 DEF Min
<1> QED BY <1>1, <1>2

LEMMA PointOf ==
    ASSUME NEW S, S \subseteq Nat \X Nat, NEW m
    PROVE  m \in Points(S) <=> m \in Nat /\ \E i \in S : i[1] <= m /\ m < i[2]
<1>1. \A i \in S : i[1] \in Nat /\ i[2] \in Nat
  OBVIOUS
<1>2. \A i \in S : m \in i[1] .. i[2] - 1 <=> m \in Nat /\ i[1] <= m /\ m < i[2]
  BY <1>1
<1> QED BY <1>2 DEF Points

LEMMA CountInterval ==
    ASSUME NEW a \in Nat, NEW b \in Nat, a <= b
    PROVE  IsFiniteSet(a .. b - 1) /\ Cardinality(a .. b - 1) = b - a
<1>1. b - 1 \in Int
  OBVIOUS
<1>2. IsFiniteSet(a .. b - 1) /\ Cardinality(a .. b - 1) = IF a > b - 1 THEN 0 ELSE b - 1 - a + 1
  BY <1>1, FS_Interval
<1> QED BY <1>2

\* What has been merged: the points D that are counted, and those of the open interval
Merged(acc, D, P) ==
    /\ acc = [sum |-> acc.sum, from |-> acc.from, to |-> acc.to]
    /\ acc.from \in Nat /\ acc.to \in Nat /\ acc.from <= acc.to
    /\ IsFiniteSet(D) /\ Cardinality(D) = acc.sum
    /\ \A m \in D : m \in Nat /\ m < acc.from
    /\ \A m : m \in P <=> m \in D \/ m \in acc.from .. acc.to - 1

LEMMA MergedCount ==
    ASSUME NEW acc, NEW D, NEW P, Merged(acc, D, P)
    PROVE  IsFiniteSet(P) /\ Cardinality(P) = acc.sum + acc.to - acc.from
<1> DEFINE I == acc.from .. acc.to - 1
<1>1. P = D \cup I /\ D \cap I = {}
  BY DEF Merged
<1>2. IsFiniteSet(I) /\ Cardinality(I) = acc.to - acc.from
  BY CountInterval DEF Merged
<1>3. IsFiniteSet(D) /\ Cardinality(D) = acc.sum /\ acc.sum \in Nat /\ acc.to \in Nat /\ acc.from \in Nat
  BY FS_CardinalityType DEF Merged
<1> HIDE DEF I
<1>4. IsFiniteSet(D \cup I) /\ Cardinality(D \cup I) = Cardinality(D) + Cardinality(I) - Cardinality(D \cap I)
  BY <1>2, <1>3, FS_Union
<1>5. Cardinality(D \cap I) = 0
  BY <1>1, FS_EmptySet
<1> QED BY <1>1, <1>2, <1>3, <1>4, <1>5

LEMMA MergeMerges ==
    ASSUME NEW acc, NEW D, NEW P, Merged(acc, D, P), NEW i \in Nat \X Nat, i[1] <= i[2], acc.from <= i[1],
           NEW Q, \A m : m \in Q <=> m \in P \/ m \in i[1] .. i[2] - 1
    PROVE  \E E : Merged(MergeStep({}, acc, i), E, Q) /\ MergeStep({}, acc, i).from <= i[1]
<1> DEFINE next == MergeStep({}, acc, i)
<1>1. i[1] \in Nat /\ i[2] \in Nat /\ acc.from \in Nat /\ acc.to \in Nat /\ acc.from <= acc.to
  BY DEF Merged
<1>2. CASE i[1] > acc.to
  <2>1. IsFiniteSet(P) /\ Cardinality(P) = acc.sum + acc.to - acc.from
    BY MergedCount
  <2>2. next = [sum |-> acc.sum + acc.to - acc.from, from |-> i[1], to |-> i[2]]
    BY <1>2 DEF MergeStep
  <2>3. \A m \in P : m \in Nat /\ m < i[1]
    BY <1>1, <1>2 DEF Merged
  <2>4. Merged(next, P, Q)
    <3> HIDE DEF next
    <3> QED BY <1>1, <2>1, <2>2, <2>3 DEF Merged
  <2> QED BY <1>1, <2>2, <2>4
<1>3. CASE ~(i[1] > acc.to)
  <2> DEFINE to == IF acc.to >= i[2] THEN acc.to ELSE i[2]
  <2>1. next = [sum |-> acc.sum, from |-> acc.from, to |-> to]
    <3>1. next = [acc EXCEPT !.to = Max({acc.to, i[2]})]
      BY <1>3 DEF MergeStep
    <3>2. Max({acc.to, i[2]}) = to
      BY <1>1, MaxOfTwo
    <3>3. acc = [sum |-> acc.sum, from |-> acc.from, to |-> acc.to]
      BY DEF Merged
    <3> HIDE DEF next, to
    <3> QED BY <3>1, <3>2, <3>3
  <2>2. \A m : m \in acc.from .. acc.to - 1 \/ m \in i[1] .. i[2] - 1 <=> m \in acc.from .. to - 1
    BY <1>1, <1>3
  <2>3. to \in Nat /\ acc.from <= to
    BY <1>1
  <2>4. Merged(next, D, Q)
    <3> HIDE DEF next, to
    <3> QED BY <1>1, <2>1, <2>2, <2>3 DEF Merged
  <2> QED BY <2>1, <2>4
<1> QED BY <1>2, <1>3

\* _union_ms counts every point of the intervals once.
LEMMA UnionCounts ==
    ASSUME NEW S, Intervals(S)
    PROVE  IsFiniteSet(Points(S)) /\ Covered(S) = Cardinality(Points(S))
<1> DEFINE n == Cardinality(S)
           s == InOrder(S, Earlier)
           none == [sum |-> 0, from |-> 0, to |-> 0]
           end == Merging!Fold({}, none, s)
           P(k) == {m \in Nat : \E j \in 1..k : s[j][1] <= m /\ m < s[j][2]}
<1>1. IsFiniteSet(S) /\ S \subseteq Nat \X Nat /\ \A i \in S : i[1] <= i[2]
  BY DEF Intervals
<1>2. Sorted(s, S, StartOrder(S)) /\ n \in Nat /\ DOMAIN s = 1..n
  BY <1>1, StartsSort, SortedHolds
<1>3. Covered(S) = end.sum + end.to - end.from
  BY DEF Covered, FoldLeft, MapThenFoldSet, Max, Merging!Fold, Merging!Top, MergeStep
<1> HIDE DEF s, n, none
<1>4. PICK acc : Merging!Trajectory(acc, {}, none, s, n) /\ end = acc[n]
  BY <1>2, Merging!FoldGoes
<1>5. acc[0] = none /\ \A k \in 1..n : acc[k] = MergeStep({}, acc[k - 1], s[k])
  BY <1>4 DEF Merging!Trajectory
<1>6. \A k \in 1..n : s[k] \in Nat \X Nat /\ s[k][1] \in Nat /\ s[k][2] \in Nat /\ s[k][1] <= s[k][2]
  BY <1>1, <1>2 DEF Sorted, n
<1>7. \A j, k \in 1..n : j < k => s[j][1] <= s[k][1]
  <2>1. \A j, k \in 1..n : j < k => <<s[j], s[k]>> \in StartOrder(S)
    BY <1>2 DEF Sorted, n
  <2>2. \A j, k \in 1..n : j < k => Earlier(s[j], s[k])
    BY <2>1 DEF StartOrder
  <2> QED BY <1>6, <2>2 DEF Earlier
<1> DEFINE So(k) == \E D : Merged(acc[k], D, P(k)) /\ (acc[k].from = 0 \/ \E j \in 1..k : acc[k].from <= s[j][1])
           T == {k \in Nat : k <= n => So(k)}
<1>8. 0 \in T
  <2>1. P(0) = {} /\ 0 .. 0 - 1 = {}
    OBVIOUS
  <2>2. Merged(none, {}, {})
    BY <2>1, FS_EmptySet DEF Merged, none
  <2>3. none.from = 0
    BY DEF none
  <2> HIDE DEF P
  <2> QED BY <1>5, <2>1, <2>2, <2>3
<1>9. ASSUME NEW k \in Nat, k \in T
      PROVE  k + 1 \in T
  <2> HIDE DEF P, So
  <2> SUFFICES ASSUME k + 1 <= n PROVE So(k + 1)
    OBVIOUS
  <2> USE DEF So
  <2>1. PICK D : Merged(acc[k], D, P(k)) /\ (acc[k].from = 0 \/ \E j \in 1..k : acc[k].from <= s[j][1])
    BY <1>2, <1>9
  <2>2. k + 1 \in 1..n /\ k + 1 - 1 = k /\ acc[k].from \in Nat
    BY <1>2, <2>1 DEF Merged
  <2>3. acc[k].from <= s[k + 1][1]
    <3>1. \A j \in 1..k : j \in 1..n /\ j < k + 1
      BY <1>2, <2>2
    <3> QED BY <1>6, <1>7, <2>1, <2>2, <3>1
  <2>4. acc[k + 1] = MergeStep({}, acc[k], s[k + 1])
    BY <1>5, <2>2
  <2>5. \A m : m \in P(k + 1) <=> m \in P(k) \/ m \in s[k + 1][1] .. s[k + 1][2] - 1
    <3>1. \A j : j \in 1..k + 1 <=> j \in 1..k \/ j = k + 1
      OBVIOUS
    <3>2. s[k + 1][1] \in Nat /\ s[k + 1][2] \in Nat
      BY <1>6, <2>2
    <3>3. \A m : m \in s[k + 1][1] .. s[k + 1][2] - 1 <=> m \in Nat /\ s[k + 1][1] <= m /\ m < s[k + 1][2]
      BY <3>2
    <3> QED BY <3>1, <3>3 DEF P
  <2>6. PICK E : Merged(acc[k + 1], E, P(k + 1)) /\ acc[k + 1].from <= s[k + 1][1]
    <3>1. s[k + 1] \in Nat \X Nat /\ s[k + 1][1] <= s[k + 1][2]
      BY <1>6, <2>2
    <3> QED BY <2>1, <2>3, <2>4, <2>5, <3>1, MergeMerges
  <2>7. k + 1 \in 1..k + 1
    OBVIOUS
  <2> QED BY <2>6, <2>7
<1>10. \E D : Merged(acc[n], D, P(n))
  <2> HIDE DEF T, So
  <2>1. Nat \subseteq T
    BY <1>8, <1>9, ByClock!Induction
  <2>2. So(n)
    BY <1>2, <2>1 DEF T
  <2> QED BY <2>2 DEF So
<1>11. P(n) = Points(S)
  <2>1. ASSUME NEW m
        PROVE  m \in P(n) <=> m \in Points(S)
    <3>1. \A i : i \in S <=> \E j \in 1..n : i = s[j]
      BY <1>2 DEF Sorted, n
    <3> QED BY <1>1, <3>1, PointOf
  <2> HIDE DEF P
  <2> QED BY <2>1
<1> QED BY <1>3, <1>4, <1>10, <1>11, MergedCount

RemainStep(i, acc, b) ==
    IF acc.from >= i[2] \/ b[2] <= acc.from \/ b[1] >= i[2] THEN acc
    ELSE [got |-> IF b[1] > acc.from THEN acc.got \cup {<<acc.from, b[1]>>} ELSE acc.got,
          from |-> Max({acc.from, b[2]})]
Remaining == INSTANCE FoldFacts WITH Op <- RemainStep

\* What is left of i before the point that was reached, once the points P are taken away
Left(acc, i, P) ==
    /\ acc = [got |-> acc.got, from |-> acc.from]
    /\ acc.from \in Nat /\ i[1] <= acc.from /\ Intervals(acc.got)
    /\ \A m : m \in Points(acc.got) <=> m \in Nat /\ i[1] <= m /\ m < i[2] /\ m < acc.from /\ m \notin P
    /\ \A m \in P : m \in Nat /\ (m < acc.from \/ m >= i[2])

\* The points of T are those of S and those from a to b.
Longer(T, S, a, b) ==
    Intervals(T) /\ \A m : m \in Points(T) <=> m \in Points(S) \/ (m \in Nat /\ a <= m /\ m < b)

LEMMA OneMoreInterval ==
    ASSUME NEW S, Intervals(S), NEW a \in Nat, NEW b \in Nat, a <= b, NEW T, T = S \cup {<<a, b>>}
    PROVE  Longer(T, S, a, b)
<1>1. S \subseteq Nat \X Nat /\ T \subseteq Nat \X Nat
  BY DEF Intervals
<1>2. Intervals(T)
  <2>1. IsFiniteSet(T)
    BY FS_AddElement DEF Intervals
  <2>2. \A i \in T : i[1] <= i[2]
    BY DEF Intervals
  <2> QED BY <1>1, <2>1, <2>2 DEF Intervals
<1>3. ASSUME NEW m
      PROVE  m \in Points(T) <=> m \in Points(S) \/ (m \in Nat /\ a <= m /\ m < b)
  <2>1. m \in Points(T) <=> m \in Nat /\ \E i \in T : i[1] <= m /\ m < i[2]
    BY <1>1, PointOf
  <2>2. m \in Points(S) <=> m \in Nat /\ \E i \in S : i[1] <= m /\ m < i[2]
    BY <1>1, PointOf
  <2> DEFINE Has(i) == i[1] <= m /\ m < i[2]
  <2>3. Has(<<a, b>>) <=> a <= m /\ m < b
    OBVIOUS
  <2>4. (\E i \in T : Has(i)) <=> (\E i \in S : Has(i)) \/ Has(<<a, b>>)
    <3> HIDE DEF Has
    <3> QED OBVIOUS
  <2> QED BY <2>1, <2>2, <2>3, <2>4
<1> QED BY <1>2, <1>3 DEF Longer

LEMMA RemainsRemain ==
    ASSUME NEW i \in Nat \X Nat, NEW acc, NEW P, Left(acc, i, P), NEW b \in Nat \X Nat, b[1] <= b[2],
           \A m \in Points(acc.got) : m < b[1], NEW Q, \A m : m \in Q <=> m \in P \/ m \in b[1] .. b[2] - 1
    PROVE  /\ Left(RemainStep(i, acc, b), i, Q)
           /\ \A m \in Points(RemainStep(i, acc, b).got) : m < b[1]
<1> DEFINE next == RemainStep(i, acc, b)
<1>1. /\ b[1] \in Nat /\ b[2] \in Nat /\ i[1] \in Nat /\ i[2] \in Nat /\ acc.from \in Nat
      /\ i[1] <= acc.from /\ Intervals(acc.got)
      /\ \A m : m \in Points(acc.got) <=> m \in Nat /\ i[1] <= m /\ m < i[2] /\ m < acc.from /\ m \notin P
      /\ \A m \in P : m \in Nat /\ (m < acc.from \/ m >= i[2])
  BY DEF Left
<1>2. \A m : m \in Q <=> m \in P \/ (m \in Nat /\ b[1] <= m /\ m < b[2])
  BY <1>1
<1>3. CASE acc.from >= i[2] \/ b[2] <= acc.from \/ b[1] >= i[2]
  <2>1. next = acc
    BY <1>3 DEF RemainStep
  <2>2. \A m : m \in Points(acc.got) <=> m \in Nat /\ i[1] <= m /\ m < i[2] /\ m < acc.from /\ m \notin Q
    BY <1>1, <1>2
  <2>3. \A m \in Q : m \in Nat /\ (m < acc.from \/ m >= i[2])
    BY <1>1, <1>2, <1>3
  <2> HIDE DEF next
  <2> QED BY <2>1, <2>2, <2>3 DEF Left, next
<1>4. CASE ~(acc.from >= i[2] \/ b[2] <= acc.from \/ b[1] >= i[2])
  <2> DEFINE got == IF b[1] > acc.from THEN acc.got \cup {<<acc.from, b[1]>>} ELSE acc.got
  <2>1. next = [got |-> got, from |-> b[2]]
    <3>1. Max({acc.from, b[2]}) = b[2]
      BY <1>1, <1>4, MaxOfTwo
    <3> QED BY <1>4, <3>1 DEF RemainStep
  <2>2. Intervals(got) /\ \A m : m \in Points(got) <=> m \in Points(acc.got) \/ (m \in Nat /\ acc.from <= m /\ m < b[1])
    <3>1. CASE b[1] > acc.from
      <4>1. got = acc.got \cup {<<acc.from, b[1]>>}
        BY <3>1
      <4>2. Intervals(acc.got) /\ acc.from \in Nat /\ b[1] \in Nat /\ acc.from <= b[1]
        BY <1>1, <3>1
      <4>3. Longer(got, acc.got, acc.from, b[1])
        BY <4>1, <4>2, OneMoreInterval
      <4> QED BY <4>3 DEF Longer
    <3>2. CASE ~(b[1] > acc.from)
      BY <1>1, <3>2
    <3> QED BY <3>1, <3>2
  <2> HIDE DEF got, next
  <2>3. \A m : m \in Points(got) <=> m \in Nat /\ i[1] <= m /\ m < i[2] /\ m < b[2] /\ m \notin Q
    BY <1>1, <1>2, <1>4, <2>2
  <2>4. \A m \in Q : m \in Nat /\ (m < b[2] \/ m >= i[2])
    BY <1>1, <1>2, <1>4
  <2>5. \A m \in Points(got) : m < b[1]
    BY <1>1, <2>2
  <2>6. i[1] <= b[2]
    BY <1>1, <1>4
  <2>7. Left(next, i, Q)
    BY <1>1, <2>1, <2>2, <2>3, <2>4, <2>6 DEF Left
  <2> QED BY <2>1, <2>5, <2>7 DEF next
<1> QED BY <1>3, <1>4

\* What _subtract leaves of an interval are its points that no blocker has.
LEMMA RemainsOf ==
    ASSUME NEW i \in Nat \X Nat, i[1] <= i[2], NEW higher, Intervals(higher)
    PROVE  /\ Intervals(Remains(i, higher))
           /\ \A m : m \in Points(Remains(i, higher)) <=>
                         m \in Nat /\ i[1] <= m /\ m < i[2] /\ m \notin Points(higher)
<1> DEFINE n == Cardinality(higher)
           s == InOrder(higher, Earlier)
           none == [got |-> {}, from |-> i[1]]
           end == Remaining!Fold(i, none, s)
           P(k) == {m \in Nat : \E j \in 1..k : s[j][1] <= m /\ m < s[j][2]}
<1>1. IsFiniteSet(higher) /\ higher \subseteq Nat \X Nat /\ \A b \in higher : b[1] <= b[2]
  BY DEF Intervals
<1>2. Sorted(s, higher, StartOrder(higher)) /\ n \in Nat /\ DOMAIN s = 1..n
  BY <1>1, StartsSort, SortedHolds
<1>3. Remains(i, higher) = end.got \cup (IF end.from < i[2] THEN {<<end.from, i[2]>>} ELSE {})
  BY DEF Remains, FoldLeft, MapThenFoldSet, Max, Remaining!Fold, Remaining!Top, RemainStep
<1> HIDE DEF s, n, none
<1>4. PICK acc : Remaining!Trajectory(acc, i, none, s, n) /\ end = acc[n]
  BY <1>2, Remaining!FoldGoes
<1>5. acc[0] = none /\ \A k \in 1..n : acc[k] = RemainStep(i, acc[k - 1], s[k])
  BY <1>4 DEF Remaining!Trajectory
<1>6. \A k \in 1..n : s[k] \in Nat \X Nat /\ s[k][1] \in Nat /\ s[k][2] \in Nat /\ s[k][1] <= s[k][2]
  BY <1>1, <1>2 DEF Sorted, n
<1>7. \A j, k \in 1..n : j < k => s[j][1] <= s[k][1]
  <2>1. \A j, k \in 1..n : j < k => <<s[j], s[k]>> \in StartOrder(higher)
    BY <1>2 DEF Sorted, n
  <2>2. \A j, k \in 1..n : j < k => Earlier(s[j], s[k])
    BY <2>1 DEF StartOrder
  <2> QED BY <1>6, <2>2 DEF Earlier
<1> DEFINE So(k) == Left(acc[k], i, P(k)) /\ \A m \in Points(acc[k].got) : \A j \in 1..n : j > k => m < s[j][1]
           T == {k \in Nat : k <= n => So(k)}
<1>8. 0 \in T
  <2>1. P(0) = {} /\ Points({}) = {} /\ Intervals({})
    BY FS_EmptySet DEF Points, Intervals
  <2>2. Left(none, i, {}) /\ Points(none.got) = {}
    BY <2>1 DEF Left, none
  <2> HIDE DEF P
  <2> QED BY <1>5, <2>1, <2>2
<1>9. ASSUME NEW k \in Nat, k \in T
      PROVE  k + 1 \in T
  <2> HIDE DEF P, So
  <2> SUFFICES ASSUME k + 1 <= n PROVE So(k + 1)
    OBVIOUS
  <2> USE DEF So
  <2>1. k + 1 \in 1..n /\ k + 1 - 1 = k /\ k + 1 > k
    BY <1>2
  <2>2. Left(acc[k], i, P(k)) /\ \A m \in Points(acc[k].got) : m < s[k + 1][1]
    BY <1>2, <1>9, <2>1
  <2>3. acc[k + 1] = RemainStep(i, acc[k], s[k + 1])
    BY <1>5, <2>1
  <2>4. \A m : m \in P(k + 1) <=> m \in P(k) \/ m \in s[k + 1][1] .. s[k + 1][2] - 1
    <3>1. \A j : j \in 1..k + 1 <=> j \in 1..k \/ j = k + 1
      OBVIOUS
    <3>2. s[k + 1][1] \in Nat /\ s[k + 1][2] \in Nat
      BY <1>6, <2>1
    <3>3. \A m : m \in s[k + 1][1] .. s[k + 1][2] - 1 <=> m \in Nat /\ s[k + 1][1] <= m /\ m < s[k + 1][2]
      BY <3>2
    <3> QED BY <3>1, <3>3 DEF P
  <2>5. Left(acc[k + 1], i, P(k + 1)) /\ \A m \in Points(acc[k + 1].got) : m < s[k + 1][1]
    <3>1. s[k + 1] \in Nat \X Nat /\ s[k + 1][1] <= s[k + 1][2]
      BY <1>6, <2>1
    <3> QED BY <2>2, <2>3, <2>4, <3>1, RemainsRemain
  <2>6. ASSUME NEW m \in Points(acc[k + 1].got), NEW j \in 1..n, j > k + 1
        PROVE  m < s[j][1]
    <3>1. s[k + 1][1] <= s[j][1] /\ m \in Nat /\ s[k + 1][1] \in Nat /\ s[j][1] \in Nat
      BY <1>6, <1>7, <2>1, <2>5, <2>6 DEF Left
    <3> QED BY <2>5, <3>1
  <2> QED BY <2>5, <2>6
<1>10. Left(end, i, P(n))
  <2> HIDE DEF T, So
  <2>1. Nat \subseteq T
    BY <1>8, <1>9, ByClock!Induction
  <2>2. So(n)
    BY <1>2, <2>1 DEF T
  <2> QED BY <1>4, <2>2 DEF So
<1>11. P(n) = Points(higher)
  <2>1. ASSUME NEW m
        PROVE  m \in P(n) <=> m \in Points(higher)
    <3>1. \A b : b \in higher <=> \E j \in 1..n : b = s[j]
      BY <1>2 DEF Sorted, n
    <3> QED BY <1>1, <3>1, PointOf
  <2> HIDE DEF P
  <2> QED BY <2>1
<1> HIDE DEF end, P
<1>12. /\ i[1] \in Nat /\ i[2] \in Nat /\ end.from \in Nat /\ i[1] <= end.from /\ Intervals(end.got)
       /\ \A m : m \in Points(end.got) <=> m \in Nat /\ i[1] <= m /\ m < i[2] /\ m < end.from /\ m \notin Points(higher)
       /\ \A m \in Points(higher) : m \in Nat /\ (m < end.from \/ m >= i[2])
  BY <1>10, <1>11 DEF Left
<1>13. CASE end.from < i[2]
  <2>1. Remains(i, higher) = end.got \cup {<<end.from, i[2]>>}
    BY <1>3, <1>13
  <2>2. /\ Intervals(Remains(i, higher))
        /\ \A m : m \in Points(Remains(i, higher)) <=>
                      m \in Points(end.got) \/ (m \in Nat /\ end.from <= m /\ m < i[2])
    <3>1. Intervals(end.got) /\ end.from \in Nat /\ i[2] \in Nat /\ end.from <= i[2]
      BY <1>12, <1>13
    <3>2. Longer(Remains(i, higher), end.got, end.from, i[2])
      BY <2>1, <3>1, OneMoreInterval
    <3> QED BY <3>2 DEF Longer
  <2> QED BY <1>12, <1>13, <2>2
<1>14. CASE ~(end.from < i[2])
  <2>1. Remains(i, higher) = end.got
    BY <1>3, <1>14
  <2> QED BY <1>12, <1>14, <2>1
<1> QED BY <1>13, <1>14

LEMMA SubtractTakes ==
    ASSUME NEW S, Intervals(S), NEW higher, Intervals(higher)
    PROVE  /\ Intervals(Subtract(S, higher))
           /\ \A m : m \in Points(Subtract(S, higher)) <=> m \in Points(S) /\ m \notin Points(higher)
<1>1. CASE higher = {}
  BY <1>1 DEF Subtract, Points
<1>2. CASE higher # {}
  <2> DEFINE F == {Remains(i, higher) : i \in S}
  <2>1. Subtract(S, higher) = UNION F
    BY <1>2 DEF Subtract
  <2>2. \A i \in S : /\ Intervals(Remains(i, higher))
                     /\ \A m : m \in Points(Remains(i, higher)) <=>
                                   m \in Nat /\ i[1] <= m /\ m < i[2] /\ m \notin Points(higher)
    BY RemainsOf DEF Intervals
  <2>3. IsFiniteSet(F)
    <3>1. [i \in S |-> Remains(i, higher)] \in Surjection(S, F)
      BY DEF Surjection
    <3>2. IsFiniteSet(S)
      BY DEF Intervals
    <3> HIDE DEF F
    <3> QED BY <3>1, <3>2, FS_Surjection
  <2>4. \A T \in F : IsFiniteSet(T) /\ T \subseteq Nat \X Nat /\ \A i \in T : i[1] <= i[2]
    BY <2>2 DEF Intervals
  <2>5. Intervals(UNION F)
    <3> HIDE DEF F
    <3> QED BY <2>3, <2>4, FS_UNION DEF Intervals
  <2>6. ASSUME NEW m
        PROVE  m \in Points(UNION F) <=> m \in Points(S) /\ m \notin Points(higher)
    <3>1. m \in Points(UNION F) <=> m \in Nat /\ \E j \in UNION F : j[1] <= m /\ m < j[2]
      BY <2>5, PointOf DEF Intervals
    <3>2. m \in Points(S) <=> m \in Nat /\ \E i \in S : i[1] <= m /\ m < i[2]
      BY PointOf DEF Intervals
    <3>3. \A i \in S : m \in Points(Remains(i, higher)) <=> m \in Nat /\ \E j \in Remains(i, higher) : j[1] <= m /\ m < j[2]
      BY <2>2, PointOf DEF Intervals
    <3> QED BY <2>2, <3>1, <3>2, <3>3
  <2> QED BY <2>1, <2>5, <2>6
<1> QED BY <1>1, <1>2

-----------------------------------------------------------------------------
(* Durations: the categories of a trace that was scanned                    *)

Categories == {"owner", "other", "review", "active"}

\* What the scan knows of time: spans that ended, spans that are open, and the ends of the trace
Timed(s) ==
    /\ IsFiniteSet(DOMAIN s.open) /\ \A k \in DOMAIN s.open : s.open[k].at \in Nat
    /\ \A cat \in Categories : s.spans[cat] \subseteq Nat \X Nat /\ IsFiniteSet(s.spans[cat])
    /\ s.origin \in Nat \cup {None} /\ s.ended \in Nat \cup {None}

LEMMA MaxOfFinite ==
    ASSUME NEW S, S \subseteq Nat, IsFiniteSet(S), S # {}
    PROVE  Max(S) \in S /\ \A x \in S : x <= Max(S)
<1> DEFINE R == {p \in S \X S : p[1] > p[2]}
<1>1. \A x, y \in S : <<x, y>> \in R <=> x > y
  OBVIOUS
<1> HIDE DEF R
<1>2. Linear(S, R)
  BY <1>1 DEF Linear
<1>3. PICK x \in S : \A y \in S : y = x \/ <<x, y>> \in R
  BY <1>2, LeastMember
<1>4. ASSUME NEW y \in S
      PROVE  x >= y
  <2>1. y = x \/ <<x, y>> \in R
    BY <1>3
  <2>2. x \in Nat /\ y \in Nat /\ (<<x, y>> \in R => x > y)
    BY <1>1
  <2> QED BY <2>1, <2>2
<1>5. \E z \in S : \A y \in S : z >= y
  BY <1>4
<1>6. Max(S) \in S /\ \A y \in S : Max(S) >= y
  BY <1>5 DEF Max
<1> QED BY <1>6

\* Intervals between two times
Within(S, from, to) == Intervals(S) /\ \A m \in Points(S) : m \in Nat /\ from <= m /\ m < to

LEMMA ClipClips ==
    ASSUME NEW S, S \subseteq Nat \X Nat, IsFiniteSet(S), NEW origin \in Nat, NEW horizon \in Nat,
           NEW C, C = {i \in {<<Max({j[1], origin}), Min({j[2], horizon})>> : j \in S} : i[1] <= i[2]}
    PROVE  Within(C, origin, horizon)
<1> DEFINE Clip(j) == <<Max({j[1], origin}), Min({j[2], horizon})>>
           D == {Clip(j) : j \in S}
<1>1. ASSUME NEW j \in S
      PROVE  /\ Clip(j) \in Nat \X Nat
             /\ origin <= Clip(j)[1] /\ Clip(j)[2] <= horizon
  <2>1. j[1] \in Nat /\ j[2] \in Nat
    OBVIOUS
  <2>2. /\ Max({j[1], origin}) = IF j[1] >= origin THEN j[1] ELSE origin
        /\ Min({j[2], horizon}) = IF j[2] <= horizon THEN j[2] ELSE horizon
    BY <2>1, MaxOfTwo, MinOfTwo
  <2>3. /\ Max({j[1], origin}) \in Nat /\ origin <= Max({j[1], origin})
        /\ Min({j[2], horizon}) \in Nat /\ Min({j[2], horizon}) <= horizon
    BY <2>1, <2>2
  <2> QED BY <2>3
<1>2. IsFiniteSet(D)
  <2>1. [j \in S |-> Clip(j)] \in Surjection(S, D)
    BY DEF Surjection
  <2> HIDE DEF D, Clip
  <2> QED BY <2>1, FS_Surjection
<1>3. C \subseteq D /\ \A i \in C : i[1] <= i[2]
  OBVIOUS
<1>4. ASSUME NEW i \in C
      PROVE  i \in Nat \X Nat /\ origin <= i[1] /\ i[2] <= horizon
  <2>1. PICK j \in S : i = Clip(j)
    OBVIOUS
  <2> HIDE DEF Clip
  <2> QED BY <1>1, <2>1
<1>5. IsFiniteSet(C)
  <2> HIDE DEF D
  <2> QED BY <1>2, <1>3, FS_Subset
<1>6. Intervals(C)
  BY <1>3, <1>4, <1>5 DEF Intervals
<1>7. ASSUME NEW m \in Points(C)
      PROVE  m \in Nat /\ origin <= m /\ m < horizon
  <2>1. C \subseteq Nat \X Nat
    BY <1>4
  <2>2. PICK i \in C : m \in Nat /\ i[1] <= m /\ m < i[2]
    BY <2>1, PointOf
  <2>3. i[1] \in Nat /\ i[2] \in Nat /\ origin <= i[1] /\ i[2] <= horizon
    BY <1>4
  <2> QED BY <2>2, <2>3
<1> QED BY <1>6, <1>7 DEF Within

\* What a set of intervals covers, after those of two were put together or those of another taken away
Joins(Q, S, T) == Intervals(Q) /\ \A m : m \in Points(Q) <=> m \in Points(S) \/ m \in Points(T)
Takes(Q, S, T) == Intervals(Q) /\ \A m : m \in Points(Q) <=> m \in Points(S) /\ m \notin Points(T)

LEMMA UnionJoins ==
    ASSUME NEW S, NEW T, Intervals(S), Intervals(T)
    PROVE  Joins(S \cup T, S, T) /\ Intervals(S \cup T)
BY FS_Union DEF Joins, Intervals, Points

LEMMA SubtractionTakes ==
    ASSUME NEW S, NEW T, Intervals(S), Intervals(T)
    PROVE  Takes(Subtract(S, T), S, T) /\ Intervals(Subtract(S, T))
BY SubtractTakes DEF Takes

\* The categories of a trace, each with the points it takes from those it has precedence over
PartsCounted(owner, rawOther, other, rawReview, review, rawActive, active, four, from, to) ==
    /\ \A S \in {owner, other, review, active} : Within(S, from, to) /\ Covered(S) = Cardinality(Points(S))
    /\ Points(other) = Points(rawOther) \ Points(owner)
    /\ Points(review) = Points(rawReview) \ (Points(owner) \cup Points(rawOther))
    /\ Points(active) = Points(rawActive) \ (Points(owner) \cup Points(rawOther) \cup Points(rawReview))
    /\ Covered(four) = Cardinality(Points(owner) \cup Points(other) \cup Points(review) \cup Points(active))

LEMMA PartsCount ==
    ASSUME NEW owner, NEW rawOther, NEW rawReview, NEW rawActive, NEW origin \in Nat, NEW horizon \in Nat,
           Within(owner, origin, horizon), Within(rawOther, origin, horizon),
           Within(rawReview, origin, horizon), Within(rawActive, origin, horizon),
           NEW other, other = Subtract(rawOther, owner),
           NEW two, two = owner \cup other, NEW review, review = Subtract(rawReview, two),
           NEW three, three = two \cup review, NEW active, active = Subtract(rawActive, three),
           NEW four, four = three \cup active
    PROVE  PartsCounted(owner, rawOther, other, rawReview, review, rawActive, active, four, origin, horizon)
<1>1. Intervals(owner) /\ Intervals(rawOther) /\ Intervals(rawReview) /\ Intervals(rawActive)
  BY DEF Within
<1>2. Takes(other, rawOther, owner) /\ Intervals(other)
  BY <1>1, SubtractionTakes
<1>3. Joins(two, owner, other) /\ Intervals(two)
  BY <1>1, <1>2, UnionJoins
<1>4. Takes(review, rawReview, two) /\ Intervals(review)
  BY <1>1, <1>3, SubtractionTakes
<1>5. Joins(three, two, review) /\ Intervals(three)
  BY <1>3, <1>4, UnionJoins
<1>6. Takes(active, rawActive, three) /\ Intervals(active)
  BY <1>1, <1>5, SubtractionTakes
<1>7. Joins(four, three, active) /\ Intervals(four)
  BY <1>5, <1>6, UnionJoins
<1>8. Covered(four) = Cardinality(Points(owner) \cup Points(other) \cup Points(review) \cup Points(active))
  <2>1. Points(four) = Points(owner) \cup Points(other) \cup Points(review) \cup Points(active)
    BY <1>3, <1>5, <1>7 DEF Joins
  <2>2. Covered(four) = Cardinality(Points(four))
    BY <1>7, UnionCounts
  <2> QED BY <2>1, <2>2
<1>9. \A S \in {owner, other, review, active} : Within(S, origin, horizon) /\ Covered(S) = Cardinality(Points(S))
  <2>1. Covered(owner) = Cardinality(Points(owner)) /\ Covered(other) = Cardinality(Points(other))
    BY <1>1, <1>2, UnionCounts
  <2>2. Covered(review) = Cardinality(Points(review)) /\ Covered(active) = Cardinality(Points(active))
    BY <1>4, <1>6, UnionCounts
  <2>3. Within(other, origin, horizon) /\ Within(review, origin, horizon) /\ Within(active, origin, horizon)
    BY <1>2, <1>4, <1>6 DEF Within, Takes
  <2> QED BY <2>1, <2>2, <2>3
<1>10. /\ \A m : m \in Points(other) <=> m \in Points(rawOther) /\ m \notin Points(owner)
       /\ \A m : m \in Points(two) <=> m \in Points(owner) \/ m \in Points(other)
       /\ \A m : m \in Points(review) <=> m \in Points(rawReview) /\ m \notin Points(two)
       /\ \A m : m \in Points(three) <=> m \in Points(two) \/ m \in Points(review)
       /\ \A m : m \in Points(active) <=> m \in Points(rawActive) /\ m \notin Points(three)
  BY <1>2, <1>3, <1>4, <1>5, <1>6 DEF Takes, Joins
<1>11. /\ Points(other) = Points(rawOther) \ Points(owner)
       /\ Points(review) = Points(rawReview) \ (Points(owner) \cup Points(rawOther))
       /\ Points(active) = Points(rawActive) \ (Points(owner) \cup Points(rawOther) \cup Points(rawReview))
  BY ONLY <1>10
<1> QED BY <1>8, <1>9, <1>11 DEF PartsCounted

\* What CountedOnce says of the durations d
Cover(d) == UNION {Points(d.parts[cat]) : cat \in DOMAIN d.parts}
Counted(s, d) ==
    /\ \A cat \in DOMAIN d.parts :
           /\ Points(d.parts[cat]) = Points(d.raw[cat]) \ UNION {Points(d.raw[c]) : c \in Above(cat)}
           /\ Reports(d.ms[cat], Cardinality(Points(d.parts[cat])))
    /\ d.wall # None => /\ Reports(d.wall, d.to - s.origin)
                        /\ d.unclassified \in Nat
                        /\ d.unclassified \in d.to - s.origin - Cardinality(Cover(d)) - 1
                                             .. d.to - s.origin - Cardinality(Cover(d)) + 1
                        /\ d.to - s.origin - Cardinality(Cover(d)) = 0 => d.unclassified = 0

\* The conversion loses at most one.
LEMMA MsReports ==
    ASSUME NEW m \in Nat
    PROVE  Ms(m) \in Nat /\ Reports(Ms(m), m)
BY TraceAssumption DEF Ms, Reports

\* The sum of the parts is no more than the time between the ends.
LEMMA PartsFit ==
    ASSUME NEW origin \in Nat, NEW horizon \in Nat, origin <= horizon,
           NEW P, \A m \in P : m \in Nat /\ origin <= m /\ m < horizon
    PROVE  Cardinality(P) \in Nat /\ Cardinality(P) <= horizon - origin
<1>1. P \subseteq origin..(horizon - 1)
  OBVIOUS
<1>2. IsFiniteSet(origin..(horizon - 1)) /\ Cardinality(origin..(horizon - 1)) = horizon - origin
  BY CountInterval
<1> QED BY <1>1, <1>2, FS_Subset, FS_CardinalityType

LEMMA DurationsCount ==
    ASSUME NEW s, Timed(s), NEW completedAt \in Nat \cup {None}, AsOf(s) \in Nat
    PROVE  Counted(s, Durations(s, completedAt))
<1> DEFINE closed == IF completedAt # None THEN completedAt ELSE s.ended
           horizon == IF closed # None THEN closed ELSE AsOf(s)
           still(cat) == {<<s.open[k].at, horizon>> : k \in {j \in DOMAIN s.open : WhileOpen(s.open[j].cat) = cat}}
           origin == IF s.origin = None THEN 0 ELSE s.origin
           clip(S) == {i \in {<<Max({j[1], origin}), Min({j[2], horizon})>> : j \in S} : i[1] <= i[2]}
           raw(cat) == clip(s.spans[cat] \cup {i \in still(cat) : i[1] <= horizon})
           owner == raw("owner")
           other == Subtract(raw("other"), owner)
           review == Subtract(raw("review"), owner \cup other)
           active == Subtract(raw("active"), owner \cup other \cup review)
           wall == MsOf(s.origin, horizon)
           all == owner \cup other \cup review \cup active
           parts == [owner |-> owner, other |-> other, review |-> review, active |-> active]
           d == Durations(s, completedAt)
<1>1. d = [to |-> horizon, raw |-> [cat \in DOMAIN parts |-> raw(cat)], parts |-> parts,
           wall |-> wall, ms |-> [cat \in DOMAIN parts |-> UnionMs(parts[cat])],
           unclassified |-> IF wall = None THEN None ELSE Max({0, wall - UnionMs(all)})]
  BY DEF Durations
<1>2. horizon \in Nat /\ origin \in Nat
  BY DEF Timed
<1> HIDE DEF horizon, origin, closed
<1>3. ASSUME NEW cat \in Categories
      PROVE  Within(raw(cat), origin, horizon)
  <2> DEFINE O == {j \in DOMAIN s.open : WhileOpen(s.open[j].cat) = cat}
             S == s.spans[cat] \cup {i \in still(cat) : i[1] <= horizon}
  <2>1. still(cat) \subseteq Nat \X Nat
    BY <1>2 DEF Timed
  <2>2. IsFiniteSet(still(cat))
    <3>1. [k \in O |-> <<s.open[k].at, horizon>>] \in Surjection(O, still(cat))
      BY DEF Surjection
    <3>2. IsFiniteSet(O)
      BY FS_Subset DEF Timed
    <3> HIDE DEF O, still
    <3> QED BY <3>1, <3>2, FS_Surjection
  <2>3. s.spans[cat] \subseteq Nat \X Nat /\ IsFiniteSet(s.spans[cat])
    BY DEF Timed
  <2>4. S \subseteq Nat \X Nat /\ IsFiniteSet(S)
    <3> HIDE DEF still
    <3>1. {i \in still(cat) : i[1] <= horizon} \subseteq Nat \X Nat
      BY <2>1
    <3>2. IsFiniteSet({i \in still(cat) : i[1] <= horizon})
      BY <2>2, FS_Subset
    <3> QED BY <2>3, <3>1, <3>2, FS_Union
  <2>5. raw(cat) = {i \in {<<Max({j[1], origin}), Min({j[2], horizon})>> : j \in S} : i[1] <= i[2]}
    OBVIOUS
  <2> HIDE DEF S, raw
  <2> QED BY <1>2, <2>4, <2>5, ClipClips
<1> HIDE DEF raw
<1>4. /\ Within(owner, origin, horizon) /\ Within(raw("other"), origin, horizon)
      /\ Within(raw("review"), origin, horizon) /\ Within(raw("active"), origin, horizon)
  BY <1>3 DEF Categories
<1> DEFINE two == owner \cup other
           three == two \cup review
<1>5. /\ other = Subtract(raw("other"), owner) /\ review = Subtract(raw("review"), two)
      /\ active = Subtract(raw("active"), three) /\ all = three \cup active
  OBVIOUS
<1>6. two = owner \cup other /\ three = two \cup review
  OBVIOUS
<1> HIDE DEF owner, other, review, active, all, two, three
<1>7. PartsCounted(owner, raw("other"), other, raw("review"), review, raw("active"), active, all, origin, horizon)
  <2> HIDE DEF d, parts, wall
  <2> QED BY <1>2, <1>4, <1>5, <1>6, PartsCount
<1>8. /\ d.parts = parts /\ DOMAIN d.parts = Categories /\ d.wall = wall /\ d.to = horizon
      /\ \A cat \in Categories : d.raw[cat] = raw(cat) /\ d.ms[cat] = UnionMs(parts[cat])
      /\ d.unclassified = IF wall = None THEN None ELSE Max({0, wall - UnionMs(all)})
  BY <1>1 DEF Categories
<1>9. /\ parts["owner"] = owner /\ parts["other"] = other
      /\ parts["review"] = review /\ parts["active"] = active
  OBVIOUS
<1> DEFINE P == Points(owner) \cup Points(other) \cup Points(review) \cup Points(active)
<1> HIDE DEF d, parts
<1>10. Cover(d) = P
  BY <1>8, <1>9 DEF Categories, Cover
<1>11. ASSUME NEW cat \in Categories
       PROVE  /\ Points(parts[cat]) = Points(raw(cat)) \ UNION {Points(raw(c)) : c \in Above(cat)}
              /\ UNION {Points(d.raw[c]) : c \in Above(cat)} = UNION {Points(raw(c)) : c \in Above(cat)}
              /\ Reports(d.ms[cat], Cardinality(Points(parts[cat])))
  <2>1. Above(cat) \subseteq Categories
    BY DEF Above, Categories
  <2>2. UNION {Points(d.raw[c]) : c \in Above(cat)} = UNION {Points(raw(c)) : c \in Above(cat)}
    BY <1>8, <2>1
  <2>3. owner = raw("owner")
    BY DEF owner
  <2>4. Points(parts[cat]) = Points(raw(cat)) \ UNION {Points(raw(c)) : c \in Above(cat)}
    <3>1. CASE cat = "owner"
      BY <1>9, <2>3, <3>1 DEF Above
    <3>2. CASE cat = "other"
      <4>1. Above(cat) = {"owner"}
        BY <3>2 DEF Above
      <4> QED BY <1>7, <1>9, <2>3, <3>2, <4>1 DEF PartsCounted
    <3>3. CASE cat = "review"
      <4>1. Above(cat) = {"owner", "other"}
        BY <3>3 DEF Above
      <4> QED BY <1>7, <1>9, <2>3, <3>3, <4>1 DEF PartsCounted
    <3>4. CASE cat = "active"
      <4>1. Above(cat) = {"owner", "other", "review"}
        BY <3>4 DEF Above
      <4> QED BY <1>7, <1>9, <2>3, <3>4, <4>1 DEF PartsCounted
    <3> QED BY <3>1, <3>2, <3>3, <3>4 DEF Categories
  <2>5. parts[cat] \in {owner, other, review, active}
    BY <1>9 DEF Categories
  <2>6. Covered(parts[cat]) = Cardinality(Points(parts[cat])) /\ Within(parts[cat], origin, horizon)
    BY <1>7, <2>5 DEF PartsCounted
  <2>7. Cardinality(Points(parts[cat])) \in Nat
    BY <2>6, UnionCounts, FS_CardinalityType DEF Within
  <2>8. d.ms[cat] = Ms(Covered(parts[cat]))
    BY <1>8 DEF UnionMs
  <2> QED BY <2>2, <2>4, <2>6, <2>7, <2>8, MsReports
<1>12. \A m \in P : m \in Nat /\ origin <= m /\ m < horizon
  BY <1>7 DEF PartsCounted, Within
<1>13. ASSUME d.wall # None
       PROVE  /\ Reports(d.wall, d.to - s.origin)
              /\ d.unclassified \in Nat
              /\ d.unclassified \in d.to - s.origin - Cardinality(P) - 1 .. d.to - s.origin - Cardinality(P) + 1
              /\ d.to - s.origin - Cardinality(P) = 0 => d.unclassified = 0
  <2>1. s.origin # None /\ s.origin = origin /\ origin <= horizon /\ wall = Ms(horizon - origin)
    <3>1. s.origin # None
      BY <1>8, <1>13 DEF MsOf
    <3>2. s.origin = origin
      BY <3>1 DEF origin
    <3>3. origin <= horizon
      BY <1>2, <1>8, <1>13, <3>2 DEF MsOf
    <3>4. horizon # None /\ origin # None
      BY <1>2, TraceAssumption
    <3> QED BY <1>2, <3>1, <3>2, <3>3, <3>4 DEF MsOf
  <2> DEFINE n == Cardinality(P)
             m == horizon - origin
  <2>2. UnionMs(all) = Ms(n)
    BY <1>7 DEF PartsCounted, UnionMs
  <2> HIDE DEF wall, P
  <2>3. d.unclassified = Max({0, wall - Ms(n)})
    BY <1>8, <1>13, <2>2
  <2>4. n \in Nat /\ n <= m /\ m \in Nat
    BY <1>2, <1>12, <2>1, PartsFit
  <2>5. d.to - s.origin = m
    BY <1>8, <2>1
  <2> HIDE DEF n, m
  <2>6. Reports(wall, m) /\ Reports(Ms(n), n) /\ wall = Ms(m)
    BY <2>1, <2>4, MsReports DEF m
  <2>7. wall - Ms(n) \in Int /\ wall - Ms(n) \in m - n - 1 .. m - n + 1 /\ (m = n => wall - Ms(n) = 0)
    BY <2>4, <2>6 DEF Reports
  <2>8. d.unclassified \in {0, wall - Ms(n)} /\ d.unclassified >= 0 /\ d.unclassified >= wall - Ms(n)
    BY <2>3, <2>7, MaxOfTwo
  <2> QED BY <1>8, <2>4, <2>5, <2>6, <2>7, <2>8 DEF n
<1> HIDE DEF P, raw
<1>14. ASSUME NEW cat \in DOMAIN d.parts
       PROVE  /\ Points(d.parts[cat]) = Points(d.raw[cat]) \ UNION {Points(d.raw[c]) : c \in Above(cat)}
              /\ Reports(d.ms[cat], Cardinality(Points(d.parts[cat])))
  <2>1. cat \in Categories /\ d.parts[cat] = parts[cat] /\ d.raw[cat] = raw(cat)
    BY <1>8
  <2> QED BY <1>11, <2>1
<1>15. d.wall # None =>
          /\ Reports(d.wall, d.to - s.origin)
          /\ d.unclassified \in Nat
          /\ d.unclassified \in d.to - s.origin - Cardinality(Cover(d)) - 1
                               .. d.to - s.origin - Cardinality(Cover(d)) + 1
          /\ d.to - s.origin - Cardinality(Cover(d)) = 0 => d.unclassified = 0
  BY <1>10, <1>13
<1>16. Counted(s, d)
  BY ONLY <1>14, <1>15 DEF Counted
<1> QED BY <1>16 DEF d

-----------------------------------------------------------------------------
(* The scan: what it knows of time, of the end and of what was verified     *)

TakeCausal(S, done, i) ==
    LET Next == {f \in S \ Range(done) : \A e \in S \ Range(done) : ~Edge(S, e, f)}
    IN IF Next = {} THEN done
       ELSE Append(done, CHOOSE e \in Next : \A f \in Next : f = e \/ Before(e, f))
ByCause == INSTANCE FoldFacts WITH Op <- TakeCausal
Scanning == INSTANCE FoldFacts WITH Op <- Dispatch

LEMMA SubsetIdentified ==
    ASSUME NEW S, Identified(S), NEW T, T \subseteq S
    PROVE  Identified(T)
BY FS_Subset DEF Identified

LEMMA TakesOne ==
    ASSUME NEW S, Identified(S), NEW done, done \in Seq(S), NEW i
    PROVE  TakeCausal(S, done, i) \in Seq(S)
<1> DEFINE Next == {f \in S \ Range(done) : \A e \in S \ Range(done) : ~Edge(S, e, f)}
<1>1. Next \subseteq S
  OBVIOUS
<1>2. TakeCausal(S, done, i) = IF Next = {} THEN done
                               ELSE Append(done, CHOOSE e \in Next : \A f \in Next : f = e \/ Before(e, f))
  BY DEF TakeCausal
<1> HIDE DEF Next
<1>3. CASE Next # {}
  <2>1. Identified(Next)
    BY <1>1, SubsetIdentified
  <2>2. Linear(Next, EpochOrder(Next)) /\ IsFiniteSet(Next)
    BY <2>1, EpochLinear DEF Identified
  <2>3. \E e \in Next : \A f \in Next : f = e \/ <<e, f>> \in EpochOrder(Next)
    BY <1>3, <2>2, LeastMember
  <2>4. \E e \in Next : \A f \in Next : f = e \/ Before(e, f)
    BY <2>3 DEF EpochOrder
  <2>5. (CHOOSE e \in Next : \A f \in Next : f = e \/ Before(e, f)) \in S
    BY <1>1, <2>4
  <2> QED BY <1>2, <1>3, <2>5, AppendProperties
<1> QED BY <1>2, <1>3

LEMMA RangeJoined ==
    ASSUME NEW S, NEW s \in Seq(S), NEW t \in Seq(S)
    PROVE  s \o t \in Seq(S) /\ Range(s \o t) = Range(s) \cup Range(t)
<1>1. /\ s \o t \in Seq(S) /\ Len(s \o t) = Len(s) + Len(t) /\ Len(s) \in Nat /\ Len(t) \in Nat
      /\ \A i \in 1..Len(s) + Len(t) : (s \o t)[i] = IF i <= Len(s) THEN s[i] ELSE t[i - Len(s)]
  BY ConcatProperties, LenProperties
<1>2. DOMAIN s = 1..Len(s) /\ DOMAIN t = 1..Len(t) /\ DOMAIN (s \o t) = 1..Len(s) + Len(t)
  BY <1>1, LenProperties
<1> DEFINE u == s \o t
<1>3. ASSUME NEW x \in Range(s)
      PROVE  x \in Range(u)
  <2>1. PICK i \in 1..Len(s) : x = s[i]
    BY <1>2 DEF Range
  <2>2. i \in 1..Len(s) + Len(t) /\ u[i] = x
    BY <1>1, <2>1
  <2> HIDE DEF u
  <2> QED BY <1>2, <2>2 DEF Range, u
<1>4. ASSUME NEW x \in Range(t)
      PROVE  x \in Range(u)
  <2>1. PICK i \in 1..Len(t) : x = t[i]
    BY <1>2 DEF Range
  <2>2. i + Len(s) \in 1..Len(s) + Len(t) /\ ~(i + Len(s) <= Len(s)) /\ i + Len(s) - Len(s) = i
    BY <1>1
  <2>3. u[i + Len(s)] = x
    BY <1>1, <2>1, <2>2
  <2> QED BY <1>2, <2>2, <2>3 DEF Range
<1>5. ASSUME NEW x \in Range(u)
      PROVE  x \in Range(s) \cup Range(t)
  <2>1. PICK i \in 1..Len(s) + Len(t) : x = u[i]
    BY <1>2 DEF Range
  <2>2. CASE i <= Len(s)
    BY <1>1, <1>2, <2>1, <2>2 DEF Range
  <2>3. CASE ~(i <= Len(s))
    <3>1. i - Len(s) \in 1..Len(t) /\ x = t[i - Len(s)]
      BY <1>1, <2>1, <2>3
    <3> QED BY <1>2, <3>1 DEF Range
  <2> QED BY <2>2, <2>3
<1> QED BY <1>1, <1>3, <1>4, <1>5

\* The causal order has every event, a cycle of claimed parents or not.
LEMMA CausalHolds ==
    ASSUME NEW S, Identified(S)
    PROVE  CausalOrder(S) \in Seq(S) /\ Range(CausalOrder(S)) = S
<1> DEFINE n == Cardinality(S)
           first == ByCause!Fold(S, <<>>, Upto(n))
           rest == S \ Range(first)
<1>1. n \in Nat /\ DOMAIN Upto(n) = 1..n
  BY FS_CardinalityType DEF Identified, Upto
<1>2. CausalOrder(S) = first \o InOrder(rest, Before)
  BY DEF CausalOrder, FoldLeft, MapThenFoldSet, Max, ByCause!Fold, ByCause!Top, TakeCausal, Upto
<1>3. first \in Seq(S)
  <2> HIDE DEF n
  <2>1. PICK acc : ByCause!Trajectory(acc, S, <<>>, Upto(n), n) /\ first = acc[n]
    BY <1>1, ByCause!FoldGoes
  <2>2. acc[0] = <<>> /\ \A k \in 1..n : acc[k] = TakeCausal(S, acc[k - 1], Upto(n)[k])
    BY <2>1 DEF ByCause!Trajectory
  <2> DEFINE T == {k \in Nat : k <= n => acc[k] \in Seq(S)}
  <2>6. acc[0] \in Seq(S)
    BY <2>2, EmptySeq
  <2>3. 0 \in T
    BY <2>6
  <2>4. ASSUME NEW k \in Nat, k \in T
        PROVE  k + 1 \in T
    <3> SUFFICES ASSUME k + 1 <= n PROVE acc[k + 1] \in Seq(S)
      OBVIOUS
    <3>1. k + 1 \in 1..n /\ k + 1 - 1 = k /\ acc[k] \in Seq(S)
      BY <1>1, <2>4
    <3>2. acc[k + 1] = TakeCausal(S, acc[k], Upto(n)[k + 1])
      BY <2>2, <3>1
    <3> QED BY <3>1, <3>2, TakesOne
  <2> HIDE DEF T
  <2>5. Nat \subseteq T
    BY <2>3, <2>4, ByCause!Induction
  <2> QED BY <1>1, <2>1, <2>5 DEF T
<1> HIDE DEF first, n
<1>4. Identified(rest) /\ IsFiniteSet(rest)
  BY SubsetIdentified DEF Identified
<1>5. Range(InOrder(rest, Before)) = rest /\ InOrder(rest, Before) \in Seq(rest)
  BY <1>4, EpochsSort, SortedHolds
<1>6. InOrder(rest, Before) \in Seq(S)
  <2>1. Seq(rest) \subseteq Seq(S)
    <3>1. ASSUME NEW s \in Seq(rest)
          PROVE  s \in Seq(S)
      <4>1. Len(s) \in Nat /\ s \in [1..Len(s) -> rest]
        BY LenProperties
      <4>2. s \in [1..Len(s) -> S]
        BY <4>1
      <4> QED BY <4>1, <4>2, SeqDef
    <3> QED BY <3>1
  <2> QED BY <1>5, <2>1
<1>7. Range(first) \subseteq S
  <2>1. \A i \in DOMAIN first : first[i] \in S
    BY <1>3, LenProperties, ElementOfSeq
  <2> QED BY <2>1 DEF Range
<1> HIDE DEF rest
<1>8. Range(CausalOrder(S)) = Range(first) \cup rest /\ CausalOrder(S) \in Seq(S)
  BY <1>2, <1>3, <1>5, <1>6, RangeJoined
<1> QED BY <1>7, <1>8 DEF rest

\* What the scan of the events E has found, of what its durations and its completion rest on
Scanned(E, s) ==
    /\ DOMAIN s = DOMAIN Found /\ DOMAIN s.spans = Categories /\ Timed(s)
    /\ s.terminal \in TerminalTypes \cup {None} /\ s.verifications \subseteq E

\* Nothing of that is touched.
Beside(s, t) ==
    /\ DOMAIN t = DOMAIN s /\ t.open = s.open /\ t.spans = s.spans /\ t.origin = s.origin
    /\ t.ended = s.ended /\ t.terminal = s.terminal /\ t.verifications = s.verifications

LEMMA BesideScanned ==
    ASSUME NEW E, NEW s, Scanned(E, s), NEW t, Beside(s, t)
    PROVE  Scanned(E, t)
BY DEF Scanned, Beside, Timed

LEMMA FoundScanned ==
    ASSUME NEW E
    PROVE  Scanned(E, Found)
<1>1. DOMAIN Found.open = {} /\ IsFiniteSet({})
  BY FS_EmptySet DEF Found
<1>2. DOMAIN Found.spans = Categories /\ \A cat \in Categories : Found.spans[cat] = {}
  BY DEF Found, Categories
<1>3. Found.origin = None /\ Found.ended = None /\ Found.terminal = None /\ Found.verifications = {}
  BY DEF Found
<1> QED BY <1>1, <1>2, <1>3 DEF Scanned, Timed

LEMMA GapScanned ==
    ASSUME NEW E, NEW s, Scanned(E, s), NEW reason, NEW e
    PROVE  Scanned(E, Gap(s, reason, e))
<1>1. Beside(s, Gap(s, reason, e))
  BY DEF Scanned, Beside, Gap, Found
<1> QED BY <1>1, BesideScanned

LEMMA ProgressScanned ==
    ASSUME NEW E, NEW s, Scanned(E, s), NEW e
    PROVE  Scanned(E, Progress(s, e))
<1>1. Beside(s, Progress(s, e))
  BY DEF Scanned, Beside, Progress, Found
<1> QED BY <1>1, BesideScanned

LEMMA OpensScanned ==
    ASSUME NEW E, NEW s, Scanned(E, s), NEW key, NEW cat, NEW at \in Nat
    PROVE  Scanned(E, Opens(s, key, cat, at))
<1> DEFINE t == Opens(s, key, cat, at)
           open == With(s.open, key, [cat |-> cat, at |-> at])
<1>1. /\ DOMAIN t = DOMAIN s /\ t.open = open /\ t.spans = s.spans /\ t.origin = s.origin
      /\ t.ended = s.ended /\ t.terminal = s.terminal /\ t.verifications = s.verifications
  BY DEF Scanned, Opens, Found
<1>2. DOMAIN open = DOMAIN s.open \cup {key} /\ \A k \in DOMAIN open : open[k].at \in Nat
  <2>1. /\ DOMAIN open = DOMAIN s.open \cup {key} /\ open[key] = [cat |-> cat, at |-> at]
        /\ \A k \in DOMAIN s.open \ {key} : open[k] = s.open[k]
    BY DEF With
  <2>2. \A k \in DOMAIN s.open : s.open[k].at \in Nat
    BY DEF Scanned, Timed
  <2> HIDE DEF open
  <2> QED BY <2>1, <2>2
<1>3. IsFiniteSet(DOMAIN open)
  <2>1. IsFiniteSet(DOMAIN s.open)
    BY DEF Scanned, Timed
  <2> HIDE DEF open
  <2> QED BY <1>2, <2>1, FS_AddElement
<1> HIDE DEF t, open
<1>4. Timed(t)
  BY <1>1, <1>2, <1>3 DEF Scanned, Timed
<1> QED BY <1>1, <1>4 DEF Scanned, t

LEMMA EndsScanned ==
    ASSUME NEW E, NEW s, Scanned(E, s), NEW key, NEW at \in Nat
    PROVE  Scanned(E, Ends(s, key, at))
<1>1. CASE key \notin DOMAIN s.open
  BY <1>1 DEF Ends
<1>2. CASE key \in DOMAIN s.open
  <2> DEFINE t == Ends(s, key, at)
             span == s.open[key]
             open == Restrict(s.open, DOMAIN s.open \ {key})
             spans == [s.spans EXCEPT ![OnceEnded(span.cat)] = IF at >= span.at THEN @ \cup {<<span.at, at>>} ELSE @]
  <2>1. /\ DOMAIN t = DOMAIN s /\ t.open = open /\ t.spans = spans /\ t.origin = s.origin
        /\ t.ended = s.ended /\ t.terminal = s.terminal /\ t.verifications = s.verifications
    BY <1>2 DEF Scanned, Ends, Found
  <2>2. DOMAIN open = DOMAIN s.open \ {key} /\ \A k \in DOMAIN open : open[k].at \in Nat
    BY DEF Scanned, Timed, Restrict
  <2>3. IsFiniteSet(DOMAIN open)
    BY <2>2, FS_Subset DEF Scanned, Timed
  <2>4. span.at \in Nat /\ <<span.at, at>> \in Nat \X Nat
    BY <1>2 DEF Scanned, Timed
  <2>5. ASSUME NEW cat \in Categories
        PROVE  spans[cat] \subseteq Nat \X Nat /\ IsFiniteSet(spans[cat])
    <3>1. spans[cat] = s.spans[cat] \/ spans[cat] = s.spans[cat] \cup {<<span.at, at>>}
      BY DEF Scanned
    <3>2. s.spans[cat] \subseteq Nat \X Nat /\ IsFiniteSet(s.spans[cat])
      BY DEF Scanned, Timed
    <3>3. IsFiniteSet(s.spans[cat] \cup {<<span.at, at>>})
      BY <3>2, FS_AddElement
    <3> HIDE DEF spans, span
    <3> QED BY <2>4, <3>1, <3>2, <3>3
  <2>6. DOMAIN spans = Categories
    BY DEF Scanned
  <2> HIDE DEF t, open, spans, span
  <2>7. Timed(t)
    BY <2>1, <2>2, <2>3, <2>5 DEF Scanned, Timed
  <2> QED BY <2>1, <2>6, <2>7 DEF Scanned, t
<1> QED BY <1>1, <1>2

LEMMA OnUnitScanned ==
    ASSUME NEW E, NEW s, Scanned(E, s), NEW c, NEW e, e.at \in Nat, NEW old, NEW u
    PROVE  Scanned(E, OnUnit(c, s, e, old, u))
<1> DEFINE block == <<"blocked", e.task>>
           unbound == IF e.type = "work_unit.unbound" /\ Native(e) THEN {"UNBOUND_WORK_UNIT_OBSERVED"} ELSE {}
           unproven == IF e.type = "work_unit.bound" /\ e.src = "checkpoint" /\ ~Described(c, old, e)
                       THEN {"WORK_UNIT_CLASSIFICATION_UNVERIFIED"} ELSE {}
           begins == s.execution = None /\ u.bound /\ RequiredOf(c, e.task, u) = TRUE /\ u.status = "running"
                     /\ ~Heartbeat(e, u)
           s1 == [s EXCEPT !.units = With(@, e.task, u), !.execution = IF begins THEN e.at ELSE @,
                           !.gaps = @ \cup {<<r, e.id>> : r \in unbound \cup unproven}]
           s2 == CASE u.status # "blocked" -> Ends(s1, block, e.at)
                   [] block \in DOMAIN s.open -> s1
                   [] OTHER -> Opens(s1, block, "other", e.at)
<1>1. OnUnit(c, s, e, old, u) = IF u.status # old.status /\ ~Heartbeat(e, u) THEN Progress(s2, e) ELSE s2
  BY DEF OnUnit
<1> HIDE DEF unbound, unproven, begins
<1>2. Scanned(E, s1)
  <2>1. Beside(s, s1)
    BY DEF Scanned, Beside, Found
  <2> HIDE DEF s1
  <2> QED BY <2>1, BesideScanned
<1> HIDE DEF s1, block
<1>3. Scanned(E, s2)
  BY <1>2, EndsScanned, OpensScanned
<1> HIDE DEF s2
<1> QED BY <1>1, <1>3, ProgressScanned

LEMMA OnWorkUnitScanned ==
    ASSUME NEW E, NEW s, Scanned(E, s), NEW c, NEW e, e.at \in Nat
    PROVE  Scanned(E, OnWorkUnit(c, s, e))
BY OnUnitScanned DEF OnWorkUnit

LEMMA OnRunScanned ==
    ASSUME NEW E, NEW s, Scanned(E, s), NEW c, NEW e, e.at \in Nat
    PROVE  Scanned(E, OnRun(c, s, e))
<1> DEFINE s1 == OnWorkUnit(c, s, e)
<1>1. Scanned(E, s1)
  BY OnWorkUnitScanned
<1>2. OnRun(c, s, e) = RunRead(c, s1, e)
  BY DEF OnRun
<1> HIDE DEF s1
<1> DEFINE key == <<e.task, e.run>>
           u == [s1.units[e.task] EXCEPT !.ends = @ \cup {<<e.run, e.st, e.ts, e.out>>}]
           lost == RunsContradict(u) \/ <<"run", e.task, e.run>> \in c.open
           v == [u EXCEPT !.status = IF lost THEN "unknown" ELSE @,
                          !.out = IF lost THEN "unknown" ELSE IF e.out = None THEN "unknown" ELSE e.out]
           s2 == [s1 EXCEPT !.units = With(@, e.task, v), !.runs = @ \ {key}]
           s3 == [s1 EXCEPT !.runs = @ \cup {key},
                            !.execution = IF @ = None /\ RequiredOf(c, e.task, s1.units[e.task]) = TRUE
                                          THEN e.at ELSE @]
<1>3. RunRead(c, s1, e) = IF e.type = "run.started" THEN s3
                          ELSE IF key \in s1.runs THEN s2 ELSE Gap(s2, "RUN_TERMINAL_WITHOUT_START", e)
  BY DEF RunRead
<1> HIDE DEF key, v
<1>4. Beside(s1, s2) /\ Beside(s1, s3)
  BY <1>1 DEF Scanned, Beside, Found
<1> HIDE DEF s2, s3
<1>5. Scanned(E, s2) /\ Scanned(E, s3)
  BY <1>1, <1>4, BesideScanned
<1> QED BY <1>2, <1>3, <1>5, GapScanned

LEMMA OnReviewScanned ==
    ASSUME NEW E, NEW s, Scanned(E, s), NEW c, NEW e, e.at \in Nat
    PROVE  Scanned(E, OnReview(c, s, e))
<1> DEFINE s1 == OnWorkUnit(c, s, e)
<1>1. Scanned(E, s1)
  BY OnWorkUnitScanned
<1>2. \/ \E reason : OnReview(c, s, e) = Gap(s, reason, e)
      \/ OnReview(c, s, e) = ReviewRead(c, s1, e)
  BY DEF OnReview
<1> HIDE DEF s1
<1> DEFINE state == CASE <<"review", e.task>> \in c.open -> "pending"
                      [] e.type = "review.requested" -> "pending"
                      [] e.type = "review.approved" -> "approved"
                      [] OTHER -> "changes_requested"
           v == [s1.units[e.task] EXCEPT !.review = state,
                                         !.requests = IF e.type = "review.requested" THEN @ \cup {e} ELSE @]
           s2 == [s1 EXCEPT !.units = With(@, e.task, v), !.verified = @ \cup {e.id}]
<1>3. ReviewRead(c, s1, e) = IF e.type = "review.requested" THEN Opens(s2, <<"review", e.task>>, "review", e.at)
                             ELSE Progress(Ends(s2, <<"review", e.task>>, e.at), e)
  BY DEF ReviewRead
<1> HIDE DEF v
<1>4. Beside(s1, s2)
  BY <1>1 DEF Scanned, Beside, Found
<1> HIDE DEF s2
<1>5. Scanned(E, s2)
  BY <1>1, <1>4, BesideScanned
<1>6. Scanned(E, ReviewRead(c, s1, e))
  BY <1>3, <1>5, OpensScanned, EndsScanned, ProgressScanned
<1> QED BY <1>2, <1>6, GapScanned

LEMMA OnContractScanned ==
    ASSUME NEW E, NEW s, Scanned(E, s), NEW c, NEW e \in E
    PROVE  Scanned(E, OnContract(c, s, e))
<1> DEFINE s1 == [s EXCEPT !.executable = TRUE]
           s2 == [s EXCEPT !.persisted = e.at]
           s3 == [s EXCEPT !.execution = IF @ = None THEN e.at ELSE @]
           s4 == [s EXCEPT !.verifications = @ \cup {e}]
<1>1. \/ OnContract(c, s, e) \in {s, s1, s3, Progress(s, e), Progress(s2, e), Progress(s4, e)}
      \/ \E reason : OnContract(c, s, e) = Gap(s, reason, e)
  BY DEF OnContract
<1>2. Beside(s, s1) /\ Beside(s, s2) /\ Beside(s, s3)
  BY DEF Scanned, Beside, Found
<1>3. Scanned(E, s4)
  <2>1. /\ DOMAIN s4 = DOMAIN s /\ s4.open = s.open /\ s4.spans = s.spans /\ s4.origin = s.origin
        /\ s4.ended = s.ended /\ s4.terminal = s.terminal /\ s4.verifications = s.verifications \cup {e}
    BY DEF Scanned, Found
  <2> HIDE DEF s4
  <2> QED BY <2>1 DEF Scanned, Timed
<1> HIDE DEF s1, s2, s3, s4
<1>4. Scanned(E, s1) /\ Scanned(E, s2) /\ Scanned(E, s3)
  BY <1>2, BesideScanned
<1> QED BY <1>1, <1>3, <1>4, ProgressScanned, GapScanned

LEMMA OnTraceScanned ==
    ASSUME NEW E, NEW s, Scanned(E, s), NEW c, NEW e, e.at \in Nat
    PROVE  Scanned(E, OnTrace(c, s, e))
<1> DEFINE s1 == [s EXCEPT !.origin = IF @ = None THEN e.at ELSE @]
           s2 == [s EXCEPT !.terminal = e.type, !.ended = e.at]
<1>2. Scanned(E, s1)
  <2>1. /\ DOMAIN s1 = DOMAIN s /\ s1.open = s.open /\ s1.spans = s.spans /\ s1.origin \in {s.origin, e.at}
        /\ s1.ended = s.ended /\ s1.terminal = s.terminal /\ s1.verifications = s.verifications
    BY DEF Scanned, Found
  <2> HIDE DEF s1
  <2> QED BY <2>1 DEF Scanned, Timed
<1>3. ASSUME e.type \in TerminalTypes
      PROVE  Scanned(E, s2)
  <2>1. /\ DOMAIN s2 = DOMAIN s /\ s2.open = s.open /\ s2.spans = s.spans /\ s2.origin = s.origin
        /\ s2.ended = e.at /\ s2.terminal = e.type /\ s2.verifications = s.verifications
    BY DEF Scanned, Found
  <2> HIDE DEF s2
  <2> QED BY <1>3, <2>1 DEF Scanned, Timed
<1>4. CASE e.type = "trace.opened"
  <2>1. OnTrace(c, s, e) = s1
    BY <1>4 DEF OnTrace
  <2> QED BY <1>2, <2>1
<1>5. CASE e.type # "trace.opened" /\ e.type \in TerminalTypes /\ Authorized(c, e)
  <2>1. OnTrace(c, s, e) = s2
    BY <1>5 DEF OnTrace
  <2> QED BY <1>3, <1>5, <2>1
<1>6. CASE e.type # "trace.opened" /\ e.type \in TerminalTypes /\ ~Authorized(c, e)
  <2>1. OnTrace(c, s, e) = Gap(s, "TERMINAL_AUTHORITY_UNVERIFIED", e)
    BY <1>6 DEF OnTrace
  <2> QED BY <2>1, GapScanned
<1>7. CASE e.type # "trace.opened" /\ e.type \notin TerminalTypes
  <2>1. OnTrace(c, s, e) = s
    BY <1>7 DEF OnTrace
  <2> QED BY <2>1
<1> QED BY <1>4, <1>5, <1>6, <1>7

LEMMA OnAcceptanceScanned ==
    ASSUME NEW E, NEW s, Scanned(E, s), NEW c, NEW e
    PROVE  Scanned(E, OnAcceptance(c, s, e))
<1> DEFINE new == [state |-> e.val, refs |-> e.refs]
           s1 == [s EXCEPT !.criteria = With(@, e.ref, new)]
<1>1. \/ OnAcceptance(c, s, e) \in {s1, Progress(s1, e)}
      \/ \E reason : OnAcceptance(c, s, e) = Gap(s, reason, e)
  BY DEF OnAcceptance
<1>2. Beside(s, s1)
  BY DEF Scanned, Beside, Found
<1> HIDE DEF s1
<1>3. Scanned(E, s1)
  BY <1>2, BesideScanned
<1> QED BY <1>1, <1>3, ProgressScanned, GapScanned

LEMMA OnInvariantScanned ==
    ASSUME NEW E, NEW s, Scanned(E, s), NEW c, NEW e
    PROVE  Scanned(E, OnInvariant(c, s, e))
<1> DEFINE s1 == [s EXCEPT !.invariants = With(@, e.ref, IF e.type = "invariant.passed" THEN "passed" ELSE "failed")]
<1>1. \/ OnInvariant(c, s, e) = Progress(s1, e)
      \/ \E reason : OnInvariant(c, s, e) = Gap(s, reason, e)
  BY DEF OnInvariant
<1>2. Beside(s, s1)
  BY DEF Scanned, Beside, Found
<1> HIDE DEF s1
<1>3. Scanned(E, s1)
  BY <1>2, BesideScanned
<1> QED BY <1>1, <1>3, ProgressScanned, GapScanned

LEMMA OnHandoffScanned ==
    ASSUME NEW E, NEW s, Scanned(E, s), NEW e
    PROVE  Scanned(E, OnHandoff(s, e))
<1> DEFINE s1 == [s EXCEPT !.handed = e.at]
<1>1. OnHandoff(s, e) \in {s, Progress(s1, e)}
  BY DEF OnHandoff
<1>2. Beside(s, s1)
  BY DEF Scanned, Beside, Found
<1> HIDE DEF s1
<1>3. Scanned(E, s1)
  BY <1>2, BesideScanned
<1> QED BY <1>1, <1>3, ProgressScanned

LEMMA LastedScanned ==
    ASSUME NEW E, NEW s, Scanned(E, s), NEW e, e.at \in Nat, e.dur = None \/ e.dur \in 0..e.at
    PROVE  Scanned(E, Lasted(s, e))
<1>1. CASE e.dur = None
  BY <1>1 DEF Lasted
<1>2. CASE e.dur # None
  <2> DEFINE t == Lasted(s, e)
             spans == [s.spans EXCEPT !["active"] = @ \cup {<<e.at - e.dur, e.at>>}]
  <2>1. /\ DOMAIN t = DOMAIN s /\ t.open = s.open /\ t.spans = spans /\ t.origin = s.origin
        /\ t.ended = s.ended /\ t.terminal = s.terminal /\ t.verifications = s.verifications
    BY <1>2 DEF Scanned, Lasted, Found
  <2>2. <<e.at - e.dur, e.at>> \in Nat \X Nat
    BY <1>2
  <2>3. ASSUME NEW cat \in Categories
        PROVE  spans[cat] \subseteq Nat \X Nat /\ IsFiniteSet(spans[cat])
    <3>1. spans[cat] = s.spans[cat] \/ spans[cat] = s.spans[cat] \cup {<<e.at - e.dur, e.at>>}
      BY DEF Scanned
    <3>2. s.spans[cat] \subseteq Nat \X Nat /\ IsFiniteSet(s.spans[cat])
      BY DEF Scanned, Timed
    <3>3. IsFiniteSet(s.spans[cat] \cup {<<e.at - e.dur, e.at>>})
      BY <3>2, FS_AddElement
    <3> HIDE DEF spans
    <3> QED BY <2>2, <3>1, <3>2, <3>3
  <2>4. DOMAIN spans = Categories
    BY DEF Scanned
  <2> HIDE DEF t, spans
  <2>5. Timed(t)
    BY <2>1, <2>3 DEF Scanned, Timed
  <2> QED BY <2>1, <2>4, <2>5 DEF Scanned, t
<1> QED BY <1>1, <1>2

LEMMA OnSpanScanned ==
    ASSUME NEW E, NEW s, Scanned(E, s), NEW e, e.at \in Nat, e.dur = None \/ e.dur \in 0..e.at
    PROVE  Scanned(E, OnSpan(s, e))
<1> DEFINE key == <<"span", e.ref>>
           cat == CASE e.type = "clarification.requested" -> "owner"
                    [] e.type = "tool.started" -> "active"
                    [] e.val = "owner" -> "owner"
                    [] e.val = "review" -> "asked"
                    [] OTHER -> "other"
           s1 == Ends(s, key, e.at)
<1>1. OnSpan(s, e) \in {s1, Progress(s1, e), Lasted(s1, e), Gap(s, "WAIT_TERMINAL_WITHOUT_START", e),
                        Opens(s, key, cat, e.at)}
  BY DEF OnSpan
<1>2. Scanned(E, s1)
  BY EndsScanned
<1> HIDE DEF s1, cat, key
<1> QED BY <1>1, <1>2, OpensScanned, ProgressScanned, LastedScanned, GapScanned

LEMMA DispatchScanned ==
    ASSUME NEW E, NEW s, Scanned(E, s), NEW c, NEW e \in E, e.at \in Nat, e.dur = None \/ e.dur \in 0..e.at
    PROVE  Scanned(E, Dispatch(c, s, e))
<1>1. \/ Dispatch(c, s, e) \in {OnWorkUnit(c, s, e), OnRun(c, s, e), OnReview(c, s, e), OnInvariant(c, s, e),
                                OnAcceptance(c, s, e), OnTrace(c, s, e), OnHandoff(s, e), OnSpan(s, e),
                                Lasted(s, e), OnContract(c, s, e)}
      \/ \E reason : Dispatch(c, s, e) = Gap(s, reason, e)
  BY DEF Dispatch
<1>2. /\ Scanned(E, OnWorkUnit(c, s, e)) /\ Scanned(E, OnRun(c, s, e)) /\ Scanned(E, OnReview(c, s, e))
      /\ Scanned(E, OnInvariant(c, s, e)) /\ Scanned(E, OnAcceptance(c, s, e)) /\ Scanned(E, OnTrace(c, s, e))
      /\ Scanned(E, OnHandoff(s, e)) /\ Scanned(E, OnSpan(s, e)) /\ Scanned(E, OnContract(c, s, e))
      /\ Scanned(E, Lasted(s, e))
  BY OnWorkUnitScanned, OnRunScanned, OnReviewScanned, OnInvariantScanned, OnAcceptanceScanned, OnTraceScanned,
     OnHandoffScanned, OnSpanScanned, OnContractScanned, LastedScanned
<1> QED BY <1>1, <1>2, GapScanned

\* What was found when every event has been read
LEMMA FoldScanned ==
    ASSUME NEW S, Identified(S), NEW c
    PROVE  Scanned(S, Scanning!Fold(c, Found, CausalOrder(S)))
<1> DEFINE s == CausalOrder(S)
           n == Len(s)
<1>1. s \in Seq(S) /\ n \in Nat /\ DOMAIN s = 1..n /\ (\A i \in 1..n : s[i] \in S /\ s[i].at \in Nat)
      /\ (\A i \in 1..n : s[i].dur = None \/ s[i].dur \in 0..s[i].at)
  <2>1. s \in Seq(S)
    BY CausalHolds
  <2> HIDE DEF s
  <2>2. n \in Nat /\ DOMAIN s = 1..n /\ \A i \in 1..n : s[i] \in S
    BY <2>1, LenProperties, ElementOfSeq
  <2>3. \A e \in S : e.at \in Nat /\ (e.dur = None \/ e.dur \in 0..e.at)
    BY DEF Identified, IsEvent
  <2> QED BY <2>1, <2>2, <2>3
<1> HIDE DEF s, n
<1>2. PICK acc : Scanning!Trajectory(acc, c, Found, s, n) /\ Scanning!Fold(c, Found, s) = acc[n]
  BY <1>1, Scanning!FoldGoes
<1>3. acc[0] = Found /\ \A k \in 1..n : acc[k] = Dispatch(c, acc[k - 1], s[k])
  BY <1>2 DEF Scanning!Trajectory
<1> DEFINE T == {k \in Nat : k <= n => Scanned(S, acc[k])}
<1>4. 0 \in T
  BY <1>3, FoundScanned
<1>5. ASSUME NEW k \in Nat, k \in T
      PROVE  k + 1 \in T
  <2> SUFFICES ASSUME k + 1 <= n PROVE Scanned(S, acc[k + 1])
    OBVIOUS
  <2>1. k + 1 \in 1..n /\ k + 1 - 1 = k /\ Scanned(S, acc[k])
    BY <1>1, <1>5
  <2>2. /\ acc[k + 1] = Dispatch(c, acc[k], s[k + 1]) /\ s[k + 1] \in S /\ s[k + 1].at \in Nat
        /\ s[k + 1].dur = None \/ s[k + 1].dur \in 0..s[k + 1].at
    BY <1>1, <1>3, <2>1
  <2> QED BY <2>1, <2>2, DispatchScanned
<1> HIDE DEF T
<1>6. Nat \subseteq T
  BY <1>4, <1>5, Scanning!Induction
<1>7. Scanned(S, acc[n])
  BY <1>1, <1>6 DEF T
<1> QED BY <1>2, <1>7 DEF s

LEMMA WithScanned ==
    ASSUME NEW E, NEW s, Scanned(E, s), NEW c
    PROVE  LET t == With(s, "c", c)
           IN Timed(t) /\ t.terminal = s.terminal /\ t.verifications = s.verifications /\ t.c = c
<1> DEFINE t == With(s, "c", c)
<1>1. /\ t.open = s.open /\ t.spans = s.spans /\ t.origin = s.origin /\ t.ended = s.ended
      /\ t.terminal = s.terminal /\ t.verifications = s.verifications /\ t.c = c
  BY DEF Scanned, Found, With
<1> HIDE DEF t
<1>2. Timed(t)
  BY <1>1 DEF Scanned, Timed
<1> QED BY <1>1, <1>2 DEF t

\* The time of the completion is that of the last verification that is fresh.
LEMMA CompletedAtType ==
    ASSUME NEW s, Identified(s.c.events), s.terminal \in TerminalTypes \cup {None},
           s.verifications \subseteq s.c.events
    PROVE  CompletedAt(s) \in Nat \cup {None}
<1>1. CASE Completion(s) # "completed"
  BY <1>1 DEF CompletedAt
<1>2. CASE Completion(s) = "completed"
  <2> DEFINE order == CausalOrder(s.c.events)
             fresh == {i \in DOMAIN order : order[i] \in Fresh(s)}
             last == CHOOSE i \in DOMAIN order : order[i] \in Fresh(s) /\ \A j \in DOMAIN order : order[j] \in Fresh(s) => j <= i
  <2>1. CompletedAt(s) = order[last].at
    BY <1>2 DEF CompletedAt
  <2>2. Fresh(s) # {} /\ Fresh(s) \subseteq s.c.events
    <3>1. Fresh(s) # {}
      BY <1>2 DEF Completion, TerminalTypes
    <3>2. Fresh(s) \subseteq s.verifications
      BY DEF Fresh
    <3> QED BY <3>1, <3>2
  <2>3. order \in Seq(s.c.events) /\ Range(order) = s.c.events
    BY CausalHolds
  <2> HIDE DEF order
  <2>4. Len(order) \in Nat /\ DOMAIN order = 1..Len(order)
    BY <2>3, LenProperties
  <2>5. fresh \subseteq 1..Len(order) /\ fresh # {}
    BY <2>2, <2>3, <2>4 DEF Range
  <2>6. Max(fresh) \in fresh /\ \A j \in fresh : Max(fresh) >= j
    <3> HIDE DEF fresh
    <3> QED BY <2>4, <2>5, Scanning!TopOf DEF Max, Scanning!Top
  <2>7. \E i \in DOMAIN order : order[i] \in Fresh(s) /\ \A j \in DOMAIN order : order[j] \in Fresh(s) => j <= i
    <3>1. Max(fresh) \in DOMAIN order /\ order[Max(fresh)] \in Fresh(s)
      BY <2>6
    <3>2. \A j \in DOMAIN order : order[j] \in Fresh(s) => j <= Max(fresh)
      BY <2>4, <2>5, <2>6
    <3> HIDE DEF fresh
    <3> QED BY <3>1, <3>2
  <2>8. last \in DOMAIN order /\ order[last] \in Fresh(s)
    BY <2>7
  <2> HIDE DEF last
  <2>9. order[last].at \in Nat
    BY <2>2, <2>8 DEF Identified, IsEvent
  <2> QED BY <2>1, <2>9
<1> QED BY <1>1, <1>2

LEMMA AsOfType ==
    ASSUME NEW s, Identified(s.c.events)
    PROVE  AsOf(s) \in Nat
<1> DEFINE times == {e.at : e \in s.c.events}
<1>1. \A e \in s.c.events : e.at \in Nat
  BY DEF Identified, IsEvent
<1>2. IsFiniteSet(times)
  <2>1. [e \in s.c.events |-> e.at] \in Surjection(s.c.events, times)
    BY DEF Surjection
  <2>2. IsFiniteSet(s.c.events)
    BY DEF Identified
  <2> HIDE DEF times
  <2> QED BY <2>1, <2>2, FS_Surjection
<1>3. times \subseteq Nat
  BY <1>1
<1> HIDE DEF times
<1>4. IsFiniteSet({0} \cup times) /\ {0} \cup times \subseteq Nat
  <2>1. {0} \cup times = times \cup {0}
    OBVIOUS
  <2> QED BY <1>2, <1>3, <2>1, FS_AddElement
<1>5. Max({0} \cup times) \in Nat
  BY <1>4, MaxOfFinite
<1> QED BY <1>5 DEF AsOf, times

\* Each millisecond that was waited or worked is charged once, to the first of the categories it was
\* seen in, and none is lost but the one that the conversion of a figure may cut off, whatever the
\* events of the trace are, the order they are read in and the clocks that dated them.
THEOREM DurationsCountOnce == SummarySpec => []CountedOnce
<1>1. ASSUME Known
      PROVE  CountedOnce
  <2> DEFINE c == Dedupe(log)
             S == c.events
             found == Scanning!Fold(c, Found, CausalOrder(S))
             s == Scan(log)
  <2>1. Identified(stored) /\ IsFiniteSet(stored)
    BY <1>1, StoredIdentified DEF Identified
  <2>2. /\ Cardinality(stored) \in Nat /\ DOMAIN log = 1..Cardinality(stored)
        /\ Range(log) = stored /\ log \in Seq(stored)
    BY <2>1, ReaderSorts, SortedHolds DEF log, Reader
  <2>3. S = Kept(stored, NamedBy(stored))
    BY <2>1, <2>2, DedupeOf
  <2>4. Identified(S)
    <3>1. Kept(stored, NamedBy(stored)) \subseteq stored
      BY DEF Kept
    <3> QED BY <2>1, <2>3, <3>1, SubsetIdentified
  <2>5. s = With(found, "c", c)
    BY DEF Scan, FoldLeft, MapThenFoldSet, Max, Scanning!Fold, Scanning!Top
  <2> HIDE DEF c, s, S
  <2>6. Scanned(S, found)
    BY <2>4, FoldScanned
  <2> HIDE DEF found
  <2>7. Timed(s) /\ s.terminal = found.terminal /\ s.verifications = found.verifications /\ s.c = c
    BY <2>5, <2>6, WithScanned
  <2>8. s.c.events = S
    BY <2>7 DEF S
  <2>9. CompletedAt(s) \in Nat \cup {None}
    BY <2>4, <2>6, <2>7, <2>8, CompletedAtType DEF Scanned
  <2>10. Counted(s, Durations(s, CompletedAt(s)))
    BY <2>4, <2>7, <2>8, <2>9, AsOfType, DurationsCount
  <2> QED BY <2>10 DEF CountedOnce, Counted, Cover, s
<1> QED BY <1>1, AlwaysKnown, PTL

-----------------------------------------------------------------------------
(* The order of the reading: what is known to precede an event is read before it. *)

TakePreceded(S, T, i) == {f \in T : \E e \in T : Edge(S, e, f)}
Peeling == INSTANCE FoldFacts WITH Op <- TakePreceded

\* Of any events, one follows none of the others.
Rooted(S) == \A T \in SUBSET S : T # {} => \E f \in T : \A e \in T : ~Edge(S, e, f)

LEMMA ConsistentRooted ==
    ASSUME NEW S, Identified(S), Consistent(S)
    PROVE  Rooted(S)
<1> DEFINE n == Cardinality(S)
<1>1. n \in Nat /\ DOMAIN Upto(n) = 1..n
  BY FS_CardinalityType DEF Identified, Upto
<1>2. Peeling!Fold(S, S, Upto(n)) = {}
  BY DEF Consistent, FoldLeft, MapThenFoldSet, Max, Peeling!Fold, Peeling!Top, TakePreceded, Upto
<1> HIDE DEF n
<1> SUFFICES ASSUME NEW R \in SUBSET S, R # {}, \A f \in R : \E e \in R : Edge(S, e, f)
             PROVE  FALSE
  BY DEF Rooted
<1>3. PICK acc : Peeling!Trajectory(acc, S, S, Upto(n), n) /\ Peeling!Fold(S, S, Upto(n)) = acc[n]
  BY <1>1, Peeling!FoldGoes
<1>4. acc[0] = S /\ \A k \in 1..n : acc[k] = {f \in acc[k - 1] : \E e \in acc[k - 1] : Edge(S, e, f)}
  BY <1>3 DEF Peeling!Trajectory, TakePreceded
<1> DEFINE T == {k \in Nat : k <= n => R \subseteq acc[k]}
<1>5. 0 \in T
  BY <1>4
<1>6. ASSUME NEW k \in Nat, k \in T
      PROVE  k + 1 \in T
  <2> SUFFICES ASSUME k + 1 <= n PROVE R \subseteq acc[k + 1]
    OBVIOUS
  <2>1. R \subseteq acc[k] /\ k + 1 \in 1..n /\ k + 1 - 1 = k
    BY <1>1, <1>6
  <2>2. acc[k + 1] = {f \in acc[k] : \E e \in acc[k] : Edge(S, e, f)}
    BY <1>4, <2>1
  <2>3. ASSUME NEW f \in R
        PROVE  f \in acc[k + 1]
    <3>1. PICK e \in R : Edge(S, e, f)
      OBVIOUS
    <3>2. f \in acc[k] /\ e \in acc[k]
      BY <2>1
    <3> QED BY <2>2, <3>1, <3>2
  <2> QED BY <2>3
<1> HIDE DEF T
<1>7. Nat \subseteq T
  BY <1>5, <1>6, Peeling!Induction
<1>8. R \subseteq acc[n]
  BY <1>1, <1>7 DEF T
<1> QED BY <1>2, <1>3, <1>8

\* What is read has been read with all that comes before it.
Closed(S, P) == \A f \in P : \A e \in S : Edge(S, e, f) => e \in P

Climb(S, ids, i) == ids \cup {f.parent : f \in {g \in S : g.id \in ids}}
Climbing == INSTANCE FoldFacts WITH Op <- Climb

LEMMA ClosedAncestors ==
    ASSUME NEW S, Identified(S), NEW P \in SUBSET S, Closed(S, P), NEW f \in P, NEW e \in S,
           e.id \in Ancestors(S, f)
    PROVE  e \in P
<1> DEFINE n == Cardinality(S)
<1>1. n \in Nat /\ DOMAIN Upto(n) = 1..n
  BY FS_CardinalityType DEF Identified, Upto
<1>2. Ancestors(S, f) = Climbing!Fold(S, {f.parent}, Upto(n))
  BY DEF Ancestors, FoldLeft, MapThenFoldSet, Max, Climbing!Fold, Climbing!Top, Climb, Upto
<1> HIDE DEF n
<1>3. PICK acc : Climbing!Trajectory(acc, S, {f.parent}, Upto(n), n)
                 /\ Climbing!Fold(S, {f.parent}, Upto(n)) = acc[n]
  BY <1>1, Climbing!FoldGoes
<1>4. acc[0] = {f.parent}
      /\ \A k \in 1..n : acc[k] = acc[k - 1] \cup {h.parent : h \in {g \in S : g.id \in acc[k - 1]}}
  BY <1>3 DEF Climbing!Trajectory, Climb
<1>5. ASSUME NEW g \in P, NEW h \in S, h.id = g.parent
      PROVE  h \in P
  BY <1>5 DEF Closed, Edge
<1> DEFINE T == {k \in Nat : k <= n => \A g \in S : g.id \in acc[k] => g \in P}
<1>6. 0 \in T
  BY <1>4, <1>5
<1>7. ASSUME NEW k \in Nat, k \in T
      PROVE  k + 1 \in T
  <2> SUFFICES ASSUME k + 1 <= n, NEW g \in S, g.id \in acc[k + 1] PROVE g \in P
    OBVIOUS
  <2>1. (\A h \in S : h.id \in acc[k] => h \in P) /\ k + 1 \in 1..n /\ k + 1 - 1 = k
    BY <1>1, <1>7
  <2>2. acc[k + 1] = acc[k] \cup {h.parent : h \in {x \in S : x.id \in acc[k]}}
    BY <1>4, <2>1
  <2>3. CASE g.id \in acc[k]
    BY <2>1, <2>3
  <2>4. CASE g.id \notin acc[k]
    <3>1. PICK h \in S : h.id \in acc[k] /\ g.id = h.parent
      BY <2>2, <2>4
    <3> QED BY <1>5, <2>1, <3>1
  <2> QED BY <2>3, <2>4
<1> HIDE DEF T
<1>8. Nat \subseteq T
  BY <1>6, <1>7, Climbing!Induction
<1> QED BY <1>1, <1>2, <1>3, <1>8 DEF T

LEMMA ClosedPrecedes ==
    ASSUME NEW S, Identified(S), Twice(S) = {}, NEW P \in SUBSET S, Closed(S, P), NEW f \in P, NEW e \in S,
           Precedes(S, e, f)
    PROVE  e \in P
<1>1. CASE e.epoch # f.epoch
  BY <1>1, ClosedAncestors DEF Precedes
<1>2. CASE e.epoch = f.epoch
  <2> SUFFICES ASSUME e \notin P PROVE FALSE
    OBVIOUS
  <2> DEFINE Apart(a, b) == a \notin P /\ a.epoch = b.epoch /\ a.seq < b.seq
             T == {n \in Nat : \E b \in P : \E a \in S : Apart(a, b) /\ n = b.seq - a.seq}
  <2>1. \A a \in S : a.seq \in Nat
    BY DEF Identified, IsEvent
  <2>2. f.seq - e.seq \in T
    BY <1>2, <2>1 DEF Precedes
  <2>3. PICK n \in T : \A m \in T : n <= m
    <3>1. T \subseteq Nat /\ T # {}
      BY <2>2
    <3> HIDE DEF T
    <3> QED BY <3>1, ByClock!Least
  <2>4. PICK b \in P, a \in S : Apart(a, b) /\ n = b.seq - a.seq
    BY <2>3
  <2>5. ASSUME NEW g \in S, g.epoch = a.epoch, a.seq < g.seq, g.seq < b.seq
        PROVE  FALSE
    <3>1. a.seq \in Nat /\ b.seq \in Nat /\ g.seq \in Nat
      BY <2>1
    <3>2. CASE g \in P
      <4>1. g.seq - a.seq \in T /\ g.seq - a.seq < n
        BY <2>4, <2>5, <3>1, <3>2
      <4> QED BY <2>3, <3>1, <4>1
    <3>3. CASE g \notin P
      <4>1. b.seq - g.seq \in T /\ b.seq - g.seq < n
        BY <2>4, <2>5, <3>1, <3>3
      <4> QED BY <2>3, <3>1, <4>1
    <3> QED BY <3>2, <3>3
  <2>6. Edge(S, a, b)
    BY <2>4, <2>5 DEF Edge
  <2> QED BY <2>4, <2>6 DEF Closed
<1> QED BY <1>1, <1>2

\* The first k of a sequence; a sequence each part of which is closed, nothing twice
Prefix(s, k) == {s[i] : i \in 1..k}
Causal(S, s, n) ==
    /\ s \in Seq(S) /\ Len(s) = n
    /\ \A k \in 0..n : Closed(S, Prefix(s, k))
    /\ \A k \in 1..n : s[k] \notin Prefix(s, k - 1)

LEMMA CausalGrows ==
    ASSUME NEW S, NEW k \in Nat, NEW s, Causal(S, s, k), NEW g \in S, g \notin Range(s),
           \A e \in S \ Range(s) : ~Edge(S, e, g)
    PROVE  Causal(S, Append(s, g), k + 1) /\ Range(Append(s, g)) = Range(s) \cup {g}
<1> DEFINE t == Append(s, g)
<1>1. s \in Seq(S) /\ Len(s) = k
  BY DEF Causal
<1>2. t \in Seq(S) /\ Len(t) = k + 1 /\ t[k + 1] = g /\ \A i \in 1..k : t[i] = s[i]
  BY <1>1, AppendProperties
<1>3. Range(t) = Range(s) \cup {g}
  BY <1>1, RangeAppended
<1>4. Range(s) = Prefix(s, k)
  BY <1>1, LenProperties DEF Range, Prefix
<1>5. Range(t) = Prefix(t, k + 1)
  <2> HIDE DEF t
  <2> QED BY <1>2, LenProperties DEF Range, Prefix
<1> HIDE DEF t
<1>6. ASSUME NEW j \in 0..k
      PROVE  Prefix(t, j) = Prefix(s, j)
  <2>1. \A i \in 1..j : t[i] = s[i]
    BY <1>2
  <2> QED BY <2>1 DEF Prefix
<1>7. ASSUME NEW j \in 0..k + 1
      PROVE  Closed(S, Prefix(t, j))
  <2>1. CASE j \in 0..k
    BY <1>6, <2>1 DEF Causal
  <2>2. CASE j = k + 1
    <3>1. Closed(S, Range(s))
      BY <1>4 DEF Causal
    <3>2. Closed(S, Range(s) \cup {g})
      BY <3>1 DEF Closed
    <3> QED BY <1>3, <1>5, <2>2, <3>2
  <2> QED BY <2>1, <2>2
<1>8. ASSUME NEW j \in 1..k + 1
      PROVE  t[j] \notin Prefix(t, j - 1)
  <2>1. j - 1 \in 0..k
    OBVIOUS
  <2>2. Prefix(t, j - 1) = Prefix(s, j - 1)
    BY <1>6, <2>1
  <2>3. CASE j \in 1..k
    BY <1>2, <2>2, <2>3 DEF Causal
  <2>4. CASE j = k + 1
    BY <1>2, <1>4, <2>2, <2>4
  <2> QED BY <2>3, <2>4
<1> QED BY <1>2, <1>3, <1>7, <1>8 DEF Causal, t

LEMMA CausalTakes ==
    ASSUME NEW S, Identified(S), Rooted(S), NEW k \in Nat, k < Cardinality(S), NEW s, Causal(S, s, k),
           Cardinality(Range(s)) = k, Range(s) \subseteq S, NEW i
    PROVE  LET t == TakeCausal(S, s, i)
           IN Causal(S, t, k + 1) /\ Cardinality(Range(t)) = k + 1 /\ Range(t) \subseteq S
<1> DEFINE rest == S \ Range(s)
           Next == {f \in rest : \A e \in rest : ~Edge(S, e, f)}
<1>1. rest # {} /\ rest \subseteq S /\ IsFiniteSet(S)
  BY DEF Identified
<1>2. Next # {} /\ Next \subseteq S
  <2> HIDE DEF rest
  <2> QED BY <1>1 DEF Rooted
<1>3. TakeCausal(S, s, i) = IF Next = {} THEN s
                            ELSE Append(s, CHOOSE e \in Next : \A f \in Next : f = e \/ Before(e, f))
  BY DEF TakeCausal
<1>4. \E e \in Next : \A f \in Next : f = e \/ Before(e, f)
  <2> HIDE DEF Next
  <2>1. Identified(Next)
    BY <1>2, SubsetIdentified
  <2>2. Linear(Next, EpochOrder(Next)) /\ IsFiniteSet(Next)
    BY <2>1, EpochLinear DEF Identified
  <2>3. \E e \in Next : \A f \in Next : f = e \/ <<e, f>> \in EpochOrder(Next)
    BY <1>2, <2>2, LeastMember
  <2> QED BY <2>3 DEF EpochOrder
<1>5. PICK g \in Next : TakeCausal(S, s, i) = Append(s, g)
  <2> HIDE DEF Next
  <2> QED BY <1>2, <1>3, <1>4
<1>6. Causal(S, Append(s, g), k + 1) /\ Range(Append(s, g)) = Range(s) \cup {g}
  BY <1>5, CausalGrows
<1>7. Cardinality(Range(s) \cup {g}) = k + 1
  <2>1. IsFiniteSet(Range(s)) /\ g \notin Range(s)
    BY <1>1, <1>5, FS_Subset
  <2> QED BY <2>1, FS_AddElement
<1> QED BY <1>1, <1>5, <1>6, <1>7

LEMMA CausalSorts ==
    ASSUME NEW S, Identified(S), Rooted(S)
    PROVE  Causal(S, CausalOrder(S), Cardinality(S)) /\ Range(CausalOrder(S)) = S
<1> DEFINE n == Cardinality(S)
           first == ByCause!Fold(S, <<>>, Upto(n))
           rest == S \ Range(first)
<1>1. n \in Nat /\ DOMAIN Upto(n) = 1..n
  BY FS_CardinalityType DEF Identified, Upto
<1>2. CausalOrder(S) = first \o InOrder(rest, Before)
  BY DEF CausalOrder, FoldLeft, MapThenFoldSet, Max, ByCause!Fold, ByCause!Top, TakeCausal, Upto
<1> DEFINE So(s, k) == Causal(S, s, k) /\ Cardinality(Range(s)) = k /\ Range(s) \subseteq S
<1>3. So(first, n)
  <2>1. PICK acc : ByCause!Trajectory(acc, S, <<>>, Upto(n), n) /\ first = acc[n]
    <3> HIDE DEF n
    <3> QED BY <1>1, ByCause!FoldGoes
  <2>2. acc[0] = <<>> /\ \A k \in 1..n : acc[k] = TakeCausal(S, acc[k - 1], Upto(n)[k])
    BY <2>1 DEF ByCause!Trajectory
  <2> DEFINE T == {k \in Nat : k <= n => So(acc[k], k)}
  <2>3. 0 \in T
    <3>1. Range(<<>>) = {} /\ Cardinality({}) = 0
      BY FS_EmptySet DEF Range
    <3>2. <<>> \in Seq(S) /\ Len(<<>>) = 0
      BY EmptySeq
    <3>3. \A k \in 0..0 : Closed(S, Prefix(<<>>, k))
      BY DEF Closed, Prefix
    <3>4. Causal(S, <<>>, 0)
      BY <3>2, <3>3 DEF Causal
    <3>5. So(<<>>, 0)
      BY <3>1, <3>4
    <3> HIDE DEF So
    <3> QED BY <2>2, <3>5
  <2>4. ASSUME NEW k \in Nat, k \in T
        PROVE  k + 1 \in T
    <3> SUFFICES ASSUME k + 1 <= n PROVE So(acc[k + 1], k + 1)
      OBVIOUS
    <3>1. k + 1 \in 1..n /\ k + 1 - 1 = k /\ So(acc[k], k) /\ k < n
      BY <1>1, <2>4
    <3>2. acc[k + 1] = TakeCausal(S, acc[k], Upto(n)[k + 1])
      BY <2>2, <3>1
    <3> QED BY <3>1, <3>2, CausalTakes
  <2> HIDE DEF T, n, So
  <2>5. Nat \subseteq T
    BY <2>3, <2>4, ByCause!Induction
  <2>6. So(acc[n], n)
    BY <1>1, <2>5 DEF T
  <2> QED BY <2>1, <2>6
<1>4. Range(first) = S
  <2>1. IsFiniteSet(S)
    BY DEF Identified
  <2> HIDE DEF first
  <2> QED BY <1>3, <2>1, FS_Subset
<1>5. rest = {}
  BY <1>4
<1>6. InOrder(rest, Before) = <<>>
  <2>1. Linear({}, EpochOrder({})) /\ IsFiniteSet({}) /\ Identified({})
    BY FS_EmptySet, EpochLinear DEF Identified
  <2>2. Range(InOrder({}, Before)) = {} /\ InOrder({}, Before) \in Seq({})
    BY <2>1, EpochsSort, SortedHolds
  <2>3. InOrder({}, Before) = <<>>
    BY <2>2, LenProperties, ElementOfSeq, EmptySeq
  <2> QED BY <1>5, <2>3
<1>7. first \o <<>> = first
  <2>1. first \in Seq(S)
    BY <1>3 DEF Causal
  <2> HIDE DEF first
  <2> QED BY <2>1, ConcatEmptySeq
<1> QED BY <1>2, <1>3, <1>4, <1>6, <1>7

-----------------------------------------------------------------------------
(* What the scan has found of a task, told from the events it has read *)

Down(S, P) == \A f \in P : \A e \in S : Precedes(S, e, f) => e \in P

\* e is read after the events P, in an order that keeps what precedes what.
Reading(c, P, e) ==
    /\ Identified(c.events) /\ \A i : <<"authority", i>> \notin c.open
    /\ P \subseteq c.events /\ e \in c.events /\ e \notin P
    /\ Down(c.events, P) /\ Down(c.events, P \cup {e})

Natively(t, e) == e.type = "work_unit.bound" /\ e.task = t /\ Reads(e) /\ Native(e)
Product(S, t, e) == /\ e.type = "work_unit.bound" /\ e.task = t /\ Reads(e) /\ ~Native(e) /\ e.auth /\ Exact(e)
                    /\ \E b \in Bindings(S, t) : b.binding = e.binding /\ Precedes(S, b, e)

\* Of the events P: the last known binding of the task is one
Bound(S, P, t) == \E b \in Bindings(P, t) : /\ b.type = "work_unit.bound"
                                            /\ \A f \in Bindings(P, t) : f.type = "work_unit.unbound" => Precedes(S, f, b)

Finite(u) == /\ IsFiniteSet(u.products) /\ IsFiniteSet(u.relations) /\ IsFiniteSet(u.requirements)
             /\ IsFiniteSet(u.claimed) /\ IsFiniteSet(u.bindings)

\* What a task is
Pictured(c, P, t, u) ==
    /\ DOMAIN u = DOMAIN NewUnit /\ Finite(u) /\ u.natives = Bindings(P, t)
    /\ \A x : x \in u.relations <=> x # "unknown" /\ \E e \in P : Natively(t, e) /\ e.rel = x
    /\ \A x : x \in u.requirements <=> x # None /\ \E e \in P : Natively(t, e) /\ e.req = x
    /\ \A x : x \in u.products <=> \E e \in P : Product(c.events, t, e) /\ x = <<e.rel, e.req>>
    /\ Bound(c.events, P, t) => u.bound

\* What is known to have been the last word about its status
DoneIn(c, P, s, t) ==
    \E e \in P : /\ Speaks(s, t, e) /\ e.ts = "done" /\ e \in s.deltas
                 /\ \A f \in P : Speaks(s, t, f) /\ f.ts \notin {None, "done"} => ~Precedes(c.events, e, f)

\* The last word about its review
Requested(P, s, t, r) == r \in P /\ r.type = "review.requested" /\ r.auth /\ Speaks(s, t, r)
ApprovedIn(c, P, s, t) ==
    \E a \in P : /\ Speaks(s, t, a) /\ a.type = "review.approved" /\ a.auth
                 /\ \E r : Requested(P, s, t, r) /\ r.binding = a.binding /\ Precedes(c.events, r, a)
                 /\ \E b \in Bindings(P, t) : /\ b.type = "work_unit.bound" /\ b.profile = a.profile
                                              /\ b.binding = a.binding /\ Precedes(c.events, b, a)
                 /\ \A f \in P : Speaks(s, t, f) /\ f.type \in {"review.requested", "review.changes_requested"}
                                 => ~Precedes(c.events, a, f)

\* The unit u is what the events P say of the task t.
Tells(c, P, s, t, u) ==
    /\ Pictured(c, P, t, u)
    /\ u.status = "done" => DoneIn(c, P, s, t)
    /\ \A r \in u.requests : Requested(P, s, t, r)
    /\ u.review = "approved" => ApprovedIn(c, P, s, t)
    /\ u.review = "not_required" => RelationOf(c, t, u) # "review"

\* s is what the scan has found in the events P.
Knows(c, P, s) ==
    /\ DOMAIN s = DOMAIN Found
    /\ \A i \in s.verified : \E f \in P : f.id = i
    /\ \A d \in P : Material(s, d) => d \in s.deltas
    /\ \A v \in s.verifications : /\ v \in P /\ v.type = "contract.completion_verified" /\ v.st = "verified"
                                  /\ v.auth /\ v.src = "checkpoint"
    /\ \A t : Tells(c, P, s, t, UnitOf(s, t))

LEMMA NothingKnown ==
    ASSUME NEW c
    PROVE  Knows(c, {}, Found)
<1>1. /\ DOMAIN Found.units = {} /\ Found.verified = {} /\ Found.verifications = {}
      /\ \A t : UnitOf(Found, t) = NewUnit
  BY DEF Found, UnitOf
<1>2. /\ NewUnit.natives = {} /\ NewUnit.relations = {} /\ NewUnit.requirements = {} /\ NewUnit.products = {}
      /\ NewUnit.claimed = {} /\ NewUnit.bindings = {} /\ NewUnit.requests = {}
      /\ NewUnit.status = "unknown" /\ NewUnit.review = "not_required"
  BY DEF NewUnit
<1>3. Cardinality({}) = 0 /\ IsFiniteSet({})
  BY FS_EmptySet
<1>4. ASSUME NEW t
      PROVE  RelationOf(c, t, NewUnit) # "review"
  BY <1>2, <1>3 DEF RelationOf, Sole
<1>5. ASSUME NEW t
      PROVE  Pictured(c, {}, t, NewUnit)
  <2>1. Bindings({}, t) = {}
    BY DEF Bindings
  <2>2. Finite(NewUnit)
    BY <1>2, <1>3 DEF Finite
  <2> QED BY <1>2, <2>1, <2>2 DEF Pictured, Bound
<1>6. ASSUME NEW t
      PROVE  Tells(c, {}, Found, t, NewUnit)
  BY <1>2, <1>4, <1>5 DEF Tells
<1> QED BY <1>1, <1>6 DEF Knows

-----------------------------------------------------------------------------
(* An event that does not speak of a task *)

LEMMA BindingsStill ==
    ASSUME NEW P, NEW e, NEW t, ~(e.type \in BindingTypes /\ Native(e) /\ e.task = t /\ Reads(e))
    PROVE  Bindings(P \cup {e}, t) = Bindings(P, t)
BY DEF Bindings

LEMMA DescribedStill ==
    ASSUME NEW c, NEW P, NEW e, NEW t, NEW u, Pictured(c, P, t, u), ~(e.type \in UnitTypes /\ e.task = t /\ Reads(e))
    PROVE  Pictured(c, P \cup {e}, t, u)
<1>1. Bindings(P \cup {e}, t) = Bindings(P, t)
  BY BindingsStill DEF UnitTypes
<1>2. ~Natively(t, e) /\ ~Product(c.events, t, e)
  BY DEF Natively, Product, UnitTypes, BindingTypes
<1>3. Bound(c.events, P \cup {e}, t) <=> Bound(c.events, P, t)
  BY <1>1 DEF Bound
<1> QED BY <1>1, <1>2, <1>3 DEF Pictured

\* What was verified and found progress before, and may have become so with e
Onward(s, r, e) == /\ s.verified \subseteq r.verified /\ r.verified \subseteq s.verified \cup {e.id}
                   /\ s.deltas \subseteq r.deltas

LEMMA SpeaksStill ==
    ASSUME NEW c, NEW P, NEW e, Reading(c, P, e), NEW s, NEW r, Onward(s, r, e), NEW t, NEW f \in P
    PROVE  Speaks(r, t, f) <=> Speaks(s, t, f)
<1>1. f.id # e.id
  BY DEF Reading, Identified
<1> QED BY <1>1 DEF Speaks, Onward

LEMMA DoneStill ==
    ASSUME NEW c, NEW P, NEW e, Reading(c, P, e), NEW s, NEW r, Onward(s, r, e), NEW t, DoneIn(c, P, s, t),
           ~(Speaks(r, t, e) /\ e.ts \notin {None, "done"})
    PROVE  DoneIn(c, P \cup {e}, r, t)
<1>1. PICK d \in P : /\ Speaks(s, t, d) /\ d.ts = "done" /\ d \in s.deltas
                     /\ \A f \in P : Speaks(s, t, f) /\ f.ts \notin {None, "done"} => ~Precedes(c.events, d, f)
  BY DEF DoneIn
<1>2. \A f \in P : Speaks(r, t, f) <=> Speaks(s, t, f)
  BY SpeaksStill
<1>3. d \in r.deltas
  BY <1>1 DEF Onward
<1> QED BY <1>1, <1>2, <1>3 DEF DoneIn

LEMMA RequestedStill ==
    ASSUME NEW c, NEW P, NEW e, Reading(c, P, e), NEW s, NEW r, Onward(s, r, e), NEW t, NEW q, Requested(P, s, t, q)
    PROVE  Requested(P \cup {e}, r, t, q)
BY SpeaksStill DEF Requested

LEMMA ApprovedStill ==
    ASSUME NEW c, NEW P, NEW e, Reading(c, P, e), NEW s, NEW r, Onward(s, r, e), NEW t, ApprovedIn(c, P, s, t),
           ~(Speaks(r, t, e) /\ e.type \in {"review.requested", "review.changes_requested"})
    PROVE  ApprovedIn(c, P \cup {e}, r, t)
<1>1. PICK a \in P : /\ Speaks(s, t, a) /\ a.type = "review.approved" /\ a.auth
                     /\ \E q : Requested(P, s, t, q) /\ q.binding = a.binding /\ Precedes(c.events, q, a)
                     /\ \E b \in Bindings(P, t) : /\ b.type = "work_unit.bound" /\ b.profile = a.profile
                                                  /\ b.binding = a.binding /\ Precedes(c.events, b, a)
                     /\ \A f \in P : Speaks(s, t, f) /\ f.type \in {"review.requested", "review.changes_requested"}
                                     => ~Precedes(c.events, a, f)
  BY DEF ApprovedIn
<1>2. \A f \in P : Speaks(r, t, f) <=> Speaks(s, t, f)
  BY SpeaksStill
<1>3. \E q : Requested(P \cup {e}, r, t, q) /\ q.binding = a.binding /\ Precedes(c.events, q, a)
  BY <1>1, RequestedStill
<1>4. Bindings(P, t) \subseteq Bindings(P \cup {e}, t)
  BY DEF Bindings
<1>5. \A f \in P \cup {e} : Speaks(r, t, f) /\ f.type \in {"review.requested", "review.changes_requested"}
                           => ~Precedes(c.events, a, f)
  BY <1>1, <1>2
<1> QED BY <1>1, <1>2, <1>3, <1>4, <1>5 DEF ApprovedIn

LEMMA TellsStill ==
    ASSUME NEW c, NEW P, NEW e, Reading(c, P, e), NEW s, NEW r, Onward(s, r, e), NEW t, NEW u, Tells(c, P, s, t, u),
           ~Speaks(r, t, e)
    PROVE  Tells(c, P \cup {e}, r, t, u)
<1>1. Pictured(c, P \cup {e}, t, u)
  BY DescribedStill DEF Tells, Speaks
<1>2. u.status = "done" => DoneIn(c, P \cup {e}, r, t)
  BY DoneStill DEF Tells
<1>3. \A q \in u.requests : Requested(P \cup {e}, r, t, q)
  BY RequestedStill DEF Tells
<1>4. u.review = "approved" => ApprovedIn(c, P \cup {e}, r, t)
  BY ApprovedStill DEF Tells
<1> QED BY <1>1, <1>2, <1>3, <1>4 DEF Tells

-----------------------------------------------------------------------------
(* An event of a task *)

\* What an event adds to what a task is
Bindable(e) == e.type \in BindingTypes /\ Native(e)
Adds(c, u, v, e) ==
    /\ v.natives = (IF Bindable(e) THEN u.natives \cup {e} ELSE u.natives)
    /\ v.bound = (IF Bindable(e) THEN e.type = "work_unit.bound" ELSE u.bound)
    /\ v.relations = (IF e.type = "work_unit.bound" /\ Native(e) THEN u.relations \cup ({e.rel} \ {"unknown"}) ELSE u.relations)
    /\ v.requirements = (IF e.type = "work_unit.bound" /\ Native(e) THEN u.requirements \cup ({e.req} \ {None}) ELSE u.requirements)
    /\ v.products = (IF e.type = "work_unit.bound" /\ ~Native(e) /\ Described(c, u, e) /\ Exact(e)
                     THEN u.products \cup {<<e.rel, e.req>>} ELSE u.products)
    /\ v.claimed = u.claimed \/ v.claimed = u.claimed \cup ({e.parents} \ {{}})
    /\ v.bindings = u.bindings \cup ({e.binding} \ {None})

\* The fields a relation is derived from
SamePicture(u, v) ==
    /\ DOMAIN v = DOMAIN NewUnit /\ v.natives = u.natives /\ v.bound = u.bound /\ v.relations = u.relations
    /\ v.requirements = u.requirements /\ v.products = u.products /\ v.claimed = u.claimed /\ v.bindings = u.bindings

LEMMA SameRelation ==
    ASSUME NEW c, NEW t, NEW u, NEW v, SamePicture(u, v)
    PROVE  RelationOf(c, t, v) = RelationOf(c, t, u)
<1>1. Contradicted(v) <=> Contradicted(u)
  BY DEF SamePicture, Contradicted
<1>2. Neutral(c, t, v) <=> Neutral(c, t, u)
  BY <1>1 DEF SamePicture, Neutral
<1> QED BY <1>2 DEF SamePicture, RelationOf

LEMMA SamePictured ==
    ASSUME NEW c, NEW P, NEW t, NEW u, Pictured(c, P, t, u), NEW v, SamePicture(u, v)
    PROVE  Pictured(c, P, t, v)
BY DEF SamePicture, Pictured, Finite

LEMMA UnitAdds ==
    ASSUME NEW c, NEW t, NEW u, DOMAIN u = DOMAIN NewUnit, NEW e
    PROVE  LET v == Status(c, t, Bind(Classify(c, u, e), e), e)
           IN /\ DOMAIN v = DOMAIN NewUnit /\ Adds(c, u, v, e) /\ v.requests = u.requests
              /\ v.review \in {u.review, "pending"}
              /\ v.review = "not_required" => RelationOf(c, t, v) # "review"
              /\ v.status = "done" => e.ts = "done" \/ (e.ts = None /\ u.status = "done")
<1> DEFINE k == Classify(c, u, e)
           b == Bind(k, e)
           v == Status(c, t, b, e)
<1>1. /\ DOMAIN k = DOMAIN NewUnit /\ k.natives = u.natives /\ k.bound = u.bound /\ k.bindings = u.bindings
      /\ k.requests = u.requests /\ k.review = u.review /\ k.status = u.status
      /\ k.relations = (IF e.type = "work_unit.bound" /\ Native(e) THEN u.relations \cup ({e.rel} \ {"unknown"}) ELSE u.relations)
      /\ k.requirements = (IF e.type = "work_unit.bound" /\ Native(e) THEN u.requirements \cup ({e.req} \ {None})
                           ELSE u.requirements)
      /\ k.products = (IF e.type = "work_unit.bound" /\ ~Native(e) /\ Described(c, u, e) /\ Exact(e)
                       THEN u.products \cup {<<e.rel, e.req>>} ELSE u.products)
      /\ k.claimed = u.claimed \/ k.claimed = u.claimed \cup ({e.parents} \ {{}})
  BY DEF Classify, NewUnit
<1> HIDE DEF k
<1>2. /\ DOMAIN b = DOMAIN NewUnit /\ b.relations = k.relations /\ b.requirements = k.requirements
      /\ b.products = k.products /\ b.claimed = k.claimed /\ b.requests = k.requests /\ b.status = k.status
      /\ b.natives = (IF Bindable(e) THEN k.natives \cup {e} ELSE k.natives)
      /\ b.bound = (IF Bindable(e) THEN e.type = "work_unit.bound" ELSE k.bound)
      /\ b.bindings = k.bindings \cup ({e.binding} \ {None})
      /\ b.review \in {k.review, "pending"}
  BY <1>1 DEF Bind, NewUnit, Bindable, BindingTypes
<1> HIDE DEF b
<1>3. /\ SamePicture(b, v) /\ v.requests = b.requests
      /\ v.review = (IF b.review = "not_required" /\ RelationOf(c, t, b) = "review" THEN "pending" ELSE b.review)
      /\ v.status = "done" => e.ts = "done" \/ (e.ts = None /\ b.status = "done")
  BY <1>2 DEF Status, NewUnit, SamePicture
<1>4. RelationOf(c, t, v) = RelationOf(c, t, b)
  BY <1>3, SameRelation
<1> HIDE DEF v
<1>5. Adds(c, u, v, e)
  BY <1>1, <1>2, <1>3 DEF Adds, SamePicture
<1>6. DOMAIN v = DOMAIN NewUnit
  BY <1>3 DEF SamePicture
<1>7. v.requests = u.requests
  BY <1>1, <1>2, <1>3
<1>8. v.review \in {u.review, "pending"}
  BY <1>1, <1>2, <1>3
<1>9. v.review = "not_required" => RelationOf(c, t, v) # "review"
  BY <1>3, <1>4
<1>10. v.status = "done" => e.ts = "done" \/ (e.ts = None /\ u.status = "done")
  BY <1>1, <1>2, <1>3
<1> QED BY <1>5, <1>6, <1>7, <1>8, <1>9, <1>10 DEF v, b, k

LEMMA FiniteWith ==
    ASSUME NEW X, IsFiniteSet(X), NEW x, NEW y
    PROVE  IsFiniteSet(X \cup ({x} \ {y})) /\ IsFiniteSet(X \cup {x})
<1>1. IsFiniteSet(X \cup {x})
  BY FS_AddElement
<1>2. X \cup ({x} \ {y}) = X \/ X \cup ({x} \ {y}) = X \cup {x}
  OBVIOUS
<1> QED BY <1>1, <1>2

LEMMA AddsFinite ==
    ASSUME NEW c, NEW u, Finite(u), NEW v, NEW e, Adds(c, u, v, e)
    PROVE  Finite(v)
<1>1. /\ IsFiniteSet(u.relations) /\ IsFiniteSet(u.requirements) /\ IsFiniteSet(u.products)
      /\ IsFiniteSet(u.claimed) /\ IsFiniteSet(u.bindings)
  BY DEF Finite
<1>2. IsFiniteSet(u.relations \cup ({e.rel} \ {"unknown"}))
  BY <1>1, FiniteWith
<1>3. IsFiniteSet(u.requirements \cup ({e.req} \ {None}))
  BY <1>1, FiniteWith
<1>4. IsFiniteSet(u.products \cup {<<e.rel, e.req>>})
  BY <1>1, FiniteWith
<1>5. IsFiniteSet(u.claimed \cup ({e.parents} \ {{}}))
  BY <1>1, FiniteWith
<1>6. IsFiniteSet(u.bindings \cup ({e.binding} \ {None}))
  BY <1>1, FiniteWith
<1> DEFINE X2 == u.relations \cup ({e.rel} \ {"unknown"})
           X3 == u.requirements \cup ({e.req} \ {None})
           X4 == u.products \cup {<<e.rel, e.req>>}
           X5 == u.claimed \cup ({e.parents} \ {{}})
           X6 == u.bindings \cup ({e.binding} \ {None})
<1>7. /\ v.relations \in {u.relations, X2} /\ v.requirements \in {u.requirements, X3}
      /\ v.products \in {u.products, X4} /\ v.claimed \in {u.claimed, X5} /\ v.bindings = X6
  BY DEF Adds
<1> HIDE DEF X2, X3, X4, X5, X6
<1> QED BY <1>1, <1>2, <1>3, <1>4, <1>5, <1>6, <1>7 DEF Finite, X2, X3, X4, X5, X6

\* What was read of a task, and what is described by it, once e has been read
LEMMA PicturedNext ==
    ASSUME NEW c, NEW P, NEW e, Reading(c, P, e), Reads(e), NEW u, Pictured(c, P, e.task, u),
           NEW v, DOMAIN v = DOMAIN NewUnit, Adds(c, u, v, e)
    PROVE  Pictured(c, P \cup {e}, e.task, v)
<1> DEFINE t == e.task
           S == c.events
<1>1. Finite(v)
  BY AddsFinite DEF Pictured
<1>2. v.natives = Bindings(P \cup {e}, t)
  <2>1. u.natives = Bindings(P, t)
    BY DEF Pictured
  <2>2. Bindings(P \cup {e}, t) = IF Bindable(e) THEN Bindings(P, t) \cup {e} ELSE Bindings(P, t)
    BY DEF Bindings, Bindable
  <2> QED BY <2>1, <2>2 DEF Adds
<1>3. \A x : x \in v.relations <=> x # "unknown" /\ \E f \in P \cup {e} : Natively(t, f) /\ f.rel = x
  <2>1. v.relations = IF Natively(t, e) THEN u.relations \cup ({e.rel} \ {"unknown"}) ELSE u.relations
    BY DEF Adds, Natively
  <2>2. \A x : x \in u.relations <=> x # "unknown" /\ \E f \in P : Natively(t, f) /\ f.rel = x
    BY DEF Pictured
  <2> QED BY <2>1, <2>2
<1>4. \A x : x \in v.requirements <=> x # None /\ \E f \in P \cup {e} : Natively(t, f) /\ f.req = x
  <2>1. v.requirements = IF Natively(t, e) THEN u.requirements \cup ({e.req} \ {None}) ELSE u.requirements
    BY DEF Adds, Natively
  <2>2. \A x : x \in u.requirements <=> x # None /\ \E f \in P : Natively(t, f) /\ f.req = x
    BY DEF Pictured
  <2> QED BY <2>1, <2>2
<1>5. \A x : x \in v.products <=> \E f \in P \cup {e} : Product(S, t, f) /\ x = <<f.rel, f.req>>
  <2>1. ASSUME e.type = "work_unit.bound", ~Native(e), Exact(e)
        PROVE  Described(c, u, e) <=> Product(S, t, e)
    <3>1. Authorized(c, e) <=> e.auth
      BY <2>1 DEF Authorized, Reading, Protected, ReviewTypes, TerminalTypes, InvariantTypes
    <3>2. \A b \in Bindings(S, t) : Precedes(S, b, e) => b \in P
      <4>1. Bindings(S, t) \subseteq S
        BY DEF Bindings
      <4>2. \A b \in S : ~Precedes(S, b, e) \/ b \in P \/ b = e
        BY DEF Reading, Down
      <4>3. e \notin Bindings(S, t)
        BY <2>1 DEF Bindings
      <4> QED BY <4>1, <4>2, <4>3
    <3>3. u.natives = Bindings(P, t) /\ P \subseteq S
      BY DEF Pictured, Reading
    <3>4. \A b : b \in Bindings(P, t) <=> b \in P /\ b \in Bindings(S, t)
      BY <3>3 DEF Bindings
    <3>5. (\E b \in u.natives : b.binding = e.binding /\ Precedes(S, b, e))
          <=> (\E b \in Bindings(S, t) : b.binding = e.binding /\ Precedes(S, b, e))
      BY <3>2, <3>3, <3>4
    <3> QED BY <2>1, <3>1, <3>5 DEF Described, Product
  <2>2. v.products = IF Product(S, t, e) THEN u.products \cup {<<e.rel, e.req>>} ELSE u.products
    BY <2>1 DEF Adds, Product
  <2>3. \A x : x \in u.products <=> \E f \in P : Product(S, t, f) /\ x = <<f.rel, f.req>>
    BY DEF Pictured
  <2> HIDE DEF S, t
  <2> QED BY <2>2, <2>3
<1>6. Bound(S, P \cup {e}, t) => v.bound
  <2> SUFFICES ASSUME Bound(S, P \cup {e}, t) PROVE v.bound
    OBVIOUS
  <2>1. PICK b \in Bindings(P \cup {e}, t) :
           /\ b.type = "work_unit.bound"
           /\ \A f \in Bindings(P \cup {e}, t) : f.type = "work_unit.unbound" => Precedes(S, f, b)
    BY DEF Bound
  <2>2. CASE ~Bindable(e)
    <3>1. Bindings(P \cup {e}, t) = Bindings(P, t)
      BY <2>2, BindingsStill DEF Bindable
    <3> QED BY <2>1, <2>2, <3>1 DEF Bound, Pictured, Adds
  <2>3. CASE Bindable(e) /\ e.type = "work_unit.bound"
    BY <2>3 DEF Adds
  <2>4. CASE Bindable(e) /\ e.type # "work_unit.bound"
    <3>1. e.type = "work_unit.unbound"
      BY <2>4 DEF Bindable, BindingTypes
    <3>2. e \in Bindings(P \cup {e}, t)
      BY <2>4 DEF Bindings, Bindable
    <3>3. Precedes(S, e, b) /\ b \in P
      BY <2>1, <2>4, <3>1, <3>2 DEF Bindings
    <3>4. e \in P
      BY <3>3 DEF Reading, Down
    <3> QED BY <3>4 DEF Reading
  <2> QED BY <2>2, <2>3, <2>4
<1> QED BY <1>1, <1>2, <1>3, <1>4, <1>5, <1>6 DEF Pictured

-----------------------------------------------------------------------------
(* One more event has been read. *)

\* Nothing that completion rests on is touched, but for what is progress.
Aside(s, r) == /\ DOMAIN r = DOMAIN Found /\ r.units = s.units /\ r.verified = s.verified
               /\ r.verifications = s.verifications /\ s.deltas \subseteq r.deltas

LEMMA StepsAside ==
    ASSUME NEW s, DOMAIN s = DOMAIN Found, NEW e, NEW reason, NEW key, NEW cat, NEW at
    PROVE  /\ Aside(s, Gap(s, reason, e)) /\ Aside(s, Opens(s, key, cat, at)) /\ Aside(s, Ends(s, key, at))
           /\ Aside(s, Progress(s, e)) /\ (e.type # "contract.completion_verified" => e \in Progress(s, e).deltas)
           /\ Aside(s, Lasted(s, e))
<1>1. Aside(s, Gap(s, reason, e))
  BY DEF Gap, Aside, Found
<1>2. Aside(s, Opens(s, key, cat, at))
  BY DEF Opens, Aside, Found
<1>3. Aside(s, Ends(s, key, at))
  <2>1. CASE key \notin DOMAIN s.open
    BY <2>1 DEF Ends, Aside
  <2>2. CASE key \in DOMAIN s.open
    <3> DEFINE span == s.open[key]
               open == Restrict(s.open, DOMAIN s.open \ {key})
               spans == [s.spans EXCEPT ![OnceEnded(span.cat)] = IF at >= span.at THEN @ \cup {<<span.at, at>>} ELSE @]
    <3>1. Ends(s, key, at) = [s EXCEPT !.open = open, !.spans = spans]
      BY <2>2 DEF Ends
    <3> HIDE DEF open, spans
    <3> QED BY <3>1 DEF Aside, Found
  <2> QED BY <2>1, <2>2
<1>4. Aside(s, Progress(s, e)) /\ (e.type # "contract.completion_verified" => e \in Progress(s, e).deltas)
  BY DEF Progress, Aside, Found
<1>5. Aside(s, Lasted(s, e))
  BY DEF Lasted, Aside, Found
<1> QED BY <1>1, <1>2, <1>3, <1>4, <1>5

LEMMA ProgressAside ==
    ASSUME NEW s, DOMAIN s = DOMAIN Found, NEW e, e.type # "contract.completion_verified"
    PROVE  Aside(s, Progress(s, e)) /\ e \in Progress(s, e).deltas
BY DEF Progress, Aside, Found

LEMMA AsideFurther ==
    ASSUME NEW s, NEW r, Aside(s, r), NEW q, Aside(r, q)
    PROVE  Aside(s, q)
BY DEF Aside

\* The unit of the event's task is u; that a task came to be done is progress.
Worked(s, r, e, u) ==
    /\ DOMAIN r = DOMAIN Found /\ r.units = With(s.units, e.task, u) /\ r.verified = s.verified
    /\ r.verifications = s.verifications /\ s.deltas \subseteq r.deltas
    /\ u.status = "done" /\ UnitOf(s, e.task).status # "done" => e \in r.deltas

LEMMA OnUnitWorks ==
    ASSUME NEW s, DOMAIN s = DOMAIN Found, NEW c, NEW e, e.type # "contract.completion_verified", NEW u
    PROVE  Worked(s, OnUnit(c, s, e, UnitOf(s, e.task), u), e, u)
<1> DEFINE old == UnitOf(s, e.task)
           block == <<"blocked", e.task>>
           unbound == IF e.type = "work_unit.unbound" /\ Native(e) THEN {"UNBOUND_WORK_UNIT_OBSERVED"} ELSE {}
           unproven == IF e.type = "work_unit.bound" /\ e.src = "checkpoint" /\ ~Described(c, old, e)
                       THEN {"WORK_UNIT_CLASSIFICATION_UNVERIFIED"} ELSE {}
           begins == s.execution = None /\ u.bound /\ RequiredOf(c, e.task, u) = TRUE /\ u.status = "running"
                     /\ ~Heartbeat(e, u)
           s1 == [s EXCEPT !.units = With(@, e.task, u), !.execution = IF begins THEN e.at ELSE @,
                           !.gaps = @ \cup {<<r, e.id>> : r \in unbound \cup unproven}]
           s2 == CASE u.status # "blocked" -> Ends(s1, block, e.at)
                   [] block \in DOMAIN s1.open -> s1
                   [] OTHER -> Opens(s1, block, "other", e.at)
<1>1. OnUnit(c, s, e, old, u) = IF u.status # old.status /\ ~Heartbeat(e, u) THEN Progress(s2, e) ELSE s2
  <2>1. s1.open = s.open
    BY DEF Found
  <2> QED BY <2>1 DEF OnUnit
<1> HIDE DEF unbound, unproven, begins
<1>2. /\ DOMAIN s1 = DOMAIN Found /\ s1.units = With(s.units, e.task, u) /\ s1.verified = s.verified
      /\ s1.verifications = s.verifications /\ s1.deltas = s.deltas
  BY DEF Found
<1> HIDE DEF s1, block
<1>3. Aside(s1, s2)
  <2>1. Aside(s1, s1)
    BY <1>2 DEF Aside
  <2> QED BY <1>2, <2>1, StepsAside
<1> HIDE DEF s2
<1>4. Aside(s2, Progress(s2, e)) /\ e \in Progress(s2, e).deltas
  <2>1. DOMAIN s2 = DOMAIN Found
    BY <1>3 DEF Aside
  <2> QED BY <2>1, ProgressAside
<1>5. u.status = "done" => ~Heartbeat(e, u)
  BY DEF Heartbeat
<1> HIDE DEF old
<1>6. CASE u.status # old.status /\ ~Heartbeat(e, u)
  BY <1>1, <1>2, <1>3, <1>4, <1>6 DEF Aside, Worked, old
<1>7. CASE ~(u.status # old.status /\ ~Heartbeat(e, u))
  BY <1>1, <1>2, <1>3, <1>5, <1>7 DEF Aside, Worked, old
<1> QED BY <1>6, <1>7 DEF old

\* The unit of the event's task, as its status was read
UnitRead(c, s, e) == Status(c, e.task, Bind(Classify(c, UnitOf(s, e.task), e), e), e)

LEMMA OnWorkUnitWorks ==
    ASSUME NEW s, DOMAIN s = DOMAIN Found, NEW c, NEW e, e.type # "contract.completion_verified"
    PROVE  Worked(s, OnWorkUnit(c, s, e), e, UnitRead(c, s, e))
BY OnUnitWorks DEF OnWorkUnit, UnitRead

LEMMA KnowsUnit ==
    ASSUME NEW c, NEW P, NEW e, Reading(c, P, e), NEW s, Knows(c, P, s), NEW r, DOMAIN r = DOMAIN Found,
           Onward(s, r, e), \A v \in r.verifications : v \in s.verifications
                              \/ (v = e /\ v.type = "contract.completion_verified" /\ v.st = "verified"
                                  /\ v.auth /\ v.src = "checkpoint"),
           \A k : (UnitOf(r, k) = UnitOf(s, k) /\ ~Speaks(r, k, e)) \/ Tells(c, P \cup {e}, r, k, UnitOf(r, k)),
           Material(r, e) => e \in r.deltas
    PROVE  Knows(c, P \cup {e}, r)
<1>1. \A i \in r.verified : \E f \in P \cup {e} : f.id = i
  BY DEF Knows, Onward
<1>2. ASSUME NEW d \in P \cup {e}, Material(r, d)
      PROVE  d \in r.deltas
  <2>1. CASE d = e
    BY <1>2, <2>1
  <2>2. CASE d # e
    <3>1. d.id # e.id
      BY <2>2 DEF Reading, Identified
    <3>2. Material(s, d)
      BY <1>2, <3>1 DEF Material, Onward
    <3> QED BY <2>2, <3>2 DEF Knows, Onward
  <2> QED BY <2>1, <2>2
<1>3. \A v \in r.verifications : /\ v \in P \cup {e} /\ v.type = "contract.completion_verified" /\ v.st = "verified"
                                 /\ v.auth /\ v.src = "checkpoint"
  BY DEF Knows
<1>4. ASSUME NEW k
      PROVE  Tells(c, P \cup {e}, r, k, UnitOf(r, k))
  <2>1. Tells(c, P, s, k, UnitOf(s, k))
    BY DEF Knows
  <2> QED BY <2>1, TellsStill
<1> QED BY <1>1, <1>2, <1>3, <1>4 DEF Knows

\* The event is of no task.
LEMMA KnowsAside ==
    ASSUME NEW c, NEW P, NEW e, Reading(c, P, e), NEW s, Knows(c, P, s), NEW r, Aside(s, r),
           Reads(e) => e.type \notin UnitTypes \cup RunTypes,
           Reads(e) /\ e.type \in ReviewTypes => e.id \notin s.verified, Material(s, e) => e \in r.deltas
    PROVE  Knows(c, P \cup {e}, r)
<1>1. \A k : UnitOf(r, k) = UnitOf(s, k) /\ ~Speaks(r, k, e)
  BY DEF Aside, UnitOf, Speaks
<1>2. Onward(s, r, e)
  BY DEF Onward, Aside
<1>3. Material(r, e) => Material(s, e)
  BY DEF Material, Aside
<1> QED BY <1>1, <1>2, <1>3, KnowsUnit DEF Aside

\* What e says of its task, whatever becomes of its review
LEMMA WorkTells ==
    ASSUME NEW c, NEW P, NEW e, Reading(c, P, e), Reads(e), NEW s, Knows(c, P, s),
           NEW r, Onward(s, r, e), Speaks(r, e.task, e), NEW s1, Worked(s, s1, e, UnitRead(c, s, e)), s1.deltas \subseteq r.deltas,
           NEW w, SamePicture(UnitRead(c, s, e), w), w.status \in {"unknown", UnitRead(c, s, e).status}
    PROVE  Pictured(c, P \cup {e}, e.task, w) /\ (w.status = "done" => DoneIn(c, P \cup {e}, r, e.task))
<1> DEFINE t == e.task
           u == UnitOf(s, t)
           v == UnitRead(c, s, e)
<1>1. Tells(c, P, s, t, u)
  BY DEF Knows
<1>2. Pictured(c, P, t, u) /\ DOMAIN u = DOMAIN NewUnit
  BY <1>1 DEF Tells, Pictured
<1>3. /\ DOMAIN v = DOMAIN NewUnit /\ Adds(c, u, v, e)
      /\ v.status = "done" => e.ts = "done" \/ (e.ts = None /\ u.status = "done")
  <2> HIDE DEF u
  <2> QED BY <1>2, UnitAdds DEF UnitRead, u
<1> HIDE DEF u, v
<1>4. Pictured(c, P \cup {e}, t, v)
  BY <1>2, <1>3, PicturedNext
<1>5. Pictured(c, P \cup {e}, t, w)
  BY <1>4, SamePictured DEF v
<1>6. ASSUME w.status = "done"
      PROVE  DoneIn(c, P \cup {e}, r, t)
  <2>1. v.status = "done"
    BY <1>6 DEF v
  <2>2. CASE u.status = "done"
    <3>1. DoneIn(c, P, s, t)
      BY <1>1, <2>2 DEF Tells
    <3>2. e.ts \in {None, "done"}
      BY <1>3, <2>1
    <3> QED BY <3>1, <3>2, DoneStill
  <2>3. CASE u.status # "done"
    <3>1. e.ts = "done" /\ e \in r.deltas
      BY <1>3, <2>1, <2>3 DEF Worked, u, v
    <3>2. \A f \in P : ~Precedes(c.events, e, f)
      BY DEF Reading, Down
    <3> QED BY <3>1, <3>2 DEF DoneIn
  <2> QED BY <2>2, <2>3
<1> QED BY <1>5, <1>6

LEMMA WithAgain ==
    ASSUME NEW f, NEW k, NEW u, NEW v
    PROVE  With(With(f, k, u), k, v) = With(f, k, v)
BY DEF With

LEMMA UnitReadAs ==
    ASSUME NEW c, NEW P, NEW s, Knows(c, P, s), NEW e
    PROVE  LET u == UnitOf(s, e.task)
               v == UnitRead(c, s, e)
           IN /\ Tells(c, P, s, e.task, u) /\ SamePicture(v, v) /\ v.requests = u.requests
              /\ v.review \in {u.review, "pending"}
              /\ v.review = "not_required" => RelationOf(c, e.task, v) # "review"
<1> DEFINE u == UnitOf(s, e.task)
           v == UnitRead(c, s, e)
<1>1. Tells(c, P, s, e.task, u)
  BY DEF Knows
<1>2. DOMAIN u = DOMAIN NewUnit
  BY <1>1 DEF Tells, Pictured
<1>3. /\ DOMAIN v = DOMAIN NewUnit /\ v.requests = u.requests /\ v.review \in {u.review, "pending"}
      /\ v.review = "not_required" => RelationOf(c, e.task, v) # "review"
  <2> HIDE DEF u
  <2> QED BY <1>2, UnitAdds DEF UnitRead, u
<1> QED BY <1>1, <1>3 DEF SamePicture

\* A binding, a status or a run
LEMMA KnowsWork ==
    ASSUME NEW c, NEW P, NEW e, Reading(c, P, e), Reads(e), e.type \in UnitTypes \cup RunTypes, NEW s, Knows(c, P, s),
           NEW s1, Worked(s, s1, e, UnitRead(c, s, e)),
           NEW w, SamePicture(UnitRead(c, s, e), w), w.status \in {"unknown", UnitRead(c, s, e).status},
           w.requests = UnitRead(c, s, e).requests, w.review = UnitRead(c, s, e).review,
           NEW r, DOMAIN r = DOMAIN Found, r.units = With(s.units, e.task, w), r.verified = s.verified,
           r.verifications = s.verifications, s1.deltas \subseteq r.deltas
    PROVE  Knows(c, P \cup {e}, r)
<1> DEFINE t == e.task
           u == UnitOf(s, t)
           v == UnitRead(c, s, e)
<1>1. Tells(c, P, s, t, u) /\ v.requests = u.requests /\ v.review \in {u.review, "pending"}
      /\ (v.review = "not_required" => RelationOf(c, t, v) # "review")
  BY UnitReadAs
<1>2. Onward(s, r, e) /\ Speaks(r, t, e)
  BY DEF Onward, Worked, Speaks
<1>3. Pictured(c, P \cup {e}, t, w) /\ (w.status = "done" => DoneIn(c, P \cup {e}, r, t))
  BY <1>2, WorkTells
<1> HIDE DEF u, v
<1>4. \A q \in w.requests : Requested(P \cup {e}, r, t, q)
  BY <1>1, <1>2, RequestedStill DEF Tells, v
<1>5. w.review = "approved" => ApprovedIn(c, P \cup {e}, r, t)
  <2> SUFFICES ASSUME w.review = "approved" PROVE ApprovedIn(c, P \cup {e}, r, t)
    OBVIOUS
  <2>1. ApprovedIn(c, P, s, t)
    BY <1>1 DEF Tells, v
  <2>2. e.type \notin {"review.requested", "review.changes_requested"}
    BY DEF UnitTypes, RunTypes, BindingTypes
  <2> QED BY <1>2, <2>1, <2>2, ApprovedStill
<1>6. w.review = "not_required" => RelationOf(c, t, w) # "review"
  BY <1>1, SameRelation DEF v
<1>7. Tells(c, P \cup {e}, r, t, w)
  BY <1>3, <1>4, <1>5, <1>6 DEF Tells
<1>8. UnitOf(r, t) = w /\ \A k : k # t => UnitOf(r, k) = UnitOf(s, k) /\ ~Speaks(r, k, e)
  <2>1. UnitOf(r, t) = w
    BY DEF UnitOf, With
  <2>2. ASSUME NEW k, k # t
        PROVE  UnitOf(r, k) = UnitOf(s, k)
    BY <2>2 DEF UnitOf, With
  <2> QED BY <2>1, <2>2 DEF Speaks
<1>9. ~Material(r, e)
  BY DEF Material, UnitTypes, RunTypes, BindingTypes, InvariantTypes
<1> QED BY <1>2, <1>7, <1>8, <1>9, KnowsUnit

LEMMA OnWorkUnitKnows ==
    ASSUME NEW c, NEW P, NEW e, Reading(c, P, e), Reads(e), e.type \in UnitTypes, NEW s, Knows(c, P, s)
    PROVE  Knows(c, P \cup {e}, OnWorkUnit(c, s, e))
<1> DEFINE r == OnWorkUnit(c, s, e)
           v == UnitRead(c, s, e)
<1>1. e.type # "contract.completion_verified" /\ DOMAIN s = DOMAIN Found
  BY DEF UnitTypes, BindingTypes, Knows
<1>2. Worked(s, r, e, v)
  BY <1>1, OnWorkUnitWorks
<1>3. SamePicture(v, v)
  BY UnitReadAs
<1> HIDE DEF r, v
<1> QED BY <1>2, <1>3, KnowsWork DEF Worked, r, v

LEMMA OnRunKnows ==
    ASSUME NEW c, NEW P, NEW e, Reading(c, P, e), Reads(e), e.type \in RunTypes, NEW s, Knows(c, P, s)
    PROVE  Knows(c, P \cup {e}, OnRun(c, s, e))
<1> DEFINE s1 == OnWorkUnit(c, s, e)
           v == UnitRead(c, s, e)
<1>1. e.type # "contract.completion_verified" /\ DOMAIN s = DOMAIN Found
  BY DEF RunTypes, Knows
<1>2. Worked(s, s1, e, v)
  BY <1>1, OnWorkUnitWorks
<1>3. SamePicture(v, v)
  BY UnitReadAs
<1>4. OnRun(c, s, e) = RunRead(c, s1, e)
  BY DEF OnRun
<1> HIDE DEF s1, v
<1>5. s1.units[e.task] = v
  BY <1>2 DEF Worked, With
<1> DEFINE key == <<e.task, e.run>>
           u == [v EXCEPT !.ends = @ \cup {<<e.run, e.st, e.ts, e.out>>}]
           lost == RunsContradict(u) \/ <<"run", e.task, e.run>> \in c.open
           w == [u EXCEPT !.status = IF lost THEN "unknown" ELSE @,
                          !.out = IF lost THEN "unknown" ELSE IF e.out = None THEN "unknown" ELSE e.out]
           s2 == [s1 EXCEPT !.units = With(@, e.task, w), !.runs = @ \ {key}]
           s3 == [s1 EXCEPT !.runs = @ \cup {key},
                            !.execution = IF @ = None /\ RequiredOf(c, e.task, v) = TRUE THEN e.at ELSE @]
<1>6. RunRead(c, s1, e) = IF e.type = "run.started" THEN s3
                          ELSE IF key \in s1.runs THEN s2 ELSE Gap(s2, "RUN_TERMINAL_WITHOUT_START", e)
  BY <1>5 DEF RunRead
<1>7. /\ SamePicture(v, w) /\ w.requests = v.requests /\ w.review = v.review
      /\ w.status \in {"unknown", v.status}
  <2>1. /\ SamePicture(v, u) /\ u.requests = v.requests /\ u.review = v.review /\ u.status = v.status
    BY <1>3 DEF SamePicture, NewUnit
  <2> HIDE DEF u, lost
  <2> QED BY <2>1 DEF SamePicture, NewUnit
<1> HIDE DEF w, key
<1>8. /\ DOMAIN s2 = DOMAIN Found /\ s2.units = With(s1.units, e.task, w) /\ s2.verified = s1.verified
      /\ s2.verifications = s1.verifications /\ s2.deltas = s1.deltas
  BY <1>2 DEF Worked, Found
<1>9. Aside(s1, s3)
  BY <1>2 DEF Worked, Found, Aside
<1> HIDE DEF s2, s3
<1>10. Aside(s2, s2) /\ Aside(s2, Gap(s2, "RUN_TERMINAL_WITHOUT_START", e))
  BY <1>8, StepsAside DEF Aside
<1>11. CASE e.type = "run.started"
  <2>1. Knows(c, P \cup {e}, s3)
    BY <1>2, <1>3, <1>9, KnowsWork DEF Worked, Aside, v
  <2> QED BY <1>4, <1>6, <1>11, <2>1
<1>12. CASE e.type # "run.started"
  <2>1. PICK r : r = OnRun(c, s, e) /\ Aside(s2, r)
    BY <1>4, <1>6, <1>10, <1>12
  <2>2. r.units = With(s.units, e.task, w)
    BY <1>2, <1>8, <2>1, WithAgain DEF Worked, Aside
  <2>3. DOMAIN r = DOMAIN Found /\ r.verified = s.verified /\ r.verifications = s.verifications
        /\ s1.deltas \subseteq r.deltas
    BY <1>2, <1>8, <2>1 DEF Worked, Aside
  <2> QED BY <1>2, <1>7, <2>1, <2>2, <2>3, KnowsWork DEF v
<1> QED BY <1>11, <1>12

\* A review that counts was asked for, and of the one bound as reviewer.
LEMMA ReviewReadKnows ==
    ASSUME NEW c, NEW P, NEW e, Reading(c, P, e), Reads(e), e.type \in ReviewTypes, e.auth, NEW s, Knows(c, P, s),
           Assigned(c, UnitOf(s, e.task), e), Asked(c, UnitOf(s, e.task), e)
    PROVE  Knows(c, P \cup {e}, ReviewRead(c, OnWorkUnit(c, s, e), e))
<1> DEFINE t == e.task
           s1 == OnWorkUnit(c, s, e)
           u == UnitOf(s, t)
           v == UnitRead(c, s, e)
<1>1. e.type # "contract.completion_verified" /\ DOMAIN s = DOMAIN Found
  BY DEF ReviewTypes, Knows
<1>2. Worked(s, s1, e, v)
  BY <1>1, OnWorkUnitWorks
<1>3. Tells(c, P, s, t, u) /\ SamePicture(v, v) /\ v.requests = u.requests
  BY UnitReadAs
<1> HIDE DEF s1, v
<1>4. s1.units[t] = v
  BY <1>2 DEF Worked, With
<1> DEFINE state == CASE <<"review", e.task>> \in c.open -> "pending"
                      [] e.type = "review.requested" -> "pending"
                      [] e.type = "review.approved" -> "approved"
                      [] OTHER -> "changes_requested"
           w == [v EXCEPT !.review = state, !.requests = IF e.type = "review.requested" THEN @ \cup {e} ELSE @]
           s2 == [s1 EXCEPT !.units = With(@, e.task, w), !.verified = @ \cup {e.id}]
           r == ReviewRead(c, s1, e)
<1>5. r = IF e.type = "review.requested" THEN Opens(s2, <<"review", e.task>>, "review", e.at)
          ELSE Progress(Ends(s2, <<"review", e.task>>, e.at), e)
  BY <1>4 DEF ReviewRead
<1>6. state \in {"pending", "approved", "changes_requested"} /\ (state = "approved" => e.type = "review.approved")
  OBVIOUS
<1> HIDE DEF state
<1>7. /\ SamePicture(v, w) /\ w.status = v.status /\ w.review = state
      /\ w.requests = IF e.type = "review.requested" THEN v.requests \cup {e} ELSE v.requests
  BY <1>3 DEF SamePicture, NewUnit
<1> HIDE DEF w, u
<1>8. /\ DOMAIN s2 = DOMAIN Found /\ s2.units = With(s1.units, t, w) /\ s2.verified = s1.verified \cup {e.id}
      /\ s2.verifications = s1.verifications /\ s2.deltas = s1.deltas
  BY <1>2 DEF Worked, Found
<1> HIDE DEF s2
<1>9. Aside(s2, r) /\ (e.type # "review.requested" => e \in r.deltas)
  <2>1. CASE e.type = "review.requested"
    <3> HIDE DEF r
    <3> QED BY <1>5, <1>8, <2>1, StepsAside
  <2>2. CASE e.type # "review.requested"
    <3> DEFINE s3 == Ends(s2, <<"review", e.task>>, e.at)
    <3>1. Aside(s2, s3)
      BY <1>8, StepsAside
    <3>2. r = Progress(s3, e)
      BY <1>5, <2>2
    <3> HIDE DEF s3, r
    <3>3. Aside(s3, r) /\ e \in r.deltas
      <4>1. DOMAIN s3 = DOMAIN Found
        BY <3>1 DEF Aside
      <4>2. e.type # "contract.completion_verified"
        BY <1>1
      <4> QED BY <3>2, <4>1, <4>2, ProgressAside
    <3> QED BY <3>1, <3>3 DEF Aside
  <2> QED BY <2>1, <2>2
<1> HIDE DEF r
<1>10. /\ DOMAIN r = DOMAIN Found /\ r.units = With(s.units, t, w) /\ r.verified = s.verified \cup {e.id}
       /\ r.verifications = s.verifications /\ s1.deltas \subseteq r.deltas /\ s.deltas \subseteq r.deltas
  <2>1. r.units = With(With(s.units, t, v), t, w)
    BY <1>2, <1>8, <1>9 DEF Worked, Aside
  <2>2. r.units = With(s.units, t, w)
    BY <2>1, WithAgain
  <2> QED BY <1>2, <1>8, <1>9, <2>2 DEF Worked, Aside
<1>11. Onward(s, r, e) /\ Speaks(r, t, e)
  BY <1>10 DEF Onward, Speaks
<1>12. Pictured(c, P \cup {e}, t, w) /\ (w.status = "done" => DoneIn(c, P \cup {e}, r, t))
  BY <1>2, <1>7, <1>10, <1>11, WorkTells DEF v
<1>13. \A q \in u.requests : Requested(P \cup {e}, r, t, q)
  BY <1>3, <1>11, RequestedStill DEF Tells
<1>14. \A q \in w.requests : Requested(P \cup {e}, r, t, q)
  BY <1>3, <1>7, <1>11, <1>13 DEF Requested
<1>15. ASSUME w.review = "approved"
       PROVE  ApprovedIn(c, P \cup {e}, r, t)
  <2>1. e.type = "review.approved"
    BY <1>6, <1>7, <1>15
  <2>2. PICK q \in u.requests : q.binding = e.binding /\ Precedes(c.events, q, e)
    BY <2>1 DEF Asked, u
  <2>3. PICK b \in u.natives : /\ b.type = "work_unit.bound" /\ b.profile = e.profile
                               /\ b.binding = e.binding /\ Precedes(c.events, b, e)
    BY DEF Assigned, u
  <2>4. b \in Bindings(P \cup {e}, t)
    BY <1>3, <2>3 DEF Tells, Pictured, Bindings
  <2>5. \A f \in P \cup {e} : f.type \in {"review.requested", "review.changes_requested"} => ~Precedes(c.events, e, f)
    BY <2>1 DEF Reading, Down
  <2>6. Requested(P \cup {e}, r, t, q)
    BY <1>13
  <2> QED BY <1>11, <2>1, <2>2, <2>3, <2>4, <2>5, <2>6 DEF ApprovedIn
<1>16. Tells(c, P \cup {e}, r, t, w)
  BY <1>6, <1>7, <1>12, <1>14, <1>15 DEF Tells
<1>17. UnitOf(r, t) = w /\ \A k : k # t => UnitOf(r, k) = UnitOf(s, k) /\ ~Speaks(r, k, e)
  <2>1. UnitOf(r, t) = w
    BY <1>10 DEF UnitOf, With
  <2>2. ASSUME NEW k, k # t
        PROVE  UnitOf(r, k) = UnitOf(s, k)
    BY <1>10, <2>2 DEF UnitOf, With
  <2> QED BY <2>1, <2>2 DEF Speaks
<1>18. Material(r, e) => e \in r.deltas
  BY <1>9 DEF Material, ReviewTypes, InvariantTypes
<1>19. Knows(c, P \cup {e}, r)
  BY <1>10, <1>11, <1>16, <1>17, <1>18, KnowsUnit
<1> QED BY <1>19 DEF r, s1

LEMMA OnReviewKnows ==
    ASSUME NEW c, NEW P, NEW e, Reading(c, P, e), Reads(e), e.type \in ReviewTypes, NEW s, Knows(c, P, s)
    PROVE  Knows(c, P \cup {e}, OnReview(c, s, e))
<1>1. e.id \notin s.verified
  BY DEF Knows, Reading, Identified
<1>2. ASSUME NEW reason
      PROVE  Knows(c, P \cup {e}, Gap(s, reason, e))
  <2>1. Aside(s, Gap(s, reason, e))
    BY StepsAside DEF Knows
  <2>2. e.type \notin UnitTypes \cup RunTypes /\ ~Material(s, e)
    BY <1>1 DEF ReviewTypes, UnitTypes, RunTypes, BindingTypes, Material, InvariantTypes
  <2> QED BY <1>1, <2>1, <2>2, KnowsAside
<1>3. CASE Authorized(c, e) /\ Assigned(c, UnitOf(s, e.task), e) /\ Asked(c, UnitOf(s, e.task), e)
  <2>1. OnReview(c, s, e) = ReviewRead(c, OnWorkUnit(c, s, e), e)
    BY <1>3 DEF OnReview
  <2>2. e.auth
    BY <1>3 DEF Authorized
  <2> QED BY <1>3, <2>1, <2>2, ReviewReadKnows
<1>4. CASE ~(Authorized(c, e) /\ Assigned(c, UnitOf(s, e.task), e) /\ Asked(c, UnitOf(s, e.task), e))
  <2>1. OnReview(c, s, e) = Gap(s, "REVIEW_AUTHORITY_UNVERIFIED", e)
        \/ OnReview(c, s, e) = Gap(s, "REVIEW_ASSIGNMENT_UNVERIFIED", e)
    BY <1>4 DEF OnReview
  <2> QED BY <1>2, <2>1
<1> QED BY <1>3, <1>4

LEMMA AsideProgress ==
    ASSUME NEW s, NEW r, Aside(s, r), NEW e, e.type # "contract.completion_verified"
    PROVE  Aside(s, Progress(r, e)) /\ e \in Progress(r, e).deltas
<1>1. DOMAIN r = DOMAIN Found
  BY DEF Aside
<1>2. Aside(r, Progress(r, e)) /\ e \in Progress(r, e).deltas
  BY <1>1, ProgressAside
<1> QED BY <1>2, AsideFurther

\* The event is of no task and leaves alone what completion rests on, but for progress.
LEMMA KnowsOther ==
    ASSUME NEW c, NEW P, NEW e, Reading(c, P, e), NEW s, Knows(c, P, s), NEW r, Aside(s, r),
           e.type \notin UnitTypes \cup RunTypes \cup ReviewTypes, Material(s, e) => e \in r.deltas
    PROVE  Knows(c, P \cup {e}, r)
BY KnowsAside

LEMMA OnInvariantKnows ==
    ASSUME NEW c, NEW P, NEW e, Reading(c, P, e), e.type \in InvariantTypes, NEW s, Knows(c, P, s)
    PROVE  Knows(c, P \cup {e}, OnInvariant(c, s, e))
<1> DEFINE s1 == [s EXCEPT !.invariants = With(@, e.ref, IF e.type = "invariant.passed" THEN "passed" ELSE "failed")]
           r == OnInvariant(c, s, e)
<1>1. e.type \notin UnitTypes \cup RunTypes \cup ReviewTypes /\ e.type # "contract.completion_verified"
  BY DEF InvariantTypes, UnitTypes, BindingTypes, RunTypes, ReviewTypes
<1>2. Aside(s, s1)
  BY DEF Knows, Aside, Found
<1>3. Authorized(c, e) <=> e.auth /\ e.src = "checkpoint"
  BY DEF Authorized, Reading, Protected
<1>4. CASE Authorized(c, e)
  <2>1. r = Progress(s1, e)
    BY <1>4 DEF OnInvariant
  <2> HIDE DEF s1, r
  <2> QED BY <1>1, <1>2, <2>1, AsideProgress, KnowsOther DEF r
<1>5. CASE ~Authorized(c, e)
  <2>1. r = Gap(s, "INVARIANT_AUTHORITY_UNVERIFIED", e)
    BY <1>5 DEF OnInvariant
  <2>2. Aside(s, r)
    BY <2>1, StepsAside DEF Knows
  <2>3. ~Material(s, e)
    BY <1>3, <1>5 DEF Material, InvariantTypes
  <2> QED BY <1>1, <2>2, <2>3, KnowsOther
<1> QED BY <1>4, <1>5

LEMMA OnAcceptanceKnows ==
    ASSUME NEW c, NEW P, NEW e, Reading(c, P, e), e.type = "acceptance.evaluated", NEW s, Knows(c, P, s)
    PROVE  Knows(c, P \cup {e}, OnAcceptance(c, s, e))
<1> DEFINE new == [state |-> e.val, refs |-> e.refs]
           s1 == [s EXCEPT !.criteria = With(@, e.ref, new)]
           r == OnAcceptance(c, s, e)
<1>1. e.type \notin UnitTypes \cup RunTypes \cup ReviewTypes /\ e.type # "contract.completion_verified"
      /\ ~Material(s, e)
  BY DEF InvariantTypes, UnitTypes, BindingTypes, RunTypes, ReviewTypes, Material
<1>2. Aside(s, s1)
  BY DEF Knows, Aside, Found
<1>3. r \in {s1, Progress(s1, e), Gap(s, "ACCEPTANCE_AUTHORITY_UNVERIFIED", e)}
  BY DEF OnAcceptance
<1> HIDE DEF s1, r
<1>4. Aside(s, Progress(s1, e))
  BY <1>1, <1>2, AsideProgress
<1>5. Aside(s, Gap(s, "ACCEPTANCE_AUTHORITY_UNVERIFIED", e))
  BY StepsAside DEF Knows
<1>6. Aside(s, r)
  BY <1>2, <1>3, <1>4, <1>5
<1> QED BY <1>1, <1>6, KnowsOther DEF r

LEMMA OnTraceKnows ==
    ASSUME NEW c, NEW P, NEW e, Reading(c, P, e), e.type \in TerminalTypes \cup {"trace.opened"}, NEW s, Knows(c, P, s)
    PROVE  Knows(c, P \cup {e}, OnTrace(c, s, e))
<1> DEFINE s1 == [s EXCEPT !.origin = IF @ = None THEN e.at ELSE @]
           s2 == [s EXCEPT !.terminal = e.type, !.ended = e.at]
           r == OnTrace(c, s, e)
<1>1. e.type \notin UnitTypes \cup RunTypes \cup ReviewTypes /\ ~Material(s, e)
  BY DEF TerminalTypes, InvariantTypes, UnitTypes, BindingTypes, RunTypes, ReviewTypes, Material
<1>2. Aside(s, s1) /\ Aside(s, s2) /\ Aside(s, s)
  BY DEF Knows, Aside, Found
<1>3. r \in {s1, s2, s, Gap(s, "TERMINAL_AUTHORITY_UNVERIFIED", e)}
  BY DEF OnTrace
<1> HIDE DEF s1, s2, r
<1>4. Aside(s, r)
  BY <1>2, <1>3, StepsAside DEF Knows
<1> QED BY <1>1, <1>4, KnowsOther DEF r

LEMMA OnHandoffKnows ==
    ASSUME NEW c, NEW P, NEW e, Reading(c, P, e), e.type \in {"handoff.started", "handoff.completed"},
           NEW s, Knows(c, P, s)
    PROVE  Knows(c, P \cup {e}, OnHandoff(s, e))
<1> DEFINE s1 == [s EXCEPT !.handed = e.at]
           r == OnHandoff(s, e)
<1>1. e.type \notin UnitTypes \cup RunTypes \cup ReviewTypes /\ e.type # "contract.completion_verified"
      /\ (Material(s, e) => e.type = "handoff.completed")
  BY DEF InvariantTypes, UnitTypes, BindingTypes, RunTypes, ReviewTypes, Material
<1>2. Aside(s, s1) /\ Aside(s, s)
  BY DEF Knows, Aside, Found
<1>3. r = IF e.type = "handoff.completed" THEN Progress(s1, e) ELSE s
  BY DEF OnHandoff
<1> HIDE DEF s1, r
<1>4. Aside(s, r) /\ (Material(s, e) => e \in r.deltas)
  BY <1>1, <1>2, <1>3, AsideProgress
<1> QED BY <1>1, <1>4, KnowsOther DEF r

LEMMA OnSpanKnows ==
    ASSUME NEW c, NEW P, NEW e, Reading(c, P, e),
           e.type \in {"wait.started", "wait.ended", "clarification.requested", "clarification.resolved",
                       "tool.started", "tool.completed"},
           NEW s, Knows(c, P, s)
    PROVE  Knows(c, P \cup {e}, OnSpan(s, e))
<1> DEFINE key == <<"span", e.ref>>
           cat == CASE e.type = "clarification.requested" -> "owner"
                    [] e.type = "tool.started" -> "active"
                    [] e.val = "owner" -> "owner"
                    [] e.val = "review" -> "asked"
                    [] OTHER -> "other"
           s1 == Ends(s, key, e.at)
           gap == Gap(s, "WAIT_TERMINAL_WITHOUT_START", e)
           r == OnSpan(s, e)
<1>1. e.type \notin UnitTypes \cup RunTypes \cup ReviewTypes /\ e.type # "contract.completion_verified"
      /\ (Material(s, e) => e.type = "clarification.resolved")
  BY DEF InvariantTypes, UnitTypes, BindingTypes, RunTypes, ReviewTypes, Material
<1>2. CASE e.type = "clarification.resolved"
  <2>1. r = Progress(s1, e)
    BY <1>2 DEF OnSpan
  <2>2. Aside(s, s1)
    BY StepsAside DEF Knows
  <2> HIDE DEF s1, r
  <2> QED BY <1>1, <2>1, <2>2, AsideProgress, KnowsOther DEF r
<1>3. CASE e.type # "clarification.resolved"
  <2>1. r \in {s1, Lasted(s1, e), gap, Opens(s, key, cat, e.at)}
    BY <1>3 DEF OnSpan
  <2> HIDE DEF cat, key, r
  <2>2. Aside(s, s1) /\ DOMAIN s = DOMAIN Found
    BY StepsAside DEF Knows
  <2>3. Aside(s1, Lasted(s1, e))
    BY <2>2, StepsAside DEF Aside
  <2>4. Aside(s, r)
    BY <2>1, <2>2, <2>3, StepsAside, AsideFurther
  <2> QED BY <1>1, <1>3, <2>4, KnowsOther DEF r
<1> QED BY <1>2, <1>3

\* What is in the order of the dispatch none of the others
Elsewhere(e) ==
    e.type \notin UnitTypes \cup RunTypes \cup ReviewTypes \cup InvariantTypes \cup TerminalTypes \cup ModelTypes
                  \cup {"acceptance.evaluated", "trace.opened", "handoff.started", "handoff.completed", "wait.started",
                        "wait.ended", "clarification.requested", "clarification.resolved", "tool.started",
                        "tool.completed", "coverage.gap"}

LEMMA OnContractKnows ==
    ASSUME NEW c, NEW P, NEW e, Reading(c, P, e), Elsewhere(e), NEW s, Knows(c, P, s)
    PROVE  Knows(c, P \cup {e}, OnContract(c, s, e))
<1> DEFINE s1 == [s EXCEPT !.executable = TRUE]
           s2 == [s EXCEPT !.persisted = e.at]
           s3 == [s EXCEPT !.execution = IF @ = None THEN e.at ELSE @]
           s4 == [s EXCEPT !.verifications = @ \cup {e}]
           r == OnContract(c, s, e)
<1>1. /\ e.type \notin UnitTypes \cup RunTypes \cup ReviewTypes
      /\ Material(s, e) => e.type = "contract.persisted" \/ (e.type = "decision.recorded" /\ e.val \notin {None, "none"})
  <2>1. /\ e.type \notin UnitTypes /\ e.type \notin RunTypes /\ e.type \notin InvariantTypes
        /\ e.type \notin {"handoff.completed", "clarification.resolved"}
        /\ e.type \notin ReviewTypes
    BY DEF Elsewhere
  <2>2. e.type \notin {"review.approved", "review.changes_requested"}
    BY <2>1 DEF ReviewTypes
  <2> QED BY <2>1, <2>2 DEF Material
<1>2. Aside(s, s1) /\ Aside(s, s2) /\ Aside(s, s3) /\ Aside(s, s)
  BY DEF Knows, Aside, Found
<1>3. /\ DOMAIN s4 = DOMAIN Found /\ s4.units = s.units /\ s4.verified = s.verified
      /\ s4.verifications = s.verifications \cup {e} /\ s4.deltas = s.deltas
  BY DEF Knows, Found
<1>4. CASE e.type = "contract.executable"
  <2>1. r = s1
    BY <1>4 DEF OnContract
  <2> HIDE DEF s1, r
  <2> QED BY <1>1, <1>2, <1>4, <2>1, KnowsOther DEF r
<1>5. CASE e.type = "contract.persisted"
  <2>1. r = Progress(s2, e)
    BY <1>5 DEF OnContract
  <2> HIDE DEF s2, r
  <2> QED BY <1>1, <1>2, <1>5, <2>1, AsideProgress, KnowsOther DEF r
<1>6. CASE e.type = "contract.execution_started"
  <2>1. r = s3
    BY <1>6 DEF OnContract
  <2> HIDE DEF s3, r
  <2> QED BY <1>1, <1>2, <1>6, <2>1, KnowsOther DEF r
<1>7. CASE e.type = "contract.completion_verified" /\ e.st = "verified" /\ Authorized(c, e)
  <2>1. r = Progress(s4, e)
    BY <1>7 DEF OnContract
  <2> HIDE DEF s4, r
  <2>2. Aside(s4, r)
    BY <1>3, <2>1, StepsAside
  <2>3. e.auth /\ e.src = "checkpoint"
    BY <1>7 DEF Authorized, Protected
  <2>4. Onward(s, r, e) /\ \A k : UnitOf(r, k) = UnitOf(s, k) /\ ~Speaks(r, k, e)
    BY <1>1, <1>3, <2>2 DEF Onward, Aside, UnitOf, Speaks
  <2>5. ~Material(r, e)
    BY <1>7 DEF Material, InvariantTypes
  <2> QED BY <1>3, <1>7, <2>2, <2>3, <2>4, <2>5, KnowsUnit DEF Aside, r
<1>8. CASE e.type = "contract.completion_verified" /\ ~(e.st = "verified" /\ Authorized(c, e))
  <2>1. r = Gap(s, "COMPLETION_AUTHORITY_UNVERIFIED", e)
    BY <1>8 DEF OnContract
  <2>2. Aside(s, r)
    BY <2>1, StepsAside DEF Knows
  <2> QED BY <1>1, <1>8, <2>2, KnowsOther
<1>9. CASE e.type \notin {"contract.executable", "contract.persisted", "contract.execution_started",
                         "contract.completion_verified"}
  <2>1. r = IF e.val \notin {None, "none"} THEN Progress(s, e) ELSE s
    BY <1>9 DEF OnContract
  <2> HIDE DEF r
  <2>2. Aside(s, r) /\ (Material(s, e) => e \in r.deltas)
    BY <1>1, <1>2, <1>9, <2>1, AsideProgress
  <2> QED BY <1>1, <2>2, KnowsOther DEF r
<1> QED BY <1>4, <1>5, <1>6, <1>7, <1>8, <1>9

LEMMA DispatchKnows ==
    ASSUME NEW c, NEW P, NEW e, Reading(c, P, e), NEW s, Knows(c, P, s)
    PROVE  Knows(c, P \cup {e}, Dispatch(c, s, e))
<1>1. CASE ~Reads(e)
  <2>1. Dispatch(c, s, e) = Gap(s, "TASK_WORK_UNIT_MISMATCH", e)
    BY <1>1 DEF Dispatch, Reads
  <2>2. Aside(s, Gap(s, "TASK_WORK_UNIT_MISMATCH", e))
    BY StepsAside DEF Knows
  <2>3. ~Material(s, e)
    BY <1>1 DEF Material
  <2> QED BY <1>1, <2>1, <2>2, <2>3, KnowsAside
<1> SUFFICES ASSUME Reads(e) PROVE Knows(c, P \cup {e}, Dispatch(c, s, e))
  BY <1>1
<1>2. ~(e.env # None /\ e.task # None /\ e.env # e.task)
  BY DEF Reads
<1>3. CASE e.type \in UnitTypes
  <2>1. Dispatch(c, s, e) = OnWorkUnit(c, s, e)
    BY <1>2, <1>3 DEF Dispatch, ModelTypes, TerminalTypes, InvariantTypes, ReviewTypes, RunTypes, UnitTypes, BindingTypes
  <2> QED BY <1>3, <2>1, OnWorkUnitKnows
<1>4. CASE e.type \in RunTypes
  <2>1. Dispatch(c, s, e) = OnRun(c, s, e)
    BY <1>2, <1>4 DEF Dispatch, ModelTypes, TerminalTypes, InvariantTypes, ReviewTypes, RunTypes, UnitTypes, BindingTypes
  <2> QED BY <1>4, <2>1, OnRunKnows
<1>5. CASE e.type \in ReviewTypes
  <2>1. Dispatch(c, s, e) = OnReview(c, s, e)
    BY <1>2, <1>5 DEF Dispatch, ModelTypes, TerminalTypes, InvariantTypes, ReviewTypes, RunTypes, UnitTypes, BindingTypes
  <2> QED BY <1>5, <2>1, OnReviewKnows
<1>6. CASE e.type \in InvariantTypes
  <2>1. Dispatch(c, s, e) = OnInvariant(c, s, e)
    BY <1>2, <1>6 DEF Dispatch, ModelTypes, TerminalTypes, InvariantTypes, ReviewTypes, RunTypes, UnitTypes, BindingTypes
  <2> QED BY <1>6, <2>1, OnInvariantKnows
<1>7. CASE e.type = "acceptance.evaluated"
  <2>1. Dispatch(c, s, e) = OnAcceptance(c, s, e)
    BY <1>2, <1>7 DEF Dispatch, ModelTypes, TerminalTypes, InvariantTypes, ReviewTypes, RunTypes, UnitTypes, BindingTypes
  <2> QED BY <1>7, <2>1, OnAcceptanceKnows
<1>8. CASE e.type \in TerminalTypes \cup {"trace.opened"}
  <2>1. Dispatch(c, s, e) = OnTrace(c, s, e)
    BY <1>2, <1>8 DEF Dispatch, ModelTypes, TerminalTypes, InvariantTypes, ReviewTypes, RunTypes, UnitTypes, BindingTypes
  <2> QED BY <1>8, <2>1, OnTraceKnows
<1>9. CASE e.type \in {"handoff.started", "handoff.completed"}
  <2>1. Dispatch(c, s, e) = OnHandoff(s, e)
    BY <1>2, <1>9 DEF Dispatch, ModelTypes, TerminalTypes, InvariantTypes, ReviewTypes, RunTypes, UnitTypes, BindingTypes
  <2> QED BY <1>9, <2>1, OnHandoffKnows
<1>10. CASE e.type \in {"wait.started", "wait.ended", "clarification.requested", "clarification.resolved",
                        "tool.started", "tool.completed"}
  <2>1. Dispatch(c, s, e) = OnSpan(s, e)
    BY <1>2, <1>10 DEF Dispatch, ModelTypes, TerminalTypes, InvariantTypes, ReviewTypes, RunTypes, UnitTypes, BindingTypes
  <2> QED BY <1>10, <2>1, OnSpanKnows
<1>11. CASE e.type = "coverage.gap"
  <2>1. Dispatch(c, s, e) = Gap(s, e.val, e)
    BY <1>2, <1>11 DEF Dispatch, ModelTypes, TerminalTypes, InvariantTypes, ReviewTypes, RunTypes, UnitTypes, BindingTypes
  <2>2. Aside(s, Gap(s, e.val, e))
    BY StepsAside DEF Knows
  <2>3. e.type \notin UnitTypes \cup RunTypes \cup ReviewTypes /\ ~Material(s, e)
    BY <1>11 DEF Material, InvariantTypes, ReviewTypes, RunTypes, UnitTypes, BindingTypes
  <2> QED BY <2>1, <2>2, <2>3, KnowsOther
<1>12. CASE Elsewhere(e)
  <2>1. Dispatch(c, s, e) = OnContract(c, s, e)
    BY <1>2, <1>12 DEF Dispatch, Elsewhere
  <2> QED BY <1>12, <2>1, OnContractKnows
<1>13. CASE e.type \in ModelTypes
  <2>1. Dispatch(c, s, e) = Lasted(s, e)
    BY <1>2, <1>13 DEF Dispatch, ModelTypes, TerminalTypes, InvariantTypes, ReviewTypes, RunTypes, UnitTypes, BindingTypes
  <2>2. Aside(s, Lasted(s, e))
    BY StepsAside DEF Knows
  <2>3. e.type \notin UnitTypes \cup RunTypes \cup ReviewTypes /\ ~Material(s, e)
    BY <1>13 DEF Material, ModelTypes, InvariantTypes, ReviewTypes, RunTypes, UnitTypes, BindingTypes
  <2> QED BY <1>13, <2>1, <2>2, <2>3, KnowsOther DEF ModelTypes
<1>14. Elsewhere(e) \/ e.type \in ModelTypes \/ e.type \in UnitTypes \/ e.type \in RunTypes \/ e.type \in ReviewTypes
       \/ e.type \in InvariantTypes \/ e.type = "acceptance.evaluated" \/ e.type \in TerminalTypes \cup {"trace.opened"}
       \/ e.type \in {"handoff.started", "handoff.completed"} \/ e.type = "coverage.gap"
       \/ e.type \in {"wait.started", "wait.ended", "clarification.requested", "clarification.resolved",
                      "tool.started", "tool.completed"}
  BY DEF Elsewhere
<1> QED BY <1>3, <1>4, <1>5, <1>6, <1>7, <1>8, <1>9, <1>10, <1>11, <1>12, <1>13, <1>14

\* What was found when every event has been read, in an order that keeps what precedes what
LEMMA FoldKnows ==
    ASSUME NEW c, Identified(c.events), Twice(c.events) = {}, Rooted(c.events), \A i : <<"authority", i>> \notin c.open
    PROVE  Knows(c, c.events, Scanning!Fold(c, Found, CausalOrder(c.events)))
<1> DEFINE S == c.events
           s == CausalOrder(S)
           n == Cardinality(S)
<1>1. Causal(S, s, n) /\ Range(s) = S /\ n \in Nat
  BY CausalSorts, FS_CardinalityType DEF Identified
<1> HIDE DEF s, n
<1>2. DOMAIN s = 1..n /\ S = Prefix(s, n) /\ \A i \in 1..n : s[i] \in S
  BY <1>1, LenProperties DEF Causal, Range, Prefix
<1>3. PICK acc : Scanning!Trajectory(acc, c, Found, s, n) /\ Scanning!Fold(c, Found, s) = acc[n]
  BY <1>1, <1>2, Scanning!FoldGoes
<1>4. acc[0] = Found /\ \A k \in 1..n : acc[k] = Dispatch(c, acc[k - 1], s[k])
  BY <1>3 DEF Scanning!Trajectory
<1>5. ASSUME NEW k \in 0..n
      PROVE  Prefix(s, k) \subseteq S /\ Down(S, Prefix(s, k))
  <2>1. Prefix(s, k) \in SUBSET S
    <3>1. \A i \in 1..k : s[i] \in S
      BY <1>1, <1>2
    <3> QED BY <3>1 DEF Prefix
  <2>2. Closed(S, Prefix(s, k))
    BY <1>1 DEF Causal
  <2> QED BY <2>1, <2>2, ClosedPrecedes DEF Down
<1> DEFINE T == {k \in Nat : k <= n => Knows(c, Prefix(s, k), acc[k])}
<1>6. 0 \in T
  <2>1. Prefix(s, 0) = {}
    BY DEF Prefix
  <2> QED BY <1>4, <2>1, NothingKnown
<1>7. ASSUME NEW k \in Nat, k \in T
      PROVE  k + 1 \in T
  <2> SUFFICES ASSUME k + 1 <= n PROVE Knows(c, Prefix(s, k + 1), acc[k + 1])
    OBVIOUS
  <2>1. k + 1 \in 1..n /\ k + 1 - 1 = k /\ k \in 0..n /\ k + 1 \in 0..n /\ Knows(c, Prefix(s, k), acc[k])
    BY <1>1, <1>7
  <2>2. acc[k + 1] = Dispatch(c, acc[k], s[k + 1]) /\ s[k + 1] \in S
    BY <1>2, <1>4, <2>1
  <2>3. Prefix(s, k + 1) = Prefix(s, k) \cup {s[k + 1]}
    <3>1. 1..k + 1 = (1..k) \cup {k + 1}
      OBVIOUS
    <3> QED BY <3>1 DEF Prefix
  <2>4. s[k + 1] \notin Prefix(s, k)
    BY <1>1, <2>1 DEF Causal
  <2>5. Reading(c, Prefix(s, k), s[k + 1])
    <3>1. Prefix(s, k) \subseteq S /\ Down(S, Prefix(s, k)) /\ Down(S, Prefix(s, k) \cup {s[k + 1]})
      BY <1>5, <2>1, <2>3
    <3> QED BY <2>2, <2>4, <3>1 DEF Reading
  <2> QED BY <2>1, <2>2, <2>3, <2>5, DispatchKnows
<1> HIDE DEF T
<1>8. Nat \subseteq T
  BY <1>6, <1>7, Scanning!Induction
<1>9. Knows(c, Prefix(s, n), acc[n])
  BY <1>1, <1>8 DEF T
<1> QED BY <1>2, <1>3, <1>9 DEF s

-----------------------------------------------------------------------------
(* What a completed trace has shown *)

LEMMA SoleOf ==
    ASSUME NEW X, IsFiniteSet(X), ~(Cardinality(X) > 1), NEW d
    PROVE  (X = {} /\ Sole(X, d) = d) \/ \E x : X = {x} /\ Sole(X, d) = x
<1>1. Cardinality(X) \in Nat
  BY FS_CardinalityType
<1>2. CASE Cardinality(X) = 0
  <2>1. X = {}
    BY <1>2, FS_EmptySet
  <2> QED BY <1>2, <2>1 DEF Sole
<1>3. CASE Cardinality(X) = 1
  <2>1. PICK x : X = {x}
    BY <1>3, FS_Singleton
  <2> QED BY <1>3, <2>1 DEF Sole
<1> QED BY <1>1, <1>2, <1>3

\* What describes a task agrees, and says what the task is taken for.
LEMMA Classified ==
    ASSUME NEW c, NEW t, NEW u, Pictured(c, c.events, t, u), ~Contradicted(u), Cardinality(u.claimed) <= 1,
           Cardinality(u.bindings) <= 1, <<"binding", t>> \notin c.open, RequiredOf(c, t, u) # None
    PROVE  LET about == {e \in c.events : Describes(c.events, t, e)}
           IN /\ {e.req : e \in about} \ {None} = {RequiredOf(c, t, u)}
              /\ {e.rel : e \in about} \ {"unknown"} \subseteq {RelationOf(c, t, u)}
<1> DEFINE S == c.events
           about == {e \in S : Describes(S, t, e)}
           req == RequiredOf(c, t, u)
           rel == RelationOf(c, t, u)
<1>1. ~Neutral(c, t, u)
  <2>1. Cardinality(u.claimed) \in Nat /\ Cardinality(u.bindings) \in Nat
    BY FS_CardinalityType DEF Pictured, Finite
  <2> QED BY <2>1 DEF Neutral
<1>2. /\ req = IF u.products # {} THEN Sole(u.products, None)[2] ELSE Sole(u.requirements, None)
      /\ rel = IF u.products # {} THEN Sole(u.products, None)[1] ELSE Sole(u.relations, "unknown")
  BY <1>1 DEF RequiredOf, RelationOf
<1>3. \A e : Describes(S, t, e) <=> Natively(t, e) \/ Product(S, t, e)
  BY DEF Describes, Natively, Product
<1>4. /\ \A x : x \in u.relations <=> x # "unknown" /\ \E e \in S : Natively(t, e) /\ e.rel = x
      /\ \A x : x \in u.requirements <=> x # None /\ \E e \in S : Natively(t, e) /\ e.req = x
      /\ \A x : x \in u.products <=> \E e \in S : Product(S, t, e) /\ x = <<e.rel, e.req>>
  BY DEF Pictured
<1>5. /\ ~(Cardinality(u.products) > 1) /\ ~(Cardinality(u.relations) > 1) /\ ~(Cardinality(u.requirements) > 1)
      /\ \A p \in u.products : (\A r \in u.relations : r = p[1]) /\ (\A r \in u.requirements : r = p[2])
  BY DEF Contradicted
<1>6. IsFiniteSet(u.products) /\ IsFiniteSet(u.relations) /\ IsFiniteSet(u.requirements)
  BY DEF Pictured, Finite
<1> HIDE DEF req, rel
<1>7. /\ \A e \in S : Natively(t, e) => e.req \in {None, req} /\ e.rel \in {"unknown", rel}
      /\ \A e \in S : Product(S, t, e) => e.req = req /\ e.rel = rel
      /\ \E e \in S : (Natively(t, e) \/ Product(S, t, e)) /\ e.req = req
  <2>1. CASE u.products # {}
    <3>1. PICK p : u.products = {p} /\ Sole(u.products, None) = p
      BY <1>5, <1>6, <2>1, SoleOf
    <3>2. req = p[2] /\ rel = p[1]
      BY <1>2, <2>1, <3>1
    <3>3. PICK e \in S : Product(S, t, e) /\ p = <<e.rel, e.req>>
      BY <1>4, <3>1
    <3>4. ASSUME NEW f \in S, Natively(t, f)
          PROVE  f.req \in {None, req} /\ f.rel \in {"unknown", rel}
      <4>1. (f.req # None => f.req \in u.requirements) /\ (f.rel # "unknown" => f.rel \in u.relations)
        BY <1>4, <3>4
      <4> QED BY <1>5, <3>1, <3>2, <4>1
    <3>5. ASSUME NEW f \in S, Product(S, t, f)
          PROVE  f.req = req /\ f.rel = rel
      <4>1. <<f.rel, f.req>> = p
        BY <1>4, <3>1, <3>5
      <4> QED BY <3>2, <4>1
    <3> QED BY <3>3, <3>4, <3>5
  <2>2. CASE u.products = {}
    <3>1. req = Sole(u.requirements, None) /\ rel = Sole(u.relations, "unknown")
      BY <1>2, <2>2
    <3>2. u.requirements = {req}
      BY <1>5, <1>6, <3>1, SoleOf DEF req
    <3>3. u.relations \subseteq {rel}
      BY <1>5, <1>6, <3>1, SoleOf
    <3>4. \A f \in S : ~Product(S, t, f)
      BY <1>4, <2>2
    <3> QED BY <1>4, <3>2, <3>3, <3>4
  <2> QED BY <2>1, <2>2
<1>8. req # None
  BY DEF req
<1>9. {e.req : e \in about} \ {None} = {req}
  BY <1>3, <1>7, <1>8
<1>10. {e.rel : e \in about} \ {"unknown"} \subseteq {rel}
  BY <1>3, <1>7
<1> QED BY <1>9, <1>10 DEF req, rel

\* A fresh verification follows what was progress.
Verifies(s, v) ==
    /\ v \in s.c.events /\ v.type = "contract.completion_verified" /\ v.st = "verified" /\ v.auth /\ v.src = "checkpoint"
    /\ \A d \in s.deltas : Precedes(s.c.events, d, v)
    /\ \A d \in s.c.events : Material(s, d) => d \in s.deltas

LEMMA DoneVerified ==
    ASSUME NEW s, NEW v, Verifies(s, v), NEW t, DoneIn(s.c, s.c.events, s, t)
    PROVE  DoneBefore(s, t, v)
BY DEF Verifies, DoneIn, DoneBefore

LEMMA ApprovedVerified ==
    ASSUME NEW s, NEW v, Verifies(s, v), NEW t, ApprovedIn(s.c, s.c.events, s, t)
    PROVE  ReviewedBefore(s, t, v)
<1> DEFINE S == s.c.events
<1>1. PICK a \in S : /\ Speaks(s, t, a) /\ a.type = "review.approved" /\ a.auth
                     /\ \E q : Requested(S, s, t, q) /\ q.binding = a.binding /\ Precedes(S, q, a)
                     /\ \E b \in Bindings(S, t) : /\ b.type = "work_unit.bound" /\ b.profile = a.profile
                                                  /\ b.binding = a.binding /\ Precedes(S, b, a)
                     /\ \A f \in S : Speaks(s, t, f) /\ f.type \in {"review.requested", "review.changes_requested"}
                                     => ~Precedes(S, a, f)
  BY DEF ApprovedIn
<1>2. PICK q : Requested(S, s, t, q) /\ q.binding = a.binding /\ Precedes(S, q, a)
  BY <1>1
<1>3. Material(s, a)
  BY <1>1 DEF Speaks, Material, UnitTypes, BindingTypes, RunTypes
<1>4. Precedes(S, a, v)
  BY <1>3 DEF Verifies
<1> DEFINE Of(type) == {e \in S : e.type = type /\ e.auth /\ Speaks(s, t, e)}
<1>5. a \in Of("review.approved") /\ q \in Of("review.requested")
  BY <1>1, <1>2 DEF Requested
<1>6. ~\E f \in Of("review.requested") \cup Of("review.changes_requested") : Precedes(S, a, f)
  BY <1>1
<1>7. \E b \in Bindings(S, t) : /\ b.type = "work_unit.bound" /\ b.profile = a.profile
                                /\ b.binding = a.binding /\ Precedes(S, b, a)
  BY <1>1
<1> HIDE DEF S
<1> QED BY <1>2, <1>4, <1>5, <1>6, <1>7 DEF ReviewedBefore, S

\* What was found and what it is derived from, as the scan returns them
LEMMA WithKnows ==
    ASSUME NEW c, NEW f, Knows(c, c.events, f)
    PROVE  LET s == With(f, "c", c)
           IN /\ s.c = c /\ s.units = f.units /\ s.deltas = f.deltas /\ s.verified = f.verified
              /\ s.verifications = f.verifications
              /\ \A d \in c.events : Material(s, d) => d \in s.deltas
              /\ \A t : Tells(c, c.events, s, t, UnitOf(s, t))
<1> DEFINE s == With(f, "c", c)
<1>1. /\ s.c = c /\ s.units = f.units /\ s.deltas = f.deltas /\ s.verified = f.verified
      /\ s.verifications = f.verifications
  BY DEF Knows, Found, With
<1> HIDE DEF s
<1>2. \A d : Material(s, d) <=> Material(f, d)
  BY <1>1 DEF Material
<1>3. \A t, e : Speaks(s, t, e) <=> Speaks(f, t, e)
  BY <1>1 DEF Speaks
<1>4. ASSUME NEW t
      PROVE  Tells(c, c.events, s, t, UnitOf(s, t))
  <2>1. Tells(c, c.events, f, t, UnitOf(f, t)) /\ UnitOf(s, t) = UnitOf(f, t)
    BY <1>1 DEF Knows, UnitOf
  <2>2. DoneIn(c, c.events, f, t) => DoneIn(c, c.events, s, t)
    BY <1>1, <1>3 DEF DoneIn
  <2>3. \A q : Requested(c.events, f, t, q) <=> Requested(c.events, s, t, q)
    BY <1>3 DEF Requested
  <2>4. ApprovedIn(c, c.events, f, t) => ApprovedIn(c, c.events, s, t)
    BY <1>3, <2>3 DEF ApprovedIn
  <2> QED BY <2>1, <2>2, <2>3, <2>4 DEF Tells
<1> QED BY <1>1, <1>2, <1>4 DEF Knows, s

\* What a completed trace has shown of a task that is bound
LEMMA TaskProven ==
    ASSUME NEW s, NEW v, Verifies(s, v), \A i : <<"authority", i>> \notin s.c.open, GraphSettled(s),
           NEW t, Tells(s.c, s.c.events, s, t, UnitOf(s, t)), IsBound(s.c.events, t)
    PROVE  TaskShown(s, t, v)
<1> DEFINE u == UnitOf(s, t)
           S == s.c.events
           about == {e \in S : Describes(S, t, e)}
           required == {e.req : e \in about} \ {None}
           related == {e.rel : e \in about} \ {"unknown"}
<1>1. u.bound
  <2>1. Bound(S, S, t)
    BY DEF IsBound, Bound
  <2> QED BY <2>1 DEF Tells, Pictured
<1>2. t \in Units(s) /\ u = s.units[t] /\ t \in DOMAIN s.units
  BY <1>1 DEF Units, UnitOf, NewUnit
<1> HIDE DEF u
<1>3. /\ ~Contradicted(u) /\ Cardinality(u.claimed) <= 1 /\ Cardinality(u.bindings) <= 1
      /\ <<"binding", t>> \notin s.c.open /\ RequiredOf(s.c, t, u) # None
      /\ t \in Required(s) => u.status = "done" /\ u.review \in {"approved", "not_required"}
  <2>1. GraphWhole(s)
    BY DEF GraphSettled
  <2>2. <<"binding", t>> \notin s.c.open
    <3>1. <<"binding", t>>[1] # "authority"
      OBVIOUS
    <3> QED BY <2>1, <3>1 DEF GraphWhole
  <2>3. ~Contradicted(u) /\ Cardinality(u.claimed) <= 1 /\ Cardinality(u.bindings) <= 1
    BY <1>2, <2>1 DEF GraphWhole
  <2>4. RequiredOf(s.c, t, u) # None
    BY <1>2 DEF GraphSettled
  <2>5. t \in Required(s) => u.status = "done" /\ u.review \in {"approved", "not_required"}
    BY <1>2 DEF GraphSettled
  <2> QED BY <2>2, <2>3, <2>4, <2>5
<1>4. required = {RequiredOf(s.c, t, u)} /\ related \subseteq {RelationOf(s.c, t, u)}
  <2>1. Pictured(s.c, S, t, u)
    BY DEF Tells, u
  <2> QED BY <1>3, <2>1, Classified
<1> HIDE DEF required, related
<1>5. Cardinality(required) = 1
  BY <1>4, FS_Singleton
<1>6. Cardinality(related) <= 1
  <2>1. CASE related = {}
    BY <2>1, FS_EmptySet
  <2>2. CASE related # {}
    <3>1. related = {RelationOf(s.c, t, u)}
      BY <1>4, <2>2
    <3>2. Cardinality(related) = 1
      BY <3>1, FS_Singleton
    <3> QED BY <3>2
  <2> QED BY <2>1, <2>2
<1>7. ASSUME TRUE \in required
      PROVE  u.status = "done" /\ u.review \in {"approved", "not_required"}
  <2>1. RequiredOf(s.c, t, u) = TRUE
    BY <1>4, <1>7
  <2>2. t \in Required(s)
    BY <1>2, <2>1 DEF Required
  <2> QED BY <1>3, <2>2
<1>8. TRUE \in required => DoneBefore(s, t, v)
  BY <1>7, DoneVerified DEF Tells, u
<1>9. ASSUME TRUE \in required, "review" \in related
      PROVE  ReviewedBefore(s, t, v)
  <2>1. u.review # "not_required"
    BY <1>4, <1>9 DEF Tells, u
  <2>2. u.review = "approved"
    BY <1>7, <1>9, <2>1
  <2>3. ApprovedIn(s.c, S, s, t)
    BY <2>2 DEF Tells, u
  <2> QED BY <2>3, ApprovedVerified
<1> QED BY <1>5, <1>6, <1>8, <1>9 DEF TaskShown, required, related

\* A trace whose producers do not contradict themselves is completed only on evidence that does not
\* depend on the scan: a verification that all progress precedes, tasks that were done before it with
\* no later word to the contrary, and reviews by those who were bound and asked.
THEOREM CompletionRestsOnEvidence == SummarySpec => []CompletedIsProven
<1>1. ASSUME Known
      PROVE  CompletedIsProven
  <2> DEFINE c == Dedupe(log)
             S == c.events
             found == Scanning!Fold(c, Found, CausalOrder(S))
             s == Scan(log)
  <2>1. Identified(stored) /\ IsFiniteSet(stored)
    BY <1>1, StoredIdentified DEF Identified
  <2>2. /\ Cardinality(stored) \in Nat /\ DOMAIN log = 1..Cardinality(stored)
        /\ Range(log) = stored /\ log \in Seq(stored)
    BY <2>1, ReaderSorts, SortedHolds DEF log, Reader
  <2>3. S = Kept(stored, NamedBy(stored))
        /\ c.open = StatusOpen(stored) \cup Ambiguities(Twice(S))
    BY <2>1, <2>2, DedupeOf
  <2>4. Identified(S)
    <3>1. Kept(stored, NamedBy(stored)) \subseteq stored
      BY DEF Kept
    <3> QED BY <2>1, <2>3, <3>1, SubsetIdentified
  <2>5. s = With(found, "c", c)
    BY DEF Scan, FoldLeft, MapThenFoldSet, Max, Scanning!Fold, Scanning!Top
  <2> HIDE DEF c, s
  <2>6. Scanned(S, found)
    BY <2>4, FoldScanned
  <2>7. s.terminal \in TerminalTypes \cup {None} /\ s.c = c
    <3> HIDE DEF found, S
    <3>1. s.terminal = found.terminal /\ s.c = c
      BY <2>5, <2>6, WithScanned
    <3> QED BY <2>6, <3>1 DEF Scanned
  <2> SUFFICES ASSUME Completion(s) = "completed", Consistent(s.c.events)
               PROVE  \E v \in s.c.events : Verifies(s, v) /\ \A t : IsBound(s.c.events, t) => TaskShown(s, t, v)
    BY DEF CompletedIsProven, Verifies, s
  <2>8. GraphSettled(s) /\ Fresh(s) # {}
    BY <2>7 DEF Completion, TerminalTypes
  <2>9. Twice(S) = {} /\ Rooted(S)
    BY <2>4, <2>7, ConsistentRooted DEF Consistent
  <2>10. \A i : <<"authority", i>> \notin c.open
    <3>1. Ambiguities({}) = {}
      BY DEF Ambiguities
    <3>2. c.open = StatusOpen(stored)
      BY <2>3, <2>9, <3>1
    <3>3. \A i : <<"authority", i>> \notin StatusOpen(stored)
      BY DEF StatusOpen
    <3> QED BY <3>2, <3>3
  <2>11. Knows(c, S, found)
    BY <2>4, <2>9, <2>10, FoldKnows
  <2> HIDE DEF found
  <2>12. /\ s.verifications = found.verifications
         /\ \A d \in S : Material(s, d) => d \in s.deltas
         /\ \A t : Tells(c, S, s, t, UnitOf(s, t))
    BY <2>5, <2>11, WithKnows
  <2>13. PICK v \in Fresh(s) : TRUE
    BY <2>8
  <2>14. Verifies(s, v)
    BY <2>7, <2>11, <2>12 DEF Verifies, Fresh, Knows
  <2>15. ASSUME NEW t, IsBound(s.c.events, t)
         PROVE  TaskShown(s, t, v)
    <3>1. Tells(s.c, s.c.events, s, t, UnitOf(s, t)) /\ \A i : <<"authority", i>> \notin s.c.open
      BY <2>7, <2>10, <2>12
    <3> QED BY <2>8, <2>14, <2>15, <3>1, TaskProven
  <2>16. v \in s.c.events
    BY <2>14 DEF Verifies
  <2> QED BY <2>14, <2>15, <2>16
<1> QED BY <1>1, AlwaysKnown, PTL

-----------------------------------------------------------------------------
(* Waves: the sweep over the moments spans open and close                   *)

TakeLess(S, acc, i) ==
    Append(acc, CHOOSE e \in S \ Range(acc) : \A f \in S \ Range(acc) : f = e \/ e < f)
ByMoment == INSTANCE FoldFacts WITH Op <- TakeLess

MomentOrder(S) == {p \in S \X S : p[1] < p[2]}

LEMMA MomentsSort ==
    ASSUME NEW S, S \subseteq Nat, IsFiniteSet(S)
    PROVE  Sorted(InOrder(S, <), S, MomentOrder(S))
<1> DEFINE n == Cardinality(S)
<1>1. n \in Nat /\ DOMAIN Upto(n) = 1..n /\ \A i \in 1..n : Upto(n)[i] = i
  BY FS_CardinalityType DEF Upto
<1>2. InOrder(S, <) = ByMoment!Fold(S, <<>>, Upto(n))
  BY DEF InOrder, FoldLeft, MapThenFoldSet, Max, ByMoment!Fold, ByMoment!Top, TakeLess, Upto
<1> HIDE DEF n
<1>3. PICK acc : /\ ByMoment!Trajectory(acc, S, <<>>, Upto(n), n)
                 /\ ByMoment!Fold(S, <<>>, Upto(n)) = acc[n]
  BY <1>1, ByMoment!FoldGoes
<1>4. acc[0] = <<>> /\ \A k \in 1..n : acc[k] = TakeLess(S, acc[k - 1], k)
  BY <1>1, <1>3 DEF ByMoment!Trajectory
<1>5. \A e, f \in S : <<e, f>> \in MomentOrder(S) <=> e < f
  BY DEF MomentOrder
<1>6. \A k \in 1..n : \A e \in S \ Range(acc[k - 1]) :
          (\A f \in S \ Range(acc[k - 1]) : f = e \/ <<e, f>> \in MomentOrder(S)) =>
          \E g \in S \ Range(acc[k - 1]) : /\ acc[k] = Append(acc[k - 1], g)
                                            /\ \A f \in S \ Range(acc[k - 1]) : f = g \/ <<g, f>> \in MomentOrder(S)
  BY <1>4, <1>5 DEF TakeLess
<1>7. Linear(S, MomentOrder(S)) /\ n = Cardinality(S)
  BY <1>5 DEF Linear, n
<1>8. Sorted(acc[n], S, MomentOrder(S))
  BY <1>4, <1>6, <1>7, TakingSorts
<1> QED BY <1>2, <1>3, <1>8

\* The moments before the next one are those that were read.
Until(s, k) == {s[x] : x \in 1..k}

LEMMA MomentNext ==
    ASSUME NEW S, S \subseteq Nat, IsFiniteSet(S), NEW s, Sorted(s, S, MomentOrder(S)),
           NEW k \in 1..Cardinality(S)
    PROVE  /\ s[k] \in S /\ Until(s, k) = Until(s, k - 1) \cup {s[k]} /\ Until(s, k - 1) \subseteq Nat
           /\ \A m \in Until(s, k - 1) : m < s[k]
           /\ \A m \in S : m < s[k] => m \in Until(s, k - 1)
<1> DEFINE n == Cardinality(S)
<1>1. n \in Nat /\ k \in 1..n
  BY FS_CardinalityType
<1>2. s \in [1..n -> S] /\ {s[i] : i \in 1..n} = S
  BY DEF Sorted
<1>3. \A i, j \in 1..n : i < j => s[i] < s[j]
  BY DEF Sorted, MomentOrder
<1> HIDE DEF n
<1>4. 1..k = (1..k - 1) \cup {k} /\ 1..k - 1 \subseteq 1..n /\ \A i \in 1..k - 1 : i < k
  BY <1>1
<1>5. \A m \in Until(s, k - 1) : m \in Nat /\ m < s[k]
  BY <1>1, <1>2, <1>3, <1>4 DEF Until
<1>6. ASSUME NEW m \in S, m < s[k]
      PROVE  m \in Until(s, k - 1)
  <2>1. PICK i \in 1..n : m = s[i]
    BY <1>2
  <2>2. ~(k < i) /\ i # k
    <3>1. s[k] \in Nat /\ s[i] \in Nat /\ s[i] < s[k] /\ (k < i => s[k] < s[i])
      BY <1>1, <1>2, <1>3, <1>6, <2>1
    <3> QED BY <2>1, <3>1
  <2>3. i \in 1..k - 1
    BY <1>1, <2>2
  <2> QED BY <2>1, <2>3 DEF Until
<1> QED BY <1>1, <1>2, <1>4, <1>5, <1>6 DEF Until

SweepAt(spans, acc, m) ==
    LET opens == Cardinality({s \in spans : s[2] = m /\ s[3] # m})
        closes == Cardinality({s \in spans : s[3] = m /\ s[2] # m})
        instants == Cardinality({s \in spans : s[2] = m /\ s[3] = m})
        now == Max({0, acc.now - closes})
    IN [peak |-> Max({acc.peak, now + opens + instants}), now |-> now + opens]
Sweeping == INSTANCE FoldFacts WITH Op <- SweepAt

Spans(S) == /\ IsFiniteSet(S)
            /\ \A s \in S : s[2] \in Nat /\ (s[3] = None \/ (s[3] \in Nat /\ s[2] <= s[3]))
Under(S, R) == {s \in S : s[2] \in R /\ s[3] \notin R /\ s[2] # s[3]}

LEMMA DisjointCount ==
    ASSUME NEW S, IsFiniteSet(S), NEW A \in SUBSET S, NEW B \in SUBSET S, A \cap B = {}
    PROVE  /\ Cardinality(A \cup B) = Cardinality(A) + Cardinality(B)
           /\ Cardinality(A) \in Nat /\ Cardinality(B) \in Nat
<1>1. IsFiniteSet(A) /\ IsFiniteSet(B)
  BY FS_Subset
<1>2. Cardinality(A \cap B) = 0
  BY FS_EmptySet
<1>3. Cardinality(A) \in Nat /\ Cardinality(B) \in Nat
  BY <1>1, FS_CardinalityType
<1>4. Cardinality(A \cup B) = Cardinality(A) + Cardinality(B) - Cardinality(A \cap B)
  BY <1>1, FS_Union
<1> QED BY <1>2, <1>3, <1>4

\* Reading the next moment counts the spans that are under way at it.
LEMMA SweepCounts ==
    ASSUME NEW S, Spans(S), NEW R \in SUBSET Nat, NEW m \in Nat, \A x \in R : x < m,
           \A s \in S : /\ s[2] < m => s[2] \in R
                        /\ s[3] \in Nat /\ s[3] < m => s[3] \in R,
           NEW acc, acc.now = Cardinality(Under(S, R)), acc.peak \in Nat
    PROVE  /\ SweepAt(S, acc, m).now = Cardinality(Under(S, R \cup {m}))
           /\ SweepAt(S, acc, m).peak = Max({acc.peak, Cardinality(During(S, m))})
<1> DEFINE A == Under(S, R)
           O == {s \in S : s[2] = m /\ s[3] # m}
           C == {s \in S : s[3] = m /\ s[2] # m}
           I == {s \in S : s[2] = m /\ s[3] = m}
           D == A \ C
<1>1. None \notin Nat /\ IsFiniteSet(S) /\ m \notin R
  BY TraceAssumption DEF Spans
<1>2. \A s \in S : s[2] \in Nat /\ (s[3] = None \/ (s[3] \in Nat /\ s[2] <= s[3]))
  BY DEF Spans
<1>3. C \subseteq A
  <2>1. ASSUME NEW s \in S, s[3] = m, s[2] # m
        PROVE  s[2] \in R /\ s[3] \notin R /\ s[2] # s[3]
    <3>1. s[3] \in Nat /\ s[2] <= s[3] /\ s[2] \in Nat
      BY <1>1, <1>2, <2>1
    <3>2. s[2] < m
      BY <2>1, <3>1
    <3> QED BY <1>1, <2>1, <3>2
  <2> QED BY <2>1 DEF Under
<1>4. A \in SUBSET S /\ O \in SUBSET S /\ C \in SUBSET S /\ I \in SUBSET S /\ D \in SUBSET S
  BY DEF Under
<1>5. Under(S, R \cup {m}) = D \cup O
  <2>1. ASSUME NEW s \in S
        PROVE  s \in Under(S, R \cup {m}) <=> s \in D \cup O
    <3>1. CASE s[2] = m
      <4>1. s[3] # m => s[3] \notin R
        <5>1. s[3] = None \/ (s[3] \in Nat /\ m <= s[3])
          BY <1>2, <3>1
        <5>2. CASE s[3] = None
          BY <1>1, <5>2
        <5>3. CASE s[3] \in Nat /\ m <= s[3]
          <6>1. ~(s[3] < m)
            BY <5>3
          <6> QED BY <6>1
        <5> QED BY <5>1, <5>2, <5>3
      <4> QED BY <1>1, <3>1, <4>1 DEF Under
    <3>2. CASE s[2] # m
      BY <3>2 DEF Under
    <3> QED BY <3>1, <3>2
  <2>2. Under(S, R \cup {m}) \subseteq S
    BY DEF Under
  <2> HIDE DEF A, O, C, I, D
  <2> QED BY <1>4, <2>1, <2>2
<1>14. D \cap O = {}
  BY <1>1 DEF Under
<1>6. During(S, m) = (D \cup O) \cup I /\ (D \cup O) \cap I = {} /\ D \cup O \in SUBSET S
  <2>1. ASSUME NEW s \in S
        PROVE  s \in During(S, m) <=> s \in (D \cup O) \cup I
    <3>1. CASE s[3] = None
      <4>1. s[2] <= m <=> s[2] \in R \/ s[2] = m
        BY <1>2, <3>1
      <4>2. s[3] \notin R /\ s[3] # m /\ s[2] # s[3]
        BY <1>1, <1>2, <3>1
      <4> QED BY <3>1, <4>1, <4>2 DEF Under, During
    <3>2. CASE s[3] \in Nat /\ s[2] <= s[3]
      <4>1. s[2] <= m <=> s[2] \in R \/ s[2] = m
        BY <1>2, <3>2
      <4>2. m < s[3] <=> s[3] \notin R /\ s[3] # m
        BY <1>1, <1>2, <3>2
      <4>3. s[3] # None /\ s[2] \in Nat
        BY <1>1, <1>2, <3>2
      <4> QED BY <3>2, <4>1, <4>2, <4>3 DEF Under, During
    <3> QED BY <1>2, <3>1, <3>2
  <2>2. During(S, m) \subseteq S /\ (D \cup O) \cup I \subseteq S
    BY <1>4 DEF During
  <2>3. (D \cup O) \cap I = {}
    BY <1>1 DEF Under
  <2> HIDE DEF A, O, C, I, D
  <2> QED BY <1>4, <2>1, <2>2, <2>3
<1>7. A = D \cup C /\ D \cap C = {}
  BY <1>3
<1>8. /\ SweepAt(S, acc, m).now = Max({0, acc.now - Cardinality(C)}) + Cardinality(O)
      /\ SweepAt(S, acc, m).peak = Max({acc.peak, Max({0, acc.now - Cardinality(C)}) + Cardinality(O) + Cardinality(I)})
  BY DEF SweepAt
<1>9. acc.now = Cardinality(A)
  OBVIOUS
<1> HIDE DEF A, O, C, I, D
<1>10. Cardinality(A) = Cardinality(D) + Cardinality(C) /\ Cardinality(D) \in Nat /\ Cardinality(C) \in Nat
  <2>1. /\ Cardinality(D \cup C) = Cardinality(D) + Cardinality(C)
        /\ Cardinality(D) \in Nat /\ Cardinality(C) \in Nat
    BY ONLY <1>1, <1>4, <1>7, DisjointCount
  <2> QED BY <1>7, <2>1
<1>11. Max({0, acc.now - Cardinality(C)}) = Cardinality(D)
  <2>1. acc.now - Cardinality(C) = Cardinality(D)
    BY <1>9, <1>10
  <2> QED BY <1>10, <2>1, MaxOfTwo
<1>13. Cardinality(D \cup O) = Cardinality(D) + Cardinality(O)
  BY ONLY <1>1, <1>4, <1>14, DisjointCount
<1>15. Cardinality((D \cup O) \cup I) = Cardinality(D \cup O) + Cardinality(I)
  BY ONLY <1>1, <1>4, <1>6, DisjointCount
<1> QED BY <1>5, <1>6, <1>8, <1>11, <1>13, <1>15

LEMMA ImageFinite ==
    ASSUME NEW S, IsFiniteSet(S), NEW f, f = [x \in S |-> f[x]]
    PROVE  IsFiniteSet({f[x] : x \in S})
<1> DEFINE T == {f[x] : x \in S}
<1>1. f \in Surjection(S, T)
  BY DEF Surjection
<1> HIDE DEF T
<1> QED BY <1>1, FS_Surjection DEF T

\* No more spans are under way at a moment than at the last one before it at which one began.
LEMMA DuringBegan ==
    ASSUME NEW S, Spans(S), S # {}, NEW m \in Nat
    PROVE  \E s \in S : Cardinality(During(S, m)) <= Cardinality(During(S, s[2]))
<1> DEFINE B == {n \in {s[2] : s \in S} : n <= m}
<1>1. IsFiniteSet(S) /\ \A s \in S : s[2] \in Nat /\ (s[3] = None \/ (s[3] \in Nat /\ s[2] <= s[3]))
  BY DEF Spans
<1>2. \A x : During(S, x) \in SUBSET S /\ IsFiniteSet(During(S, x)) /\ Cardinality(During(S, x)) \in Nat
  <2>1. \A x : During(S, x) \in SUBSET S
    BY DEF During
  <2> QED BY <1>1, <2>1, FS_Subset, FS_CardinalityType
<1>3. CASE B = {}
  <2>1. PICK s \in S : TRUE
    OBVIOUS
  <2>2. During(S, m) = {}
    BY <1>3 DEF During
  <2>3. Cardinality(During(S, m)) = 0
    BY <2>2, FS_EmptySet
  <2> HIDE DEF B
  <2> QED BY <1>2, <2>1, <2>3
<1>4. CASE B # {}
  <2>1. IsFiniteSet(B) /\ B \subseteq Nat
    BY <1>1, FS_BoundedSetOfNaturals
  <2>2. Max(B) \in B /\ \A x \in B : x <= Max(B)
    <3> HIDE DEF B
    <3> QED BY <1>4, <2>1, MaxOfFinite
  <2>3. PICK s \in S : Max(B) = s[2] /\ s[2] <= m
    BY <2>2
  <2>4. ASSUME NEW t \in During(S, m)
        PROVE  t \in During(S, s[2])
    <3>1. t \in S /\ t[2] <= m /\ (t[3] = None \/ m < t[3] \/ (t[2] = t[3] /\ m = t[2]))
      BY DEF During
    <3>2. t[2] \in B /\ t[2] <= s[2] /\ s[2] \in Nat /\ t[2] \in Nat
      BY <1>1, <2>2, <2>3, <3>1
    <3> HIDE DEF B
    <3>3. CASE t[3] = None
      BY <3>1, <3>2, <3>3 DEF During
    <3>4. CASE m < t[3] /\ t[3] \in Nat
      <4>1. s[2] < t[3]
        BY <2>3, <3>2, <3>4
      <4> QED BY <3>1, <3>2, <4>1 DEF During
    <3>5. CASE t[2] = t[3] /\ m = t[2]
      <4>1. s[2] = t[2]
        BY <2>3, <3>2, <3>5
      <4> QED BY <3>1, <3>2, <3>5, <4>1 DEF During
    <3> QED BY <1>1, <3>1, <3>3, <3>4, <3>5
  <2> HIDE DEF B
  <2>5. Cardinality(During(S, m)) <= Cardinality(During(S, s[2]))
    <3>1. During(S, m) \in SUBSET During(S, s[2])
      BY <2>4
    <3> QED BY <1>2, <3>1, FS_Subset
  <2> QED BY <2>5
<1> QED BY <1>3, <1>4

\* The peak of the sweep is the most spans that are under way when one begins.
LEMMA PeakCounts ==
    ASSUME NEW S, Spans(S), S # {}
    PROVE  Peak(S) = Max({Cardinality(During(S, m)) : m \in {s[2] : s \in S}})
<1> DEFINE starts == {s[2] : s \in S}
           ends == {s[3] : s \in S}
           M == starts \cup (ends \ {None})
           seq == InOrder(M, <)
           n == Cardinality(M)
           counts == {Cardinality(During(S, m)) : m \in starts}
           base == [peak |-> 0, now |-> 0]
<1>1. IsFiniteSet(S) /\ \A s \in S : s[2] \in Nat /\ (s[3] = None \/ (s[3] \in Nat /\ s[2] <= s[3]))
  BY DEF Spans
<1>2. IsFiniteSet(starts) /\ IsFiniteSet(ends)
  <2> DEFINE f == [s \in S |-> s[2]]
             g == [s \in S |-> s[3]]
  <2>1. starts = {f[s] : s \in S} /\ ends = {g[s] : s \in S}
    OBVIOUS
  <2>2. f = [s \in S |-> f[s]] /\ g = [s \in S |-> g[s]]
    OBVIOUS
  <2> HIDE DEF f, g, starts, ends
  <2> QED BY <1>1, <2>1, <2>2, ImageFinite
<1>3. IsFiniteSet(M) /\ M \subseteq Nat
  <2>1. M \subseteq Nat
    BY <1>1
  <2>2. IsFiniteSet(ends \ {None})
    <3> HIDE DEF ends
    <3> QED BY <1>2, FS_RemoveElement
  <2> HIDE DEF starts, ends
  <2> QED BY <1>2, <2>1, <2>2, FS_Union
<1>4. Sorted(seq, M, MomentOrder(M)) /\ n \in Nat /\ DOMAIN seq = 1..n /\ Range(seq) = M
  <2> HIDE DEF M
  <2> QED BY <1>3, MomentsSort, SortedHolds
<1>5. counts \subseteq Nat /\ IsFiniteSet(counts) /\ counts # {}
  <2> DEFINE f == [m \in starts |-> Cardinality(During(S, m))]
  <2>1. \A m : During(S, m) \in SUBSET S
    BY DEF During
  <2>2. \A m : Cardinality(During(S, m)) \in Nat
    BY <1>1, <2>1, FS_Subset, FS_CardinalityType
  <2>3. counts = {f[m] : m \in starts} /\ f = [m \in starts |-> f[m]]
    OBVIOUS
  <2>4. starts # {}
    OBVIOUS
  <2>5. counts \subseteq Nat /\ counts # {}
    <3> HIDE DEF starts
    <3> QED BY <2>2, <2>4
  <2> HIDE DEF f, starts, counts
  <2> QED BY <1>2, <2>3, <2>5, ImageFinite
<1>6. PICK top \in counts : top = Max(counts) /\ \A x \in counts : x <= top
  <2> HIDE DEF counts
  <2> QED BY <1>5, MaxOfFinite
<1>7. Peak(S) = Sweeping!Fold(S, base, seq).peak
  BY DEF Peak, FoldLeft, MapThenFoldSet, Max, Sweeping!Fold, Sweeping!Top, SweepAt
<1>8. \A m \in Nat : Cardinality(During(S, m)) \in Nat /\ Cardinality(During(S, m)) <= top
  <2> SUFFICES ASSUME NEW m \in Nat
               PROVE  Cardinality(During(S, m)) \in Nat /\ Cardinality(During(S, m)) <= top
    OBVIOUS
  <2>1. PICK s \in S : Cardinality(During(S, m)) <= Cardinality(During(S, s[2]))
    BY DuringBegan
  <2>2. Cardinality(During(S, s[2])) \in counts
    OBVIOUS
  <2>3. During(S, m) \in SUBSET S
    BY DEF During
  <2>4. Cardinality(During(S, m)) \in Nat
    BY <1>1, <2>3, FS_Subset, FS_CardinalityType
  <2> HIDE DEF counts
  <2> DEFINE a == Cardinality(During(S, m))
             b == Cardinality(During(S, s[2]))
  <2>5. a \in Nat /\ b \in Nat /\ top \in Nat /\ a <= b /\ b <= top
    BY <1>5, <1>6, <2>1, <2>2, <2>4
  <2> HIDE DEF a, b
  <2>6. a \in Nat /\ a <= top
    BY <2>5
  <2> QED BY <2>6 DEF a
<1>9. \A s \in S : s[2] \in M /\ (s[3] \in Nat => s[3] \in M)
  BY TraceAssumption
<1> HIDE DEF seq, n, M
<1>10. PICK acc : Sweeping!Trajectory(acc, S, base, seq, n) /\ Sweeping!Fold(S, base, seq) = acc[n]
  BY <1>4, Sweeping!FoldGoes
<1>11. acc[0] = base /\ \A k \in 1..n : acc[k] = SweepAt(S, acc[k - 1], seq[k])
  BY <1>10 DEF Sweeping!Trajectory
<1> DEFINE Read(k) ==
               /\ acc[k].now = Cardinality(Under(S, Until(seq, k)))
               /\ acc[k].peak \in Nat /\ acc[k].peak <= top
               /\ \A m \in Until(seq, k) : Cardinality(During(S, m)) <= acc[k].peak
           T == {k \in Nat : k <= n => Read(k)}
<1>12. 0 \in T
  <2>1. Until(seq, 0) = {} /\ Under(S, {}) = {}
    BY DEF Until, Under
  <2>2. Cardinality({}) = 0 /\ top \in Nat
    BY <1>5, <1>6, FS_EmptySet
  <2> HIDE DEF counts
  <2>3. acc[0].now = 0 /\ acc[0].peak = 0
    BY <1>11
  <2>4. Read(0)
    <3>1. acc[0].now = Cardinality(Under(S, Until(seq, 0)))
      BY <2>1, <2>2, <2>3
    <3> QED BY <2>1, <2>2, <2>3, <3>1
  <2> HIDE DEF Read
  <2> QED BY <2>4
<1>13. ASSUME NEW k \in Nat, k \in T
       PROVE  k + 1 \in T
  <2> HIDE DEF Read
  <2> SUFFICES ASSUME k + 1 <= n PROVE Read(k + 1)
    OBVIOUS
  <2>1. k + 1 \in 1..n /\ k + 1 - 1 = k /\ Read(k)
    BY <1>4, <1>13
  <2> DEFINE m == seq[k + 1]
             R == Until(seq, k)
  <2>2. /\ m \in M /\ Until(seq, k + 1) = R \cup {m} /\ R \subseteq Nat
        /\ \A x \in R : x < m
        /\ \A x \in M : x < m => x \in R
    <3> DEFINE j == k + 1
    <3>1. j \in 1..Cardinality(M) /\ j - 1 = k
      BY <2>1 DEF n
    <3> HIDE DEF j
    <3>2. /\ seq[j] \in M /\ Until(seq, j) = Until(seq, j - 1) \cup {seq[j]} /\ Until(seq, j - 1) \subseteq Nat
          /\ \A x \in Until(seq, j - 1) : x < seq[j]
          /\ \A x \in M : x < seq[j] => x \in Until(seq, j - 1)
      BY <1>3, <1>4, <3>1, MomentNext
    <3> QED BY <3>1, <3>2 DEF j
  <2> HIDE DEF m, R
  <2>3. m \in Nat /\ R \in SUBSET Nat
    BY <1>3, <2>2
  <2>4. \A s \in S : /\ s[2] < m => s[2] \in R
                     /\ s[3] \in Nat /\ s[3] < m => s[3] \in R
    BY <1>9, <2>2
  <2>5. /\ acc[k].now = Cardinality(Under(S, R)) /\ acc[k].peak \in Nat /\ acc[k].peak <= top
        /\ \A x \in R : Cardinality(During(S, x)) <= acc[k].peak
    BY <2>1 DEF Read, R
  <2>6. acc[k + 1] = SweepAt(S, acc[k], m)
    BY <1>11, <2>1 DEF m
  <2> DEFINE was == acc[k]
             d == Cardinality(During(S, m))
  <2>7. SweepAt(S, was, m).now = Cardinality(Under(S, R \cup {m})) /\ SweepAt(S, was, m).peak = Max({was.peak, d})
    <3> HIDE DEF was
    <3>1. was.now = Cardinality(Under(S, R)) /\ was.peak \in Nat
      BY <2>5 DEF was
    <3>2. \A x \in R : x < m
      BY <2>2
    <3> QED BY <2>3, <2>4, <3>1, <3>2, SweepCounts
  <2>8. d \in Nat /\ d <= top /\ top \in Nat
    BY <1>5, <1>6, <1>8, <2>3
  <2> HIDE DEF d
  <2>9. Max({was.peak, d}) = IF was.peak >= d THEN was.peak ELSE d
    BY <2>5, <2>8, MaxOfTwo
  <2>10. \A x \in R \cup {m} : Cardinality(During(S, x)) <= Max({was.peak, d})
    <3>1. \A x \in R : Cardinality(During(S, x)) \in Nat
      BY <1>8, <2>3
    <3>2. \A x \in R : Cardinality(During(S, x)) <= Max({was.peak, d})
      BY <2>5, <2>8, <2>9, <3>1
    <3>3. d <= Max({was.peak, d})
      BY <2>5, <2>8, <2>9
    <3> QED BY <3>2, <3>3 DEF d
  <2>11. Max({was.peak, d}) \in Nat /\ Max({was.peak, d}) <= top
    BY <2>5, <2>8, <2>9
  <2> QED BY <2>2, <2>6, <2>7, <2>10, <2>11 DEF Read
<1> HIDE DEF T
<1>14. Nat \subseteq T
  BY <1>12, <1>13, Sweeping!Induction
<1>15. Read(n)
  BY <1>4, <1>14 DEF T
<1>16. Until(seq, n) = M
  BY <1>4 DEF Until, Range
<1>17. top <= acc[n].peak
  <2>1. PICK m \in starts : top = Cardinality(During(S, m))
    OBVIOUS
  <2>2. m \in M
    BY DEF M
  <2> QED BY <1>15, <1>16, <2>1, <2>2
<1>18. acc[n].peak = top
  <2> HIDE DEF counts
  <2>1. top \in Nat /\ acc[n].peak \in Nat /\ acc[n].peak <= top
    BY <1>5, <1>6, <1>15
  <2> QED BY <1>17, <2>1
<1> QED BY <1>6, <1>7, <1>10, <1>18

-----------------------------------------------------------------------------
(* Steps: what they are made of *)

ReadAt(par, acc, e) == IF Reads(e) THEN Append(acc, e) ELSE acc
OrderedReading == INSTANCE FoldFacts WITH Op <- ReadAt

StepAt(par, acc, e) ==
    LET key == SpanOf(e)
        add(s) == Append(acc.steps, s)
    IN IF e.type \in RunTypes \cup ReviewTypes /\ e.task = None THEN acc
       ELSE CASE e.type \in Instants -> [acc EXCEPT !.steps = add(StepOf(e, e.at, e.at))]
              [] e.type \in Starts -> [steps |-> add(StepOf(e, e.at, None)),
                                       open |-> With(acc.open, key, Len(acc.steps) + 1)]
              [] e.type \in Stops /\ key \in DOMAIN acc.open ->
                     LET k == acc.open[key]
                     IN [steps |-> [acc.steps EXCEPT ![k].to = e.at, ![k].evidence = @ \cup {e.id}],
                         open |-> Restrict(acc.open, DOMAIN acc.open \ {key})]
              [] e.type \in Stops /\ key \notin DOMAIN acc.open /\ key[1] \in {"run", "review"} ->
                     [acc EXCEPT !.steps = add(StepOf(e, IF key[1] = "run" THEN None ELSE e.at, e.at))]
              [] OTHER -> acc
Stepping == INSTANCE FoldFacts WITH Op <- StepAt

IdsOf(S) == {e.id : e \in S}
StepSet(S) == {s \in [evidence : SUBSET IdsOf(S), anchor : IdsOf(S), from : Nat \cup {None}, to : Nat \cup {None},
                      task : {e.task : e \in S} \cup {None}] : s.anchor \in s.evidence}

LEMMA OrderedHolds ==
    ASSUME NEW S, Identified(S)
    PROVE  Ordered(S) \in Seq(S)
<1> DEFINE s == CausalOrder(S)
           n == Len(s)
<1>1. s \in Seq(S) /\ n \in Nat /\ DOMAIN s = 1..n /\ \A i \in 1..n : s[i] \in S
  BY CausalHolds, LenProperties, ElementOfSeq
<1>2. Ordered(S) = OrderedReading!Fold({}, <<>>, s)
  BY DEF Ordered, FoldLeft, MapThenFoldSet, Max, OrderedReading!Fold, OrderedReading!Top, ReadAt
<1> HIDE DEF s, n
<1>3. PICK acc : OrderedReading!Trajectory(acc, {}, <<>>, s, n) /\ OrderedReading!Fold({}, <<>>, s) = acc[n]
  BY <1>1, OrderedReading!FoldGoes
<1>4. acc[0] = <<>> /\ \A k \in 1..n : acc[k] = ReadAt({}, acc[k - 1], s[k])
  BY <1>3 DEF OrderedReading!Trajectory
<1> DEFINE T == {k \in Nat : k <= n => acc[k] \in Seq(S)}
<1>5. 0 \in T
  BY <1>4, EmptySeq
<1>6. ASSUME NEW k \in Nat, k \in T
      PROVE  k + 1 \in T
  <2> SUFFICES ASSUME k + 1 <= n PROVE acc[k + 1] \in Seq(S)
    OBVIOUS
  <2>1. k + 1 \in 1..n /\ k + 1 - 1 = k /\ acc[k] \in Seq(S)
    BY <1>1, <1>6
  <2>2. acc[k + 1] = ReadAt({}, acc[k], s[k + 1]) /\ s[k + 1] \in S
    BY <1>1, <1>4, <2>1
  <2>3. acc[k + 1] \in {acc[k], Append(acc[k], s[k + 1])}
    BY <2>2 DEF ReadAt
  <2>4. Append(acc[k], s[k + 1]) \in Seq(S)
    BY <2>1, <2>2, AppendProperties
  <2> QED BY <2>1, <2>3, <2>4
<1> HIDE DEF T
<1>7. Nat \subseteq T
  BY <1>5, <1>6, OrderedReading!Induction
<1> QED BY <1>1, <1>2, <1>3, <1>7 DEF T

\* What is open is one of the steps.
Stepped(S, acc) ==
    /\ DOMAIN acc = {"steps", "open"} /\ acc.steps \in Seq(StepSet(S))
    /\ \A key \in DOMAIN acc.open : acc.open[key] \in 1..Len(acc.steps)

LEMMA StepAdded ==
    ASSUME NEW S, Identified(S), NEW acc, Stepped(S, acc), NEW s \in StepSet(S), NEW r,
           r = [acc EXCEPT !.steps = Append(acc.steps, s)]
    PROVE  Stepped(S, r)
<1>1. /\ Append(acc.steps, s) \in Seq(StepSet(S)) /\ Len(Append(acc.steps, s)) = Len(acc.steps) + 1
      /\ Len(acc.steps) \in Nat
  BY AppendProperties, LenProperties DEF Stepped
<1>2. r.steps = Append(acc.steps, s) /\ r.open = acc.open /\ DOMAIN r = {"steps", "open"}
  BY DEF Stepped
<1>3. \A key \in DOMAIN r.open : r.open[key] \in 1..Len(r.steps)
  BY <1>1, <1>2 DEF Stepped
<1> QED BY <1>1, <1>2, <1>3 DEF Stepped

LEMMA StepOpened ==
    ASSUME NEW S, Identified(S), NEW acc, Stepped(S, acc), NEW s \in StepSet(S), NEW key
    PROVE  Stepped(S, [steps |-> Append(acc.steps, s), open |-> With(acc.open, key, Len(acc.steps) + 1)])
<1> DEFINE r == [steps |-> Append(acc.steps, s), open |-> With(acc.open, key, Len(acc.steps) + 1)]
<1>1. /\ Append(acc.steps, s) \in Seq(StepSet(S)) /\ Len(Append(acc.steps, s)) = Len(acc.steps) + 1
      /\ Len(acc.steps) \in Nat
  BY AppendProperties, LenProperties DEF Stepped
<1>2. r.steps = Append(acc.steps, s) /\ r.open = With(acc.open, key, Len(acc.steps) + 1) /\ DOMAIN r = {"steps", "open"}
  OBVIOUS
<1>3. ASSUME NEW x \in DOMAIN r.open
      PROVE  r.open[x] \in 1..Len(r.steps)
  <2>1. CASE x = key
    BY <1>1, <1>2, <2>1 DEF With
  <2>2. CASE x # key
    <3>1. x \in DOMAIN acc.open /\ r.open[x] = acc.open[x]
      BY <1>2, <2>2 DEF With
    <3> QED BY <1>1, <1>2, <3>1 DEF Stepped
  <2> QED BY <2>1, <2>2
<1> HIDE DEF r
<1>4. Stepped(S, r)
  BY <1>1, <1>2, <1>3 DEF Stepped
<1> QED BY <1>4 DEF r

LEMMA StepEnded ==
    ASSUME NEW S, Identified(S), NEW acc, Stepped(S, acc), NEW e \in S, NEW key \in DOMAIN acc.open,
           NEW k, k = acc.open[key], NEW end,
           end = [steps |-> [acc.steps EXCEPT ![k].to = e.at, ![k].evidence = @ \cup {e.id}],
                  open |-> Restrict(acc.open, DOMAIN acc.open \ {key})]
    PROVE  Stepped(S, end)
<1> DEFINE old == acc.steps
           n == Len(old)
           new == [old EXCEPT ![k].to = e.at, ![k].evidence = @ \cup {e.id}]
           rest == Restrict(acc.open, DOMAIN acc.open \ {key})
           r == [steps |-> new, open |-> rest]
<1>1. n \in Nat /\ DOMAIN old = 1..n /\ old \in [1..n -> StepSet(S)] /\ k \in 1..n
  BY LenProperties DEF Stepped
<1>2. e.at \in Nat /\ e.id \in IdsOf(S)
  BY DEF Identified, IsEvent, IdsOf
<1> HIDE DEF n, old
<1>3. new = [i \in 1..n |-> IF i = k THEN [old[k] EXCEPT !.to = e.at, !.evidence = @ \cup {e.id}] ELSE old[i]]
  BY <1>1
<1>4. [old[k] EXCEPT !.to = e.at, !.evidence = @ \cup {e.id}] \in StepSet(S)
  <2>1. old[k] \in StepSet(S)
    BY <1>1
  <2> DEFINE s == old[k]
  <2> HIDE DEF s
  <2>2. s \in StepSet(S)
    BY <2>1 DEF s
  <2>3. [s EXCEPT !.to = e.at, !.evidence = @ \cup {e.id}] \in StepSet(S)
    BY <1>2, <2>2 DEF StepSet
  <2> QED BY <2>3 DEF s
<1>5. new \in [1..n -> StepSet(S)]
  <2> HIDE DEF new
  <2> QED BY <1>1, <1>3, <1>4
<1> HIDE DEF new
<1>6. new \in Seq(StepSet(S)) /\ Len(new) = n
  <2>1. new \in Seq(StepSet(S))
    BY <1>1, <1>5, SeqDef
  <2> QED BY <1>1, <1>5, <2>1, LenProperties
<1>7. \A x \in DOMAIN rest : rest[x] \in 1..n
  BY DEF Restrict, Stepped, n, old
<1> HIDE DEF rest
<1>8. Stepped(S, r)
  BY <1>6, <1>7 DEF Stepped
<1> QED BY <1>8 DEF r, new, rest, old

LEMMA StepMade ==
    ASSUME NEW S, Identified(S), NEW e \in S, NEW from \in Nat \cup {None}, NEW to \in Nat \cup {None}
    PROVE  StepOf(e, from, to) \in StepSet(S)
BY DEF StepOf, StepSet, IdsOf

LEMMA StepTaken ==
    ASSUME NEW S, Identified(S), NEW acc, Stepped(S, acc), NEW e \in S
    PROVE  Stepped(S, StepAt({}, acc, e))
<1> DEFINE key == SpanOf(e)
<1>1. e.at \in Nat \cup {None}
  BY DEF Identified, IsEvent
<1>2. CASE e.type \in RunTypes \cup ReviewTypes /\ e.task = None
  BY <1>2 DEF StepAt
<1>3. ASSUME ~(e.type \in RunTypes \cup ReviewTypes /\ e.task = None)
      PROVE  Stepped(S, StepAt({}, acc, e))
  <2>0. StepAt({}, acc, e) =
           CASE e.type \in Instants -> [acc EXCEPT !.steps = Append(acc.steps, StepOf(e, e.at, e.at))]
              [] e.type \in Starts -> [steps |-> Append(acc.steps, StepOf(e, e.at, None)),
                                       open |-> With(acc.open, key, Len(acc.steps) + 1)]
              [] e.type \in Stops /\ key \in DOMAIN acc.open ->
                     [steps |-> [acc.steps EXCEPT ![acc.open[key]].to = e.at, ![acc.open[key]].evidence = @ \cup {e.id}],
                         open |-> Restrict(acc.open, DOMAIN acc.open \ {key})]
              [] e.type \in Stops /\ key \notin DOMAIN acc.open /\ key[1] \in {"run", "review"} ->
                     [acc EXCEPT !.steps = Append(acc.steps, StepOf(e, IF key[1] = "run" THEN None ELSE e.at, e.at))]
              [] OTHER -> acc
    BY <1>3 DEF StepAt
  <2>1. /\ e.type \in Instants => e.type \notin Starts /\ e.type \notin Stops
        /\ e.type \in Starts => e.type \notin Stops
    BY DEF Instants, Starts, Stops, InvariantTypes, TerminalTypes
  <2> HIDE DEF key
  <2>2. CASE e.type \in Instants
    <3>1. StepOf(e, e.at, e.at) \in StepSet(S)
      BY <1>1, StepMade
    <3>2. StepAt({}, acc, e) = [acc EXCEPT !.steps = Append(acc.steps, StepOf(e, e.at, e.at))]
      BY <2>0, <2>1, <2>2
    <3> QED BY <3>1, <3>2, StepAdded
  <2>3. CASE e.type \in Starts
    <3>1. StepOf(e, e.at, None) \in StepSet(S)
      BY <1>1, StepMade
    <3>2. StepAt({}, acc, e) = [steps |-> Append(acc.steps, StepOf(e, e.at, None)),
                                open |-> With(acc.open, key, Len(acc.steps) + 1)]
      BY <2>0, <2>1, <2>3
    <3> QED BY <3>1, <3>2, StepOpened
  <2>4. CASE e.type \in Stops /\ key \in DOMAIN acc.open
    <3> DEFINE k == acc.open[key]
    <3>1. StepAt({}, acc, e) =
              [steps |-> [acc.steps EXCEPT ![k].to = e.at, ![k].evidence = @ \cup {e.id}],
               open |-> Restrict(acc.open, DOMAIN acc.open \ {key})]
      BY <2>0, <2>1, <2>4
    <3>2. k = acc.open[key]
      OBVIOUS
    <3> HIDE DEF k
    <3> QED BY <2>4, <3>1, <3>2, StepEnded
  <2>5. CASE e.type \in Stops /\ key \notin DOMAIN acc.open /\ key[1] \in {"run", "review"}
    <3> DEFINE from == IF key[1] = "run" THEN None ELSE e.at
    <3>1. StepOf(e, from, e.at) \in StepSet(S)
      <4>1. from \in Nat \cup {None}
        BY <1>1
      <4> HIDE DEF from
      <4> QED BY <1>1, <4>1, StepMade
    <3>2. StepAt({}, acc, e) = [acc EXCEPT !.steps = Append(acc.steps, StepOf(e, from, e.at))]
      BY <2>0, <2>1, <2>5
    <3> HIDE DEF from
    <3> QED BY <3>1, <3>2, StepAdded
  <2>6. CASE /\ e.type \notin Instants /\ e.type \notin Starts
             /\ e.type \in Stops => key \notin DOMAIN acc.open /\ key[1] \notin {"run", "review"}
    BY <2>0, <2>6
  <2> QED BY <2>2, <2>3, <2>4, <2>5, <2>6
<1> QED BY <1>2, <1>3

LEMMA StepsOf ==
    ASSUME NEW S, Identified(S), NEW s \in Seq(S)
    PROVE  Steps(s) \in Seq(StepSet(S))
<1> DEFINE n == Len(s)
           base == [steps |-> <<>>, open |-> <<>>]
<1>1. n \in Nat /\ DOMAIN s = 1..n /\ \A i \in 1..n : s[i] \in S
  BY LenProperties, ElementOfSeq
<1>2. Steps(s) = Stepping!Fold({}, base, s).steps
  BY DEF Steps, FoldLeft, MapThenFoldSet, Max, Stepping!Fold, Stepping!Top, StepAt
<1>3. Stepped(S, base)
  <2>1. DOMAIN <<>> = {} /\ <<>> \in Seq(StepSet(S))
    BY EmptySeq
  <2>2. base.open = <<>> /\ base.steps = <<>> /\ DOMAIN base = {"steps", "open"}
    OBVIOUS
  <2> HIDE DEF base
  <2> QED BY <2>1, <2>2 DEF Stepped
<1> HIDE DEF n, base
<1>4. PICK acc : Stepping!Trajectory(acc, {}, base, s, n) /\ Stepping!Fold({}, base, s) = acc[n]
  BY <1>1, Stepping!FoldGoes
<1>5. acc[0] = base /\ \A k \in 1..n : acc[k] = StepAt({}, acc[k - 1], s[k])
  BY <1>4 DEF Stepping!Trajectory
<1> DEFINE T == {k \in Nat : k <= n => Stepped(S, acc[k])}
<1>6. 0 \in T
  BY <1>3, <1>5
<1>7. ASSUME NEW k \in Nat, k \in T
      PROVE  k + 1 \in T
  <2> SUFFICES ASSUME k + 1 <= n PROVE Stepped(S, acc[k + 1])
    OBVIOUS
  <2>1. k + 1 \in 1..n /\ k + 1 - 1 = k /\ Stepped(S, acc[k])
    BY <1>1, <1>7
  <2>2. acc[k + 1] = StepAt({}, acc[k], s[k + 1]) /\ s[k + 1] \in S
    BY <1>1, <1>5, <2>1
  <2> QED BY <2>1, <2>2, StepTaken
<1> HIDE DEF T
<1>8. Nat \subseteq T
  BY <1>6, <1>7, Stepping!Induction
<1>9. Stepped(S, acc[n])
  BY <1>1, <1>8 DEF T
<1> QED BY <1>2, <1>4, <1>9 DEF Stepped

LEMMA TabledIs ==
    ASSUME NEW f
    PROVE  Tabled(f) = f
BY DEF Tabled

\* What the rounds of a trace are read from
LEMMA SeenIdentified ==
    ASSUME Known
    PROVE  Identified(Range(Seen)) /\ Range(Seen) \subseteq stored /\ Seen \in Seq(Range(Seen))
<1>1. Identified(stored) /\ IsFiniteSet(stored)
  BY StoredIdentified DEF Identified
<1>2. Sorted(log, stored, ClockOrder(stored))
  BY <1>1, ReaderSorts DEF log, Reader
<1>3. Cardinality(stored) \in Nat /\ DOMAIN log = 1..Cardinality(stored) /\ Range(log) = stored /\ log \in Seq(stored)
  BY <1>1, <1>2, SortedHolds
<1>4. Dedupe(log).events = Kept(stored, NamedBy(stored))
  BY <1>1, <1>3, DedupeOf
<1>5. Dedupe(log).events \subseteq stored
  BY <1>4 DEF Kept
<1> DEFINE D == Dedupe(log).events
<1> HIDE DEF D
<1>6. Identified(D)
  BY <1>1, <1>5, SubsetIdentified DEF D
<1>7. Ordered(D) \in Seq(D)
  BY <1>6, OrderedHolds
<1> DEFINE s == Ordered(D)
<1> HIDE DEF s
<1>8. s \in Seq(D) /\ DOMAIN s = 1..Len(s) /\ Len(s) \in Nat /\ \A i \in 1..Len(s) : s[i] \in D
  BY <1>7, LenProperties, ElementOfSeq DEF s
<1>9. Range(s) \subseteq D /\ s \in [1..Len(s) -> Range(s)]
  BY <1>8, LenProperties DEF Range
<1>10. s \in Seq(Range(s))
  BY <1>8, <1>9, SeqDef
<1>11. Identified(Range(s)) /\ Range(s) \subseteq stored
  BY <1>5, <1>6, <1>9, SubsetIdentified DEF D
<1> QED BY <1>10, <1>11 DEF s, D, Seen

SeedsOf(w) == Initial(w) \cup {{i} : i \in Triggers(w)}
OwnersOf(w) == Tabled([i \in w.ids |-> Owner(w, Initial(w), i)])
PriorOf(w, steps) == Tabled([s \in SeedsOf(w) |-> Previous(w, steps, OwnersOf(w), s)])
RoundOf(w, steps, s) ==
    [seed |-> s, previous |-> IF Proven(PriorOf(w, steps), s) THEN PriorOf(w, steps)[s] ELSE None,
     steps |-> {k \in DOMAIN steps : OwnersOf(w)[steps[k].anchor] = s}]

LEMMA RoundsOf ==
    ASSUME NEW w, NEW steps
    PROVE  Rounds(w, steps) = {RoundOf(w, steps, s) : s \in SeedsOf(w)}
BY DEF Rounds, RoundOf, SeedsOf, OwnersOf, PriorOf

LEMMA RoundSteps ==
    ASSUME NEW w, NEW steps, NEW r \in Rounds(w, steps)
    PROVE  r.steps \subseteq DOMAIN steps
<1>1. PICK s \in SeedsOf(w) : r = RoundOf(w, steps, s)
  BY RoundsOf
<1> QED BY <1>1 DEF RoundOf

\* A wave has a step; all of its steps began.
LEMMA WaveSteps ==
    ASSUME NEW w, NEW steps, NEW wave \in Waves(w, steps)
    PROVE  wave # {} /\ wave \subseteq DOMAIN steps /\ \A k \in wave : steps[k].from # None
<1> DEFINE Begun(r) == {j \in r.steps : steps[j].task # None /\ steps[j].from # None}
           Siblings(of, k) == {j \in of : j = k \/ /\ w.parents[steps[j].task] = w.parents[steps[k].task]
                                                   /\ w.parents[steps[k].task] # {}}
<1>1. Waves(w, steps) = UNION {{Siblings(Begun(r), k) : k \in Begun(r)} : r \in Rounds(w, steps)}
  BY DEF Waves
<1> HIDE DEF Siblings, Begun
<1>2. PICK r \in Rounds(w, steps) : wave \in {Siblings(Begun(r), k) : k \in Begun(r)}
  BY <1>1
<1>3. PICK k \in Begun(r) : wave = Siblings(Begun(r), k)
  BY <1>2
<1>4. k \in wave /\ wave \subseteq Begun(r)
  BY <1>3 DEF Siblings
<1>5. Begun(r) \subseteq DOMAIN steps /\ \A j \in Begun(r) : steps[j].from # None
  BY RoundSteps DEF Begun
<1> QED BY <1>4, <1>5

LEMMA PeaksAreReal ==
    ASSUME Known
    PROVE  PeakIsReal
<1> DEFINE E == Range(Seen)
           steps == Steps(Seen)
           n == Len(steps)
<1> HIDE DEF E, steps, n
<1>1. Identified(E) /\ Seen \in Seq(E)
  BY SeenIdentified DEF E
<1>2. steps \in Seq(StepSet(E)) /\ n \in Nat /\ DOMAIN steps = 1..n /\ \A k \in 1..n : steps[k] \in StepSet(E)
  BY <1>1, StepsOf, LenProperties, ElementOfSeq DEF steps, n
<1>3. SUFFICES ASSUME NEW wave \in Waves(Work(E), steps), NEW spans, spans = SpansOf(steps, wave),
                      \A s \in spans : s[3] = None \/ s[2] <= s[3]
               PROVE  Peak(spans) = Max({Cardinality(During(spans, m)) : m \in {s[2] : s \in spans}})
  BY DEF PeakIsReal, E, steps
<1>4. wave # {} /\ wave \subseteq 1..n /\ \A k \in wave : steps[k].from # None
  BY <1>2, WaveSteps
<1>5. \A k \in wave : steps[k].from \in Nat /\ steps[k].to \in Nat \cup {None}
  BY <1>2, <1>4 DEF StepSet
<1>6. IsFiniteSet(spans)
  <2> DEFINE f == [k \in wave |-> <<k, steps[k].from, steps[k].to>>]
  <2>1. spans = {f[k] : k \in wave} /\ f = [k \in wave |-> f[k]]
    BY <1>3 DEF SpansOf
  <2>2. IsFiniteSet(wave)
    <3>1. IsFiniteSet(1..n) /\ wave \in SUBSET (1..n)
      BY <1>2, <1>4, FS_Interval
    <3> QED BY <3>1, FS_Subset
  <2> HIDE DEF f
  <2> QED BY <2>1, <2>2, ImageFinite
<1>7. \A s \in spans : s[2] \in Nat /\ (s[3] = None \/ (s[3] \in Nat /\ s[2] <= s[3]))
  BY <1>3, <1>5 DEF SpansOf
<1>8. Spans(spans) /\ spans # {}
  BY <1>3, <1>4, <1>6, <1>7 DEF Spans, SpansOf
<1> QED BY <1>8, PeakCounts

-----------------------------------------------------------------------------
(* What is joined by evidence: sets that grow until they are closed *)

\* What grows within a finite set, and stays once it does not, has stopped after as many steps.
LEMMA Saturates ==
    ASSUME NEW V, IsFiniteSet(V), NEW n \in Nat, Cardinality(V) <= n, NEW acc, NEW F, V \in F,
           \A k \in 0..n : acc[k] \subseteq V,
           \A k \in 1..n : /\ acc[k - 1] \subseteq acc[k]
                           /\ acc[k] = acc[k - 1] <=> acc[k - 1] \in F
    PROVE  acc[n] \in F
<1> DEFINE T == {k \in Nat : k <= n => acc[k] \in F \/ k <= Cardinality(acc[k])}
<1>1. \A k \in 0..n : IsFiniteSet(acc[k]) /\ Cardinality(acc[k]) \in Nat /\ Cardinality(acc[k]) <= Cardinality(V)
  BY FS_Subset, FS_CardinalityType
<1>2. 0 \in T
  <2>1. 0 \in 0..n /\ Cardinality(acc[0]) \in Nat
    BY <1>1
  <2> QED BY <2>1
<1>3. ASSUME NEW k \in Nat, k \in T
      PROVE  k + 1 \in T
  <2> SUFFICES ASSUME k + 1 <= n, acc[k + 1] \notin F PROVE k + 1 <= Cardinality(acc[k + 1])
    OBVIOUS
  <2>1. k + 1 \in 1..n /\ k + 1 - 1 = k /\ k \in 0..n /\ k + 1 \in 0..n
    OBVIOUS
  <2> DEFINE a == acc[k]
             b == acc[k + 1]
  <2>2. a \subseteq b /\ (b = a <=> a \in F)
    BY <2>1
  <2>3. IsFiniteSet(a) /\ IsFiniteSet(b) /\ Cardinality(a) \in Nat /\ Cardinality(b) \in Nat
    BY <1>1, <2>1
  <2>4. a \in F \/ k <= Cardinality(a)
    BY <1>3, <2>1
  <2>5. b \notin F
    OBVIOUS
  <2> HIDE DEF a, b
  <2>6. a # b /\ k <= Cardinality(a)
    BY <2>2, <2>4, <2>5
  <2>7. Cardinality(a) <= Cardinality(b) /\ Cardinality(a) # Cardinality(b)
    BY <2>2, <2>3, <2>6, FS_Subset
  <2>8. k + 1 <= Cardinality(b)
    BY <2>3, <2>6, <2>7
  <2> QED BY <2>8 DEF b
<1> HIDE DEF T
<1>4. Nat \subseteq T
  BY <1>2, <1>3, OrderedReading!Induction
<1>5. acc[n] \in F \/ n <= Cardinality(acc[n])
  BY <1>4 DEF T
<1>6. CASE n <= Cardinality(acc[n])
  <2>1. n \in 0..n /\ acc[n] \in SUBSET V
    OBVIOUS
  <2>2. Cardinality(acc[n]) = Cardinality(V)
    <3>1. Cardinality(V) \in Nat /\ Cardinality(acc[n]) \in Nat /\ Cardinality(acc[n]) <= Cardinality(V)
      BY <1>1, <2>1, FS_CardinalityType
    <3> QED BY <1>6, <3>1
  <2>3. acc[n] = V
    BY <2>1, <2>2, FS_Subset
  <2> QED BY <2>3
<1> QED BY <1>5, <1>6

ComponentAt(parents, T, i) == T \cup {u \in DOMAIN parents : parents[u] \cap T # {} \/ \E v \in T : u \in parents[v]}
Components == INSTANCE FoldFacts WITH Op <- ComponentAt

Adjacent(parents, u, v) == u \in parents[v] \/ v \in parents[u]
\* Nothing in D is a parent or a child of what is not.
Whole(parents, D) == /\ D \subseteq DOMAIN parents
                     /\ \A u \in D, v \in DOMAIN parents : Adjacent(parents, u, v) => v \in D

LEMMA ComponentWhole ==
    ASSUME NEW parents, IsFiniteSet(DOMAIN parents), NEW t \in DOMAIN parents
    PROVE  /\ t \in Component(parents, t) /\ Whole(parents, Component(parents, t))
           /\ \A D : Whole(parents, D) /\ t \in D => Component(parents, t) \subseteq D
<1> DEFINE V == DOMAIN parents
           n == Cardinality(V)
<1>1. n \in Nat /\ DOMAIN Upto(n) = 1..n
  BY FS_CardinalityType DEF Upto
<1>2. Component(parents, t) = Components!Fold(parents, {t}, Upto(n))
  BY DEF Component, FoldLeft, MapThenFoldSet, Max, Components!Fold, Components!Top, ComponentAt, Upto
<1> HIDE DEF n
<1>3. PICK acc : Components!Trajectory(acc, parents, {t}, Upto(n), n) /\ Component(parents, t) = acc[n]
  BY <1>1, <1>2, Components!FoldGoes
<1>4. acc[0] = {t} /\ \A k \in 1..n : acc[k] = ComponentAt(parents, acc[k - 1], Upto(n)[k])
  BY <1>3 DEF Components!Trajectory
<1>5. \A k \in 1..n : acc[k] = acc[k - 1] \cup {u \in V : \E v \in acc[k - 1] : u \in parents[v] \/ v \in parents[u]}
  BY <1>4 DEF ComponentAt
<1> HIDE DEF V
<1>6. t \in V /\ IsFiniteSet(V)
  BY DEF V
<1>7. ASSUME NEW D, D \subseteq V, t \in D, \A u \in D, v \in V : Adjacent(parents, u, v) => v \in D
      PROVE  \A k \in 0..n : acc[k] \subseteq D
  <2> DEFINE T == {k \in Nat : k <= n => acc[k] \subseteq D}
  <2>1. 0 \in T
    BY <1>4, <1>7
  <2>2. ASSUME NEW k \in Nat, k \in T
        PROVE  k + 1 \in T
    <3> SUFFICES ASSUME k + 1 <= n PROVE acc[k + 1] \subseteq D
      OBVIOUS
    <3>1. k + 1 \in 1..n /\ k + 1 - 1 = k /\ acc[k] \subseteq D
      BY <1>1, <2>2
    <3>2. acc[k + 1] = acc[k] \cup {u \in V : \E v \in acc[k] : u \in parents[v] \/ v \in parents[u]}
      BY <1>5, <3>1
    <3> QED BY <1>7, <3>1, <3>2 DEF Adjacent
  <2> HIDE DEF T
  <2>3. Nat \subseteq T
    BY <2>1, <2>2, Components!Induction
  <2> QED BY <2>3 DEF T
<1>8. \A k \in 0..n : acc[k] \subseteq V
  BY <1>6, <1>7
<1> DEFINE F == {D \in SUBSET V : \A u \in D, v \in V : Adjacent(parents, u, v) => v \in D}
<1>9. \A k \in 1..n : acc[k - 1] \subseteq acc[k] /\ (acc[k] = acc[k - 1] <=> acc[k - 1] \in F)
  <2> SUFFICES ASSUME NEW k \in 1..n
               PROVE  acc[k - 1] \subseteq acc[k] /\ (acc[k] = acc[k - 1] <=> acc[k - 1] \in F)
    OBVIOUS
  <2>1. k - 1 \in 0..n
    BY <1>1
  <2>2. acc[k - 1] \subseteq V
    BY <1>8, <2>1
  <2>3. acc[k] = acc[k - 1] \cup {u \in V : \E v \in acc[k - 1] : u \in parents[v] \/ v \in parents[u]}
    BY <1>5
  <2> QED BY <2>2, <2>3 DEF Adjacent
<1>10. V \in F /\ n <= n /\ n = Cardinality(V)
  BY <1>1 DEF n
<1>11. acc[n] \in F
  <2> HIDE DEF F
  <2> QED BY <1>1, <1>6, <1>8, <1>9, <1>10, Saturates
<1>12. t \in acc[n]
  <2> DEFINE T == {k \in Nat : k <= n => t \in acc[k]}
  <2>1. 0 \in T
    BY <1>4
  <2>2. ASSUME NEW k \in Nat, k \in T
        PROVE  k + 1 \in T
    <3> SUFFICES ASSUME k + 1 <= n PROVE t \in acc[k + 1]
      OBVIOUS
    <3>1. k + 1 \in 1..n /\ k + 1 - 1 = k /\ t \in acc[k]
      BY <1>1, <2>2
    <3>2. acc[k] \subseteq acc[k + 1]
      BY <1>9, <3>1
    <3> QED BY <3>1, <3>2
  <2> HIDE DEF T
  <2>3. Nat \subseteq T
    BY <2>1, <2>2, Components!Induction
  <2> QED BY <1>1, <2>3 DEF T
<1>13. ASSUME NEW D, Whole(parents, D), t \in D
       PROVE  acc[n] \subseteq D
  <2>1. n \in 0..n
    BY <1>1
  <2> QED BY <1>7, <1>13, <2>1 DEF Whole, V
<1> QED BY <1>3, <1>11, <1>12, <1>13 DEF Whole, V

\* A task that is joined to another has that one joined to it.
LEMMA ComponentMutual ==
    ASSUME NEW parents, IsFiniteSet(DOMAIN parents), NEW t \in DOMAIN parents, NEW u \in Component(parents, t)
    PROVE  u \in DOMAIN parents /\ t \in Component(parents, u)
<1>1. u \in DOMAIN parents
  BY ComponentWhole DEF Whole
<1> DEFINE C == Component(parents, u)
           D == DOMAIN parents \ C
<1> HIDE DEF C
<1>2. u \in C /\ Whole(parents, C)
  BY <1>1, ComponentWhole DEF C
<1>3. Whole(parents, D)
  BY <1>2 DEF Whole, Adjacent
<1>4. t \notin D
  <2> HIDE DEF D
  <2>1. t \in D => u \in D
    BY <1>3, ComponentWhole
  <2> QED BY <1>2, <2>1 DEF D
<1> QED BY <1>1, <1>4 DEF C

JoinedAt(near, T, i) == T \cup UNION {near[f] : f \in T}
Joining == INSTANCE FoldFacts WITH Op <- JoinedAt

LEMMA JoinedClosed ==
    ASSUME NEW near, IsFiniteSet(DOMAIN near), \A f \in DOMAIN near : near[f] \subseteq DOMAIN near,
           NEW E, E \subseteq DOMAIN near
    PROVE  /\ E \subseteq Joined(near, E) /\ Joined(near, E) \subseteq DOMAIN near
           /\ \A f \in Joined(near, E) : near[f] \subseteq Joined(near, E)
<1> DEFINE V == DOMAIN near
           n == Cardinality(V)
<1>1. n \in Nat /\ DOMAIN Upto(n) = 1..n
  BY FS_CardinalityType DEF Upto
<1>2. Joined(near, E) = Joining!Fold(near, E, Upto(n))
  BY DEF Joined, FoldLeft, MapThenFoldSet, Max, Joining!Fold, Joining!Top, JoinedAt, Upto
<1> HIDE DEF n
<1>3. PICK acc : Joining!Trajectory(acc, near, E, Upto(n), n) /\ Joined(near, E) = acc[n]
  BY <1>1, <1>2, Joining!FoldGoes
<1>4. acc[0] = E /\ \A k \in 1..n : acc[k] = JoinedAt(near, acc[k - 1], Upto(n)[k])
  BY <1>3 DEF Joining!Trajectory
<1>5. \A k \in 1..n : acc[k] = acc[k - 1] \cup UNION {near[f] : f \in acc[k - 1]}
  BY <1>4 DEF JoinedAt
<1> HIDE DEF V
<1>6. IsFiniteSet(V) /\ E \subseteq V /\ \A f \in V : near[f] \subseteq V
  BY DEF V
<1> DEFINE T == {k \in Nat : k <= n => acc[k] \subseteq V /\ E \subseteq acc[k]}
<1>7. 0 \in T
  BY <1>4, <1>6
<1>8. ASSUME NEW k \in Nat, k \in T
      PROVE  k + 1 \in T
  <2> SUFFICES ASSUME k + 1 <= n PROVE acc[k + 1] \subseteq V /\ E \subseteq acc[k + 1]
    OBVIOUS
  <2>1. k + 1 \in 1..n /\ k + 1 - 1 = k /\ acc[k] \subseteq V /\ E \subseteq acc[k]
    BY <1>1, <1>8
  <2>2. acc[k + 1] = acc[k] \cup UNION {near[f] : f \in acc[k]}
    BY <1>5, <2>1
  <2> QED BY <1>6, <2>1, <2>2
<1> HIDE DEF T
<1>9. Nat \subseteq T
  BY <1>7, <1>8, Joining!Induction
<1>10. \A k \in 0..n : acc[k] \subseteq V /\ E \subseteq acc[k]
  BY <1>9 DEF T
<1> DEFINE F == {D \in SUBSET V : \A f \in D : near[f] \subseteq D}
<1>11. \A k \in 1..n : acc[k - 1] \subseteq acc[k] /\ (acc[k] = acc[k - 1] <=> acc[k - 1] \in F)
  <2> SUFFICES ASSUME NEW k \in 1..n
               PROVE  acc[k - 1] \subseteq acc[k] /\ (acc[k] = acc[k - 1] <=> acc[k - 1] \in F)
    OBVIOUS
  <2>1. k - 1 \in 0..n
    BY <1>1
  <2>2. acc[k - 1] \subseteq V
    BY <1>10, <2>1
  <2>3. acc[k] = acc[k - 1] \cup UNION {near[f] : f \in acc[k - 1]}
    BY <1>5
  <2> QED BY <2>2, <2>3
<1>12. V \in F /\ n <= n /\ n = Cardinality(V)
  BY <1>1, <1>6 DEF n
<1>13. acc[n] \in F
  <2> HIDE DEF F
  <2> QED BY <1>1, <1>6, <1>10, <1>11, <1>12, Saturates
<1>14. n \in 0..n
  BY <1>1
<1> QED BY <1>3, <1>10, <1>13, <1>14 DEF V

-----------------------------------------------------------------------------
(* The events of a trace with their tasks *)

\* What is assumed of the events beyond their identities: None is no set of these, and a task has
\* finitely many parents.
Sound(S) == /\ \A ids \in SUBSET IdsOf(S) : ids # None
            /\ \A e \in S : IsFiniteSet(e.parents)

LEMMA SkewedSound ==
    ASSUME NEW sc \in Scenarios, NEW skew \in Skews
    PROVE  Sound(By(skew, sc.given) \cup By(skew, sc.late))
<1> DEFINE S == sc.given \cup sc.late
           Moved(e) == [e EXCEPT !.at = @ + skew[e.epoch]]
           T == By(skew, sc.given) \cup By(skew, sc.late)
<1>1. Identified(S) /\ (\A ids \in SUBSET {e.id : e \in S} : ids # None) /\ \A e \in S : IsFiniteSet(e.parents)
  BY TraceAssumption
<1>2. T = {Moved(e) : e \in S}
  BY DEF By
<1>3. \A e \in S : Moved(e).id = e.id /\ Moved(e).parents = e.parents
  BY <1>1 DEF Identified, IsEvent, Blank
<1> HIDE DEF Moved, S, T
<1>4. IdsOf(T) = {e.id : e \in S}
  BY <1>2, <1>3 DEF IdsOf
<1>5. \A e \in T : IsFiniteSet(e.parents)
  BY <1>1, <1>2, <1>3
<1>6. Sound(T)
  BY <1>1, <1>4, <1>5 DEF Sound
<1> QED BY <1>6 DEF T

LEMMA AlwaysSound == SummarySpec => []Sound(stored \cup late)
<1>1. SummaryInit => Sound(stored \cup late)
  BY SkewedSound DEF SummaryInit
<1>2. Sound(stored \cup late) /\ [SummaryNext]_<<stored, late>> => Sound(stored \cup late)'
  <2>1. ASSUME [SummaryNext]_<<stored, late>>
        PROVE  stored' \cup late' = stored \cup late
    BY <2>1 DEF SummaryNext, Arrive
  <2> QED BY <2>1 DEF Sound, IdsOf
<1> QED BY <1>1, <1>2, PTL DEF SummarySpec

LEMMA SubsetSound ==
    ASSUME NEW S, Sound(S), NEW T, T \subseteq S
    PROVE  Sound(T)
BY DEF Sound, IdsOf

LEMMA TasksFinite ==
    ASSUME NEW S, IsFiniteSet(S), Sound(S)
    PROVE  IsFiniteSet(Tasks(S))
<1> DEFINE Parents(U) == UNION {e.parents : e \in U}
           T == {n \in Nat : \A U \in SUBSET S : Cardinality(U) <= n => IsFiniteSet(Parents(U))}
<1>1. \A U \in SUBSET S : IsFiniteSet(U) /\ Cardinality(U) \in Nat /\ (Cardinality(U) = 0 <=> U = {})
  BY FS_Subset, FS_CardinalityType, FS_EmptySet
<1>2. 0 \in T
  <2>1. \A U \in SUBSET S : Cardinality(U) <= 0 => U = {}
    BY <1>1
  <2>2. Parents({}) = {}
    OBVIOUS
  <2> HIDE DEF Parents
  <2> QED BY <2>1, <2>2, FS_EmptySet
<1>3. ASSUME NEW n \in Nat, n \in T
      PROVE  n + 1 \in T
  <2> SUFFICES ASSUME NEW U \in SUBSET S, Cardinality(U) <= n + 1
               PROVE  IsFiniteSet(Parents(U))
    OBVIOUS
  <2>1. CASE U = {}
    <3>1. Parents({}) = {}
      OBVIOUS
    <3> HIDE DEF Parents
    <3> QED BY <2>1, <3>1, FS_EmptySet
  <2>2. CASE U # {}
    <3>1. PICK e \in U : TRUE
      BY <2>2
    <3> DEFINE W == U \ {e}
    <3>2. W \in SUBSET S /\ Cardinality(W) <= n
      BY <1>1, <3>1, FS_RemoveElement
    <3>3. IsFiniteSet(Parents(W))
      BY <1>3, <3>2
    <3>4. Parents(U) = Parents(W) \cup e.parents
      BY <3>1
    <3>5. IsFiniteSet(e.parents)
      BY <3>1 DEF Sound
    <3> HIDE DEF Parents
    <3> QED BY <3>3, <3>4, <3>5, FS_Union
  <2> QED BY <2>1, <2>2
<1> HIDE DEF T
<1>4. Nat \subseteq T
  BY <1>2, <1>3, Components!Induction
<1>5. IsFiniteSet(Parents(S))
  BY <1>1, <1>4 DEF T
<1>6. IsFiniteSet({e.task : e \in S})
  <2> DEFINE f == [e \in S |-> e.task]
  <2>1. {e.task : e \in S} = {f[e] : e \in S} /\ f = [e \in S |-> f[e]]
    OBVIOUS
  <2> HIDE DEF f
  <2> QED BY <2>1, ImageFinite
<1>7. Tasks(S) \in SUBSET ({e.task : e \in S} \cup Parents(S))
  BY DEF Tasks
<1> DEFINE X == {e.task : e \in S}
<1> HIDE DEF Parents, X
<1>8. IsFiniteSet(X \cup Parents(S))
  BY <1>5, <1>6, FS_Union DEF X
<1> QED BY <1>7, <1>8, FS_Subset DEF X

\* The fields of the work of the events S
WorkOf(S, w) ==
    /\ w.events = S /\ w.ids = IdsOf(S) /\ DOMAIN w.parents = Tasks(S)
    /\ w.joined = [t \in Tasks(S) |-> Component(w.parents, t)]
    /\ w.span = [i \in IdsOf(S) |-> SpanStart(S, CHOOSE e \in S : e.id = i)]

LEMMA WorkHolds ==
    ASSUME NEW S
    PROVE  WorkOf(S, Work(S))
<1> DEFINE parents == [t \in Tasks(S) |-> TaskParents(S, t)]
<1>1. Work(S) = [events |-> S, ids |-> IdsOf(S), parents |-> parents,
                 joined |-> [t \in Tasks(S) |-> Component(parents, t)],
                 span |-> [i \in IdsOf(S) |-> SpanStart(S, CHOOSE e \in S : e.id = i)]]
  BY TabledIs DEF Work, IdsOf
<1>2. DOMAIN parents = Tasks(S)
  OBVIOUS
<1> HIDE DEF parents
<1> QED BY <1>1, <1>2 DEF WorkOf

LEMMA JoinedTasks ==
    ASSUME NEW S, IsFiniteSet(S), Sound(S), NEW w, WorkOf(S, w), NEW t \in Tasks(S)
    PROVE  /\ t \in w.joined[t] /\ w.joined[t] \subseteq Tasks(S)
           /\ \A u \in w.joined[t] : t \in w.joined[u]
<1>1. IsFiniteSet(DOMAIN w.parents) /\ DOMAIN w.parents = Tasks(S)
  BY TasksFinite DEF WorkOf
<1>2. \A u \in Tasks(S) : w.joined[u] = Component(w.parents, u)
  BY DEF WorkOf
<1>3. t \in Component(w.parents, t) /\ Whole(w.parents, Component(w.parents, t))
  BY <1>1, ComponentWhole
<1>4. \A u \in Component(w.parents, t) : u \in Tasks(S) /\ t \in Component(w.parents, u)
  BY <1>1, ComponentMutual
<1> QED BY <1>2, <1>3, <1>4

LEMMA LinkedMutual ==
    ASSUME NEW S, IsFiniteSet(S), Sound(S), NEW w, WorkOf(S, w), NEW e \in S, NEW f \in S, Linked(w, e, f)
    PROVE  Linked(w, f, e)
<1>1. CASE e.parent = f.id \/ f.parent = e.id
  BY <1>1 DEF Linked
<1>2. CASE e.task # None /\ f.task # None /\ f.task \in w.joined[e.task]
  <2>1. e.task \in Tasks(S)
    BY <1>2 DEF Tasks
  <2>2. e.task \in w.joined[f.task]
    BY <1>2, <2>1, JoinedTasks
  <2> QED BY <1>2, <2>2 DEF Linked
<1> QED BY <1>1, <1>2 DEF Linked

-----------------------------------------------------------------------------
(* Rounds: what begins one, and the events it owns *)

LEMMA SoleIn ==
    ASSUME NEW X, IsFiniteSet(X), NEW d
    PROVE  Sole(X, d) = d \/ Sole(X, d) \in X
<1>1. CASE Cardinality(X) = 1
  <2>1. \E x : X = {x}
    BY <1>1, FS_Singleton
  <2> QED BY <1>1, <2>1 DEF Sole
<1>2. CASE Cardinality(X) # 1
  BY <1>2 DEF Sole
<1> QED BY <1>1, <1>2

\* I does not part what is linked.
Apart(w, I) == \A e, f \in w.events : Linked(w, e, f) => (e.id \in I <=> f.id \in I)

LEMMA TriggersKnown ==
    ASSUME NEW w, w.ids = IdsOf(w.events)
    PROVE  Triggers(w) \subseteq w.ids
BY DEF Triggers, IdsOf

LEMMA TogetherHolds ==
    ASSUME NEW S, Identified(S), Sound(S), NEW w, WorkOf(S, w), NEW all, all \subseteq S, NEW e \in all
    PROVE  /\ e \in Together(w, all, e) /\ Together(w, all, e) \subseteq all
           /\ \A f \in Together(w, all, e) : f = e \/ Linked(w, e, f)
<1> DEFINE group == {f \in all : f.task \in w.joined[e.task]}
           lone == e.task = None \/ \E f, g \in group : f # g /\ f.task = g.task
<1>1. Together(w, all, e) = IF lone THEN {e} ELSE group
  BY DEF Together
<1>2. CASE lone
  <2> HIDE DEF lone
  <2> QED BY <1>1, <1>2
<1>3. CASE ~lone
  <2>1. e.task # None /\ e.task \in Tasks(S)
    BY <1>3 DEF Tasks
  <2>2. e.task \in w.joined[e.task] /\ w.joined[e.task] \subseteq Tasks(S)
    BY <2>1, JoinedTasks DEF Identified
  <2>3. e \in group
    BY <2>2
  <2>4. ASSUME NEW f \in group
        PROVE  Linked(w, e, f)
    <3>1. f.task \in w.joined[e.task] /\ f.task # None
      BY <2>2 DEF Tasks
    <3> QED BY <2>1, <3>1 DEF Linked
  <2>5. Together(w, all, e) = group
    <3> HIDE DEF lone
    <3> QED BY <1>1, <1>3
  <2>6. group \subseteq all
    OBVIOUS
  <2> HIDE DEF group
  <2> QED BY <2>3, <2>4, <2>5, <2>6
<1> QED BY <1>2, <1>3

\* A round that is begun is a set of linked dispatches, or one trigger.
LEMMA SeedsHold ==
    ASSUME NEW S, Identified(S), Sound(S), NEW w, WorkOf(S, w), NEW s \in SeedsOf(w)
    PROVE  /\ s # {} /\ s \subseteq IdsOf(S)
           /\ \A I : Apart(w, I) => \A i, k \in s : i \in I <=> k \in I
<1>1. w.events = S /\ w.ids = IdsOf(S)
  BY DEF WorkOf
<1>2. CASE \E i \in Triggers(w) : s = {i}
  BY <1>1, <1>2, TriggersKnown
<1>3. CASE s \in Initial(w)
  <2> DEFINE all == Dispatches(w)
  <2>1. all \subseteq S
    BY <1>1 DEF Dispatches
  <2>2. Initial(w) = {{f.id : f \in Together(w, all, e)} : e \in all}
    BY DEF Initial
  <2> HIDE DEF all
  <2>3. PICK e \in all : s = {f.id : f \in Together(w, all, e)}
    BY <1>3, <2>2
  <2> DEFINE group == Together(w, all, e)
  <2>4. e \in group /\ group \subseteq all /\ \A f \in group : f = e \/ Linked(w, e, f)
    BY <2>1, TogetherHolds
  <2> HIDE DEF group
  <2>5. s = {f.id : f \in group}
    BY <2>3 DEF group
  <2>6. s # {} /\ s \subseteq IdsOf(S)
    BY <2>1, <2>4, <2>5 DEF IdsOf
  <2>7. ASSUME NEW I, Apart(w, I), NEW i \in s
        PROVE  i \in I <=> e.id \in I
    <3>1. PICK f \in group : i = f.id
      BY <2>5
    <3>2. f = e \/ (Linked(w, e, f) /\ e \in w.events /\ f \in w.events)
      BY <1>1, <2>1, <2>4
    <3> QED BY <2>7, <3>1, <3>2 DEF Apart
  <2> QED BY <2>6, <2>7
<1> QED BY <1>2, <1>3 DEF SeedsOf

LEMMA IdsFinite ==
    ASSUME NEW S, IsFiniteSet(S)
    PROVE  IsFiniteSet(IdsOf(S))
<1> DEFINE f == [e \in S |-> e.id]
<1>1. IdsOf(S) = {f[e] : e \in S} /\ f = [e \in S |-> f[e]]
  BY DEF IdsOf
<1> HIDE DEF f
<1> QED BY <1>1, ImageFinite

LEMMA SeedsFinite ==
    ASSUME NEW S, IsFiniteSet(S), NEW w, WorkOf(S, w)
    PROVE  IsFiniteSet(SeedsOf(w)) /\ IsFiniteSet(Initial(w))
<1>1. w.events = S /\ w.ids = IdsOf(S)
  BY DEF WorkOf
<1>2. IsFiniteSet(IdsOf(S))
  BY IdsFinite
<1>3. IsFiniteSet(Triggers(w))
  BY <1>1, <1>2, TriggersKnown, FS_Subset
<1>4. IsFiniteSet({{i} : i \in Triggers(w)})
  <2> DEFINE T == Triggers(w)
             f == [i \in T |-> {i}]
  <2>1. {{i} : i \in T} = {f[i] : i \in T} /\ f = [i \in T |-> f[i]]
    OBVIOUS
  <2>2. IsFiniteSet(T)
    BY <1>3
  <2> HIDE DEF f, T
  <2>3. IsFiniteSet({f[i] : i \in T})
    BY <2>1, <2>2, ImageFinite
  <2> QED BY <2>1, <2>3 DEF T
<1>5. IsFiniteSet(Initial(w))
  <2> DEFINE all == Dispatches(w)
             f == [e \in all |-> {g.id : g \in Together(w, all, e)}]
  <2>1. all \in SUBSET S
    BY <1>1 DEF Dispatches
  <2>2. IsFiniteSet(all)
    <3> HIDE DEF all
    <3> QED BY <2>1, FS_Subset
  <2>3. Initial(w) = {f[e] : e \in all} /\ f = [e \in all |-> f[e]]
    BY DEF Initial
  <2> HIDE DEF f, all
  <2> QED BY <2>2, <2>3, ImageFinite
<1> QED BY <1>4, <1>5, FS_Union DEF SeedsOf

\* s is nothing, or a round all of whose beginning is linked to the event i.
Owns(w, s, i) == s = None \/ (s \in SeedsOf(w) /\ \A I : Apart(w, I) => \A k \in s : k \in I <=> i \in I)

LEMMA OtherwiseOwns ==
    ASSUME NEW w, NEW i, NEW s, Owns(w, s, i), NEW r, Owns(w, r, i)
    PROVE  Owns(w, Otherwise(s, r), i)
BY DEF Otherwise

\* What owns an event owns those linked to it.
LEMMA OwnsLinked ==
    ASSUME NEW w, NEW e \in w.events, NEW f \in w.events, Linked(w, e, f), NEW s, Owns(w, s, f.id)
    PROVE  Owns(w, s, e.id)
BY DEF Owns, Apart

\* A round that holds an event, or one that is linked to it, owns it.
LEMMA HeldOwns ==
    ASSUME NEW S, Identified(S), Sound(S), NEW w, WorkOf(S, w), NEW s \in SeedsOf(w), NEW i \in s
    PROVE  Owns(w, s, i)
BY SeedsHold DEF Owns

LEMMA IdOf ==
    ASSUME NEW S, Identified(S), NEW i \in IdsOf(S)
    PROVE  /\ (CHOOSE e \in S : e.id = i) \in S
           /\ (CHOOSE e \in S : e.id = i).id = i
BY DEF IdsOf

\* The start of the span of an event is linked to it.
LEMMA SpanLinked ==
    ASSUME NEW S, Identified(S), Sound(S), NEW w, WorkOf(S, w), NEW e \in S, NEW f \in S,
           f.id = SpanStart(S, e)
    PROVE  Linked(w, e, f)
<1> DEFINE X == {h.id : h \in {g \in S : g.type = "run.started" /\ g.task = e.task /\ g.run = e.run}}
<1>1. f.id \in Nat /\ None \notin Nat
  BY TraceAssumption DEF Identified, IsEvent
<1>2. SpanStart(S, e) = IF e.type \notin RunTypes \/ None \in {e.task, e.run} THEN None ELSE Sole(X, None)
  BY DEF SpanStart
<1>3. IsFiniteSet(X)
  <2> DEFINE G == {g \in S : g.type = "run.started" /\ g.task = e.task /\ g.run = e.run}
             h == [g \in G |-> g.id]
  <2>1. X = {h[g] : g \in G} /\ h = [g \in G |-> h[g]] /\ G \in SUBSET S
    OBVIOUS
  <2> HIDE DEF h, G, X
  <2>2. IsFiniteSet(G)
    BY <2>1, FS_Subset DEF Identified
  <2> QED BY <2>1, <2>2, ImageFinite
<1>4. e.task # None /\ f.id = Sole(X, None)
  <2> HIDE DEF X
  <2> QED BY <1>1, <1>2
<1>5. f.id \in X
  <2> HIDE DEF X
  <2> QED BY <1>1, <1>3, <1>4, SoleIn
<1>6. PICK g \in S : g.id = f.id /\ g.task = e.task
  BY <1>5
<1>7. f.task = e.task
  BY <1>6 DEF Identified
<1>8. e.task \in Tasks(S)
  BY <1>4 DEF Tasks
<1>9. e.task \in w.joined[e.task]
  BY <1>8, JoinedTasks DEF Identified
<1> QED BY <1>4, <1>7, <1>9 DEF Linked

\* What is answered of an event owns it, if what is answered of the others owns them.
LEMMA AnswerOwns ==
    ASSUME NEW S, Identified(S), Sound(S), NEW w, WorkOf(S, w), NEW find, NEW seen, NEW j \in IdsOf(S),
           \A k \in IdsOf(S) \ (seen \cup {j}) : Owns(w, find[seen \cup {j}][k], k)
    PROVE  Owns(w, Answer(w, Initial(w), find, seen, j), j)
<1> DEFINE e == CHOOSE f \in w.events : f.id = j
           begun == SeedsOf(w)
           X == {s \in begun : j \in s}
           Y == {s \in Initial(w) : \E f \in w.events : f.id \in s /\ f.task # None /\ e.task \in w.joined[f.task]}
           up(k) == IF k \in w.ids \ (seen \cup {j}) THEN find[seen \cup {j}][k] ELSE None
           ofTask == IF e.task # None THEN Sole(Y, None) ELSE None
<1>1. w.events = S /\ w.ids = IdsOf(S) /\ IsFiniteSet(S)
  BY DEF WorkOf, Identified
<1>2. Answer(w, Initial(w), find, seen, j) =
          IF j \in seen THEN None
          ELSE Otherwise(Sole(X, None), Otherwise(up(w.span[j]), Otherwise(up(e.parent), ofTask)))
  BY DEF Answer, SeedsOf
<1>3. e \in S /\ e.id = j
  BY <1>1, IdOf
<1>4. Owns(w, Sole(X, None), j)
  <2>1. IsFiniteSet(X)
    <3>1. X \in SUBSET begun /\ IsFiniteSet(begun)
      BY <1>1, SeedsFinite
    <3> HIDE DEF X, begun
    <3> QED BY <3>1, FS_Subset
  <2>2. Sole(X, None) = None \/ Sole(X, None) \in X
    BY <2>1, SoleIn
  <2>3. \A s \in X : Owns(w, s, j)
    BY HeldOwns
  <2> HIDE DEF X
  <2> QED BY <2>2, <2>3 DEF Owns
<1> HIDE DEF e
<1>5. ASSUME NEW f \in S, Linked(w, e, f)
      PROVE  Owns(w, up(f.id), j)
  <2>1. CASE f.id \in w.ids \ (seen \cup {j})
    <3>1. Owns(w, find[seen \cup {j}][f.id], f.id)
      BY <1>1, <2>1
    <3>2. Owns(w, find[seen \cup {j}][f.id], e.id)
      BY <1>1, <1>3, <1>5, <3>1, OwnsLinked
    <3> QED BY <1>3, <2>1, <3>2
  <2>2. CASE f.id \notin w.ids \ (seen \cup {j})
    BY <2>2 DEF Owns
  <2> QED BY <2>1, <2>2
<1>6. Owns(w, up(w.span[j]), j)
  <2> DEFINE k == w.span[j]
  <2>1. k = SpanStart(S, e)
    BY <1>1 DEF WorkOf, e
  <2> HIDE DEF k
  <2>2. CASE k \in IdsOf(S)
    <3>1. PICK f \in S : f.id = k
      BY <2>2 DEF IdsOf
    <3>2. Linked(w, e, f)
      BY <1>3, <2>1, <3>1, SpanLinked
    <3>3. Owns(w, up(f.id), j)
      BY <1>5, <3>2
    <3> QED BY <3>1, <3>3 DEF k
  <2>3. CASE k \notin IdsOf(S)
    BY <1>1, <2>3 DEF Owns, k
  <2> QED BY <2>2, <2>3
<1>7. Owns(w, up(e.parent), j)
  <2>1. CASE e.parent \in IdsOf(S)
    <3>1. PICK f \in S : f.id = e.parent
      BY <2>1 DEF IdsOf
    <3>2. Linked(w, e, f)
      BY <3>1 DEF Linked
    <3>3. Owns(w, up(f.id), j)
      BY <1>5, <3>2
    <3> QED BY <3>1, <3>3
  <2>2. CASE e.parent \notin IdsOf(S)
    BY <1>1, <2>2 DEF Owns
  <2> QED BY <2>1, <2>2
<1>8. Owns(w, ofTask, j)
  <2>1. IsFiniteSet(Y)
    <3>1. Y \in SUBSET Initial(w) /\ IsFiniteSet(Initial(w))
      BY <1>1, SeedsFinite
    <3> HIDE DEF Y
    <3> QED BY <3>1, FS_Subset
  <2>2. Sole(Y, None) = None \/ Sole(Y, None) \in Y
    <3> HIDE DEF Y
    <3> QED BY <2>1, SoleIn
  <2>3. ASSUME e.task # None, NEW s \in Y
        PROVE  Owns(w, s, j)
    <3>1. PICK f \in S : f.id \in s /\ f.task # None /\ e.task \in w.joined[f.task]
      BY <1>1
    <3>2. s \in SeedsOf(w)
      BY DEF SeedsOf
    <3>3. Linked(w, f, e)
      BY <2>3, <3>1 DEF Linked
    <3>4. Linked(w, e, f)
      BY <1>1, <1>3, <3>3, LinkedMutual
    <3>5. Owns(w, s, f.id)
      BY <3>1, <3>2, HeldOwns
    <3> QED BY <1>1, <1>3, <3>4, <3>5, OwnsLinked
  <2> HIDE DEF Y
  <2> QED BY <2>2, <2>3 DEF Owns
<1> DEFINE a == Sole(X, None)
           b == up(w.span[j])
           c == up(e.parent)
<1> HIDE DEF a, b, c, ofTask, up, X, Y
<1>9. Owns(w, a, j) /\ Owns(w, b, j) /\ Owns(w, c, j) /\ Owns(w, ofTask, j)
  BY <1>4, <1>6, <1>7, <1>8 DEF a, b, c
<1>10. Owns(w, Otherwise(c, ofTask), j)
  BY <1>9, OtherwiseOwns
<1>11. Owns(w, Otherwise(b, Otherwise(c, ofTask)), j)
  BY <1>9, <1>10, OtherwiseOwns
<1>12. Owns(w, Otherwise(a, Otherwise(b, Otherwise(c, ofTask))), j)
  BY <1>9, <1>11, OtherwiseOwns
<1>13. Owns(w, None, j)
  BY DEF Owns
<1> QED BY <1>2, <1>12, <1>13 DEF a, b, c

-----------------------------------------------------------------------------
(* The owner of an event: the search ends, and what it finds is linked      *)

\* The search, of everything; and of what is left to ask for when fewer than m events are.
Searches(w, initial, find) ==
    find = [seen \in SUBSET w.ids |-> [j \in w.ids |-> Answer(w, initial, find, seen, j)]]
SearchesUpTo(w, initial, find, m) ==
    find = [seen \in SUBSET w.ids |-> IF Cardinality(w.ids \ seen) < m
                                      THEN [j \in w.ids |-> Answer(w, initial, find, seen, j)] ELSE {}]

LEMMA AnswerSame ==
    ASSUME NEW w, NEW initial, NEW find, NEW other, NEW seen, NEW j,
           j \in seen \/ find[seen \cup {j}] = other[seen \cup {j}]
    PROVE  Answer(w, initial, find, seen, j) = Answer(w, initial, other, seen, j)
BY DEF Answer

LEMMA FewerLeft ==
    ASSUME NEW ids, IsFiniteSet(ids), NEW seen \in SUBSET ids, NEW j \in ids, j \notin seen
    PROVE  /\ Cardinality(ids \ seen) \in Nat /\ Cardinality(ids \ (seen \cup {j})) \in Nat
           /\ Cardinality(ids \ (seen \cup {j})) < Cardinality(ids \ seen)
<1> DEFINE left == ids \ seen
<1>1. IsFiniteSet(left) /\ Cardinality(left) \in Nat
  <2>1. left \in SUBSET ids
    OBVIOUS
  <2> HIDE DEF left
  <2> QED BY <2>1, FS_Subset, FS_CardinalityType
<1>2. ids \ (seen \cup {j}) = left \ {j} /\ j \in left
  OBVIOUS
<1> HIDE DEF left
<1>3. Cardinality(left \ {j}) = Cardinality(left) - 1 /\ IsFiniteSet(left \ {j})
  BY <1>1, <1>2, FS_RemoveElement
<1>4. Cardinality(left \ {j}) \in Nat
  BY <1>3, FS_CardinalityType
<1> DEFINE more == ids \ (seen \cup {j})
<1>5. more = left \ {j}
  BY <1>2
<1> HIDE DEF more
<1>6. Cardinality(more) \in Nat /\ Cardinality(more) < Cardinality(left)
  BY <1>1, <1>3, <1>4, <1>5
<1> QED BY <1>1, <1>6 DEF left, more

\* There is such a search: each question is asked with one event more that is being asked for.
LEMMA Searchable ==
    ASSUME NEW w, IsFiniteSet(w.ids), NEW initial
    PROVE  \E find : Searches(w, initial, find)
<1> DEFINE ids == w.ids
           T == {m \in Nat : \E find : SearchesUpTo(w, initial, find, m)}
<1> HIDE DEF ids
<1>0. IsFiniteSet(ids) /\ ids = w.ids
  BY DEF ids
<1>1. \A seen \in SUBSET ids : Cardinality(ids \ seen) \in Nat /\ Cardinality(ids \ seen) <= Cardinality(ids)
  <2> SUFFICES ASSUME NEW seen \in SUBSET ids
               PROVE  Cardinality(ids \ seen) \in Nat /\ Cardinality(ids \ seen) <= Cardinality(ids)
    OBVIOUS
  <2>1. ids \ seen \in SUBSET ids
    OBVIOUS
  <2> QED BY <1>0, <2>1, FS_Subset, FS_CardinalityType
<1>2. 0 \in T
  <2> DEFINE none == [seen \in SUBSET ids |-> {}]
  <2>1. \A seen \in SUBSET ids : ~(Cardinality(ids \ seen) < 0)
    BY <1>1
  <2>2. SearchesUpTo(w, initial, none, 0)
    BY <1>0, <2>1 DEF SearchesUpTo
  <2> HIDE DEF none
  <2> QED BY <2>2
<1>3. ASSUME NEW m \in Nat, m \in T
      PROVE  m + 1 \in T
  <2>1. PICK find : SearchesUpTo(w, initial, find, m)
    BY <1>3
  <2> DEFINE next == [seen \in SUBSET ids |-> IF Cardinality(ids \ seen) < m + 1
                                              THEN [j \in ids |-> Answer(w, initial, find, seen, j)] ELSE {}]
  <2>2. \A seen \in SUBSET ids :
            find[seen] = IF Cardinality(ids \ seen) < m THEN [j \in ids |-> Answer(w, initial, find, seen, j)] ELSE {}
    BY <1>0, <2>1 DEF SearchesUpTo
  <2>3. \A seen \in SUBSET ids : Cardinality(ids \ seen) < m => next[seen] = find[seen]
    <3> SUFFICES ASSUME NEW seen \in SUBSET ids, Cardinality(ids \ seen) < m
                 PROVE  next[seen] = find[seen]
      OBVIOUS
    <3>1. Cardinality(ids \ seen) < m + 1
      <4> DEFINE c == Cardinality(ids \ seen)
      <4>1. c \in Nat /\ c < m
        BY <1>1
      <4> HIDE DEF c
      <4>2. c < m + 1
        BY <4>1
      <4> QED BY <4>2 DEF c
    <3> QED BY <2>2, <3>1
  <2>4. ASSUME NEW seen \in SUBSET ids, Cardinality(ids \ seen) < m + 1, NEW j \in ids
        PROVE  Answer(w, initial, next, seen, j) = Answer(w, initial, find, seen, j)
    <3> HIDE DEF next
    <3>1. CASE j \in seen
      BY <3>1, AnswerSame
    <3>2. CASE j \notin seen
      <4>1. Cardinality(ids \ (seen \cup {j})) < m
        <5>1. /\ Cardinality(ids \ seen) \in Nat /\ Cardinality(ids \ (seen \cup {j})) \in Nat
              /\ Cardinality(ids \ (seen \cup {j})) < Cardinality(ids \ seen)
          BY <1>0, <3>2, FewerLeft
        <5> QED BY <2>4, <5>1
      <4>2. seen \cup {j} \in SUBSET ids
        OBVIOUS
      <4>3. next[seen \cup {j}] = find[seen \cup {j}]
        BY <2>3, <4>1, <4>2
      <4> QED BY <4>3, AnswerSame
    <3> QED BY <3>1, <3>2
  <2>5. next = [seen \in SUBSET ids |-> IF Cardinality(ids \ seen) < m + 1
                                        THEN [j \in ids |-> Answer(w, initial, next, seen, j)] ELSE {}]
    <3>1. \A seen \in SUBSET ids : Cardinality(ids \ seen) < m + 1 =>
              [j \in ids |-> Answer(w, initial, next, seen, j)] = [j \in ids |-> Answer(w, initial, find, seen, j)]
      <4> HIDE DEF next
      <4> QED BY <2>4
    <3> DEFINE again == [seen \in SUBSET ids |-> IF Cardinality(ids \ seen) < m + 1
                                                 THEN [j \in ids |-> Answer(w, initial, next, seen, j)] ELSE {}]
    <3>2. \A seen \in SUBSET ids : next[seen] = again[seen]
      BY <3>1
    <3> QED BY <3>2
  <2>6. SearchesUpTo(w, initial, next, m + 1)
    <3> HIDE DEF next
    <3> QED BY <1>0, <2>5 DEF SearchesUpTo
  <2> HIDE DEF next
  <2> QED BY <2>6
<1> HIDE DEF T
<1>4. Nat \subseteq T
  BY <1>2, <1>3, Components!Induction
<1>5. Cardinality(ids) + 1 \in Nat
  BY <1>0, FS_CardinalityType
<1>6. PICK find : SearchesUpTo(w, initial, find, Cardinality(ids) + 1)
  BY <1>4, <1>5 DEF T
<1>7. \A seen \in SUBSET ids : Cardinality(ids \ seen) < Cardinality(ids) + 1
  <2> SUFFICES ASSUME NEW seen \in SUBSET ids
               PROVE  Cardinality(ids \ seen) < Cardinality(ids) + 1
    OBVIOUS
  <2> DEFINE c == Cardinality(ids \ seen)
             n == Cardinality(ids)
  <2>1. c \in Nat /\ c <= n /\ n \in Nat
    BY <1>0, <1>1, FS_CardinalityType
  <2> HIDE DEF c, n
  <2>2. c < n + 1
    BY <2>1
  <2> QED BY <2>2 DEF c, n
<1>8. find = [seen \in SUBSET ids |-> [j \in ids |-> Answer(w, initial, find, seen, j)]]
  BY <1>0, <1>6, <1>7 DEF SearchesUpTo
<1> QED BY <1>0, <1>8 DEF Searches

LEMMA SearchOwns ==
    ASSUME NEW S, Identified(S), Sound(S), NEW w, WorkOf(S, w), IsFiniteSet(w.ids),
           NEW find, Searches(w, Initial(w), find)
    PROVE  \A seen \in SUBSET w.ids : \A j \in w.ids : Owns(w, find[seen][j], j)
<1> DEFINE T == {m \in Nat : \A seen \in SUBSET w.ids : Cardinality(w.ids \ seen) < m =>
                                 \A j \in w.ids : Owns(w, find[seen][j], j)}
<1>1. w.ids = IdsOf(S)
  BY DEF WorkOf
<1>2. \A seen \in SUBSET w.ids : Cardinality(w.ids \ seen) \in Nat
  <2> SUFFICES ASSUME NEW seen \in SUBSET w.ids PROVE Cardinality(w.ids \ seen) \in Nat
    OBVIOUS
  <2>1. w.ids \ seen \in SUBSET w.ids
    OBVIOUS
  <2> QED BY <2>1, FS_Subset, FS_CardinalityType
<1>3. 0 \in T
  BY <1>2
<1>4. ASSUME NEW m \in Nat, m \in T
      PROVE  m + 1 \in T
  <2> SUFFICES ASSUME NEW seen \in SUBSET w.ids, Cardinality(w.ids \ seen) < m + 1, NEW j \in w.ids
               PROVE  Owns(w, find[seen][j], j)
    OBVIOUS
  <2>1. find[seen][j] = Answer(w, Initial(w), find, seen, j)
    BY DEF Searches
  <2>2. CASE j \in seen
    <3>1. Answer(w, Initial(w), find, seen, j) = None
      BY <2>2 DEF Answer
    <3> QED BY <2>1, <3>1 DEF Owns
  <2>3. CASE j \notin seen
    <3> DEFINE more == seen \cup {j}
    <3>1. more \in SUBSET w.ids
      OBVIOUS
    <3>2. Cardinality(w.ids \ more) < m
      <4>1. /\ Cardinality(w.ids \ seen) \in Nat /\ Cardinality(w.ids \ more) \in Nat
            /\ Cardinality(w.ids \ more) < Cardinality(w.ids \ seen)
        BY <2>3, FewerLeft
      <4> HIDE DEF more
      <4> QED BY <4>1
    <3>3. \A k \in w.ids : Owns(w, find[more][k], k)
      <4> HIDE DEF more
      <4> QED BY <1>4, <3>1, <3>2
    <3>4. \A k \in IdsOf(S) \ (seen \cup {j}) : Owns(w, find[seen \cup {j}][k], k)
      BY <1>1, <3>3
    <3>5. Owns(w, Answer(w, Initial(w), find, seen, j), j)
      BY <1>1, <3>4, AnswerOwns
    <3> QED BY <2>1, <3>5
  <2> QED BY <2>2, <2>3
<1> HIDE DEF T
<1>5. Nat \subseteq T
  BY <1>3, <1>4, Components!Induction
<1>6. ASSUME NEW seen \in SUBSET w.ids
      PROVE  \A j \in w.ids : Owns(w, find[seen][j], j)
  <2>1. Cardinality(w.ids \ seen) + 1 \in Nat /\ Cardinality(w.ids \ seen) < Cardinality(w.ids \ seen) + 1
    BY <1>2
  <2> QED BY <1>5, <2>1 DEF T
<1> QED BY <1>6

LEMMA OwnerOwns ==
    ASSUME NEW S, Identified(S), Sound(S), NEW w, WorkOf(S, w), NEW i \in IdsOf(S)
    PROVE  Owns(w, OwnersOf(w)[i], i)
<1> DEFINE find == CHOOSE f : Searches(w, Initial(w), f)
<1>1. w.ids = IdsOf(S) /\ IsFiniteSet(w.ids)
  BY IdsFinite DEF WorkOf, Identified
<1>2. Searches(w, Initial(w), find)
  BY <1>1, Searchable
<1>3. Owner(w, Initial(w), i) = find[{}][i]
  BY DEF Owner, Searches
<1> HIDE DEF find
<1>4. Owns(w, find[{}][i], i)
  BY <1>1, <1>2, SearchOwns
<1>5. OwnersOf(w)[i] = Owner(w, Initial(w), i)
  BY <1>1, TabledIs DEF OwnersOf
<1> QED BY <1>3, <1>4, <1>5

\* The events linked to each event, and those a step rests on
LinkedIn(S, w) == [e \in S |-> {f \in S : Linked(w, e, f)}]
EvidenceOf(S, steps, k) == {e \in S : e.id \in steps[k].evidence}

\* The steps of a round are joined by evidence.
LEMMA StepsJoined ==
    ASSUME NEW S, Identified(S), Sound(S), NEW w, WorkOf(S, w), NEW steps, \A k \in DOMAIN steps : steps[k] \in StepSet(S),
           NEW r \in Rounds(w, steps), NEW k \in r.steps, NEW j \in r.steps
    PROVE  EvidenceOf(S, steps, j) \cap Joined(LinkedIn(S, w), EvidenceOf(S, steps, k)) # {}
<1>1. w.events = S /\ w.ids = IdsOf(S) /\ IsFiniteSet(S)
  BY DEF WorkOf, Identified
<1>2. PICK s \in SeedsOf(w) : r = RoundOf(w, steps, s)
  BY RoundsOf
<1>3. /\ k \in DOMAIN steps /\ OwnersOf(w)[steps[k].anchor] = s
      /\ j \in DOMAIN steps /\ OwnersOf(w)[steps[j].anchor] = s
  BY <1>2 DEF RoundOf
<1>4. /\ steps[k].anchor \in IdsOf(S) /\ steps[k].anchor \in steps[k].evidence
      /\ steps[j].anchor \in IdsOf(S) /\ steps[j].anchor \in steps[j].evidence
  BY <1>3 DEF StepSet
<1>5. Owns(w, s, steps[k].anchor) /\ Owns(w, s, steps[j].anchor)
  BY <1>3, <1>4, OwnerOwns
<1>6. s # {} /\ s \subseteq IdsOf(S) /\ s # None
  BY SeedsHold DEF Sound
<1> DEFINE near == LinkedIn(S, w)
           of == EvidenceOf(S, steps, k)
           to == EvidenceOf(S, steps, j)
           C == Joined(near, of)
           I == IdsOf(C)
<1>7. /\ near = [e \in S |-> {f \in S : Linked(w, e, f)}]
       /\ of = {e \in S : e.id \in steps[k].evidence}
       /\ to = {e \in S : e.id \in steps[j].evidence}
  BY DEF LinkedIn, EvidenceOf
<1> HIDE DEF near, of, to
<1>8. of \subseteq C /\ C \subseteq S /\ \A f \in C : near[f] \subseteq C
  <2>1. DOMAIN near = S /\ (\A f \in S : near[f] \subseteq S) /\ of \subseteq S
    BY <1>7
  <2>2. IsFiniteSet(DOMAIN near) /\ (\A f \in DOMAIN near : near[f] \subseteq DOMAIN near) /\ of \subseteq DOMAIN near
    BY <1>1, <2>1
  <2>3. /\ of \subseteq Joined(near, of) /\ Joined(near, of) \subseteq DOMAIN near
        /\ \A f \in Joined(near, of) : near[f] \subseteq Joined(near, of)
    BY ONLY <2>2, JoinedClosed
  <2> QED BY <2>1, <2>3
<1> HIDE DEF C
<1>9. \A e \in S : e.id \in I <=> e \in C
  BY <1>8 DEF IdsOf, Identified
<1>10. Apart(w, I)
  <2> SUFFICES ASSUME NEW e \in S, NEW f \in S, Linked(w, e, f)
               PROVE  e \in C <=> f \in C
    BY <1>1, <1>9 DEF Apart
  <2>1. Linked(w, f, e)
    BY <1>1, LinkedMutual
  <2>2. f \in near[e] /\ e \in near[f]
    BY <1>7, <2>1
  <2> QED BY <1>8, <2>2
<1> HIDE DEF I
<1>11. steps[k].anchor \in I
  <2>1. PICK e \in S : e.id = steps[k].anchor
    BY <1>4 DEF IdsOf
  <2>2. e \in of
    BY <1>4, <1>7, <2>1
  <2> QED BY <1>8, <1>9, <2>1, <2>2
<1>12. steps[j].anchor \in I
  BY <1>5, <1>6, <1>10, <1>11 DEF Owns
<1>13. PICK e \in S : e.id = steps[j].anchor
  BY <1>4 DEF IdsOf
<1>14. e \in C /\ e \in to
  BY <1>4, <1>9, <1>12, <1>13, <1>7
<1> QED BY <1>14 DEF C, near, of, to

-----------------------------------------------------------------------------
(* Rounds follow one another *)

LaterAt(rounds, T, i) == T \cup After(rounds, T)
Lating == INSTANCE FoldFacts WITH Op <- LaterAt
BackAt(prior, r, i) == IF r = None THEN r ELSE prior[r]
Backing == INSTANCE FoldFacts WITH Op <- BackAt

\* A round that is followed back to within rounds that are is not proven.
LEMMA BackStays ==
    ASSUME NEW prior, IsFiniteSet(DOMAIN prior), NEW L, None \notin L, \A x \in L : prior[x] \in L, NEW s \in L
    PROVE  ~Proven(prior, s)
<1> DEFINE n == Cardinality(DOMAIN prior)
<1>1. n \in Nat /\ DOMAIN Upto(n) = 1..n
  BY FS_CardinalityType DEF Upto
<1>2. Proven(prior, s) <=> Backing!Fold(prior, s, Upto(n)) = None
  BY DEF Proven, FoldLeft, MapThenFoldSet, Max, Backing!Fold, Backing!Top, BackAt, Upto
<1> HIDE DEF n
<1>3. PICK acc : Backing!Trajectory(acc, prior, s, Upto(n), n) /\ Backing!Fold(prior, s, Upto(n)) = acc[n]
  BY <1>1, Backing!FoldGoes
<1>4. acc[0] = s /\ \A k \in 1..n : acc[k] = BackAt(prior, acc[k - 1], Upto(n)[k])
  BY <1>3 DEF Backing!Trajectory
<1> DEFINE T == {k \in Nat : k <= n => acc[k] \in L}
<1>5. 0 \in T
  BY <1>4
<1>6. ASSUME NEW k \in Nat, k \in T
      PROVE  k + 1 \in T
  <2> SUFFICES ASSUME k + 1 <= n PROVE acc[k + 1] \in L
    OBVIOUS
  <2>1. k + 1 \in 1..n /\ k + 1 - 1 = k /\ acc[k] \in L
    BY <1>1, <1>6
  <2>2. acc[k + 1] = BackAt(prior, acc[k], Upto(n)[k + 1])
    BY <1>4, <2>1
  <2> QED BY <2>1, <2>2 DEF BackAt
<1> HIDE DEF T
<1>7. Nat \subseteq T
  BY <1>5, <1>6, Backing!Induction
<1>8. acc[n] \in L
  BY <1>1, <1>7 DEF T
<1> QED BY <1>2, <1>3, <1>8

\* What comes later comes after it, or after what comes later.
LEMMA LaterAfter ==
    ASSUME NEW rounds, IsFiniteSet(rounds), NEW s
    PROVE  \A x \in Later(rounds, s) : \E q \in rounds : q.seed = x /\ q.previous \in Later(rounds, s) \cup {s}
<1> DEFINE n == Cardinality(rounds)
           first == After(rounds, {s})
<1>1. n \in Nat /\ DOMAIN Upto(n) = 1..n
  BY FS_CardinalityType DEF Upto
<1>2. Later(rounds, s) = Lating!Fold(rounds, first, Upto(n))
  BY DEF Later, FoldLeft, MapThenFoldSet, Max, Lating!Fold, Lating!Top, LaterAt, Upto
<1> HIDE DEF n, first
<1>3. PICK acc : Lating!Trajectory(acc, rounds, first, Upto(n), n) /\ Later(rounds, s) = acc[n]
  BY <1>1, <1>2, Lating!FoldGoes
<1>4. acc[0] = first /\ \A k \in 1..n : acc[k] = LaterAt(rounds, acc[k - 1], Upto(n)[k])
  BY <1>3 DEF Lating!Trajectory
<1> DEFINE Follows(A) == \A x \in A : \E q \in rounds : q.seed = x /\ q.previous \in A \cup {s}
           T == {k \in Nat : k <= n => Follows(acc[k])}
<1>5. 0 \in T
  <2>1. Follows(first)
    BY DEF first, After
  <2> HIDE DEF Follows
  <2> QED BY <1>4, <2>1
<1>6. ASSUME NEW k \in Nat, k \in T
      PROVE  k + 1 \in T
  <2> SUFFICES ASSUME k + 1 <= n PROVE Follows(acc[k + 1])
    BY DEF Follows
  <2>1. k + 1 \in 1..n /\ k + 1 - 1 = k
    BY <1>1
  <2>2. acc[k + 1] = acc[k] \cup After(rounds, acc[k])
    BY <1>4, <2>1 DEF LaterAt
  <2>3. Follows(acc[k])
    <3> HIDE DEF Follows
    <3> QED BY <1>1, <1>6, <2>1
  <2> QED BY <2>2, <2>3 DEF After
<1> HIDE DEF T
<1>7. Nat \subseteq T
  BY <1>5, <1>6, Lating!Induction
<1>8. Follows(acc[n])
  <2> HIDE DEF Follows
  <2> QED BY <1>1, <1>7 DEF T
<1> QED BY <1>3, <1>8

\* No round comes before itself.
LEMMA RoundsFollow ==
    ASSUME NEW S, Identified(S), Sound(S), NEW w, WorkOf(S, w), NEW steps, NEW r \in Rounds(w, steps)
    PROVE  r.seed \notin Later(Rounds(w, steps), r.seed)
<1> DEFINE rounds == Rounds(w, steps)
           prior == PriorOf(w, steps)
           seeds == SeedsOf(w)
           s == r.seed
           L == Later(rounds, s)
<1>1. IsFiniteSet(seeds) /\ DOMAIN prior = seeds
  BY SeedsFinite, TabledIs DEF PriorOf, Identified
<1>2. rounds = {RoundOf(w, steps, x) : x \in seeds}
  BY RoundsOf
<1> HIDE DEF seeds, rounds, prior
<1>3. IsFiniteSet(rounds)
  <2> DEFINE f == [x \in seeds |-> RoundOf(w, steps, x)]
  <2>1. rounds = {f[x] : x \in seeds} /\ f = [x \in seeds |-> f[x]]
    BY <1>2
  <2> HIDE DEF f
  <2> QED BY <1>1, <2>1, ImageFinite
<1>4. ASSUME NEW q \in rounds
      PROVE  /\ q.seed \in seeds /\ q.seed # None
             /\ q.previous # None => Proven(prior, q.seed) /\ q.previous = prior[q.seed]
  <2>1. PICK x \in seeds : q = RoundOf(w, steps, x)
    BY <1>2
  <2>2. q.seed = x /\ q.previous = IF Proven(prior, x) THEN prior[x] ELSE None
    BY <2>1 DEF RoundOf, prior
  <2>3. x # {} /\ x \in SUBSET IdsOf(S)
    BY SeedsHold DEF seeds
  <2> QED BY <2>2, <2>3 DEF Sound
<1> SUFFICES ASSUME s \in L PROVE FALSE
  BY DEF rounds
<1>5. \A x \in L : \E q \in rounds : q.seed = x /\ q.previous \in L \cup {s}
  BY <1>3, LaterAfter
<1> HIDE DEF L
<1>6. \A x \in L : \E q \in rounds : q.seed = x /\ q.previous \in L
  BY <1>5
<1>7. None \notin L
  BY <1>4, <1>6
<1>8. \A x \in L : Proven(prior, x) /\ prior[x] \in L
  BY <1>4, <1>6, <1>7
<1> HIDE DEF s
<1>9. ~Proven(prior, s)
  BY <1>1, <1>7, <1>8, BackStays
<1> QED BY <1>8, <1>9

-----------------------------------------------------------------------------
LEMMA RoundsEvident ==
    ASSUME Known, Sound(stored \cup late)
    PROVE  RoundsAreEvidenced
<1> DEFINE E == Range(Seen)
           steps == Steps(Seen)
           w == Work(E)
           rounds == Rounds(w, steps)
           near == Tabled([e \in w.events |-> {f \in w.events : Linked(w, e, f)}])
<1>1. Identified(E) /\ E \subseteq stored /\ Seen \in Seq(E)
  BY SeenIdentified
<1>2. Sound(E)
  <2>1. E \subseteq stored \cup late
    BY <1>1
  <2> HIDE DEF E
  <2> QED BY <2>1, SubsetSound
<1>3. \A k \in DOMAIN steps : steps[k] \in StepSet(E)
  <2>1. steps \in Seq(StepSet(E))
    BY <1>1, StepsOf
  <2> HIDE DEF steps, E
  <2> QED BY <2>1, LenProperties, ElementOfSeq
<1>4. WorkOf(E, w)
  BY WorkHolds
<1>5. w.events = E
  BY <1>4 DEF WorkOf
<1>6. near = LinkedIn(E, w)
  BY <1>5, TabledIs DEF LinkedIn
<1> DEFINE Of(k) == {e \in w.events : e.id \in steps[k].evidence}
<1>7. ASSUME NEW r \in rounds, NEW k \in r.steps, NEW j \in r.steps
      PROVE  Of(j) \cap Joined(near, Of(k)) # {}
  <2>1. Of(k) = EvidenceOf(E, steps, k) /\ Of(j) = EvidenceOf(E, steps, j)
    BY <1>5 DEF EvidenceOf
  <2> HIDE DEF E, steps, w, near, Of
  <2>2. EvidenceOf(E, steps, j) \cap Joined(LinkedIn(E, w), EvidenceOf(E, steps, k)) # {}
    BY <1>1, <1>2, <1>3, <1>4, StepsJoined
  <2> QED BY <1>6, <2>1, <2>2
<1>8. ASSUME NEW r \in rounds
      PROVE  r.seed \notin Later(rounds, r.seed)
  <2> HIDE DEF E, steps, w
  <2> QED BY <1>1, <1>2, <1>4, RoundsFollow
<1> QED BY <1>7, <1>8 DEF RoundsAreEvidenced

\* What a round claims was there, for whatever events and in whatever order they are read: its steps
\* are joined by parents, spans and tasks, and no other round comes before itself; and the peak of
\* a wave is the most of its steps that were under way at one moment.
THEOREM RoundsRestOnEvidence == SummarySpec => []RoundsAreReal
<1>1. Known /\ Sound(stored \cup late) => RoundsAreReal
  BY PeaksAreReal, RoundsEvident DEF RoundsAreReal
<1> QED BY <1>1, AlwaysKnown, AlwaysSound, PTL
=============================================================================
