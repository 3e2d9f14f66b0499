------------------------- MODULE AuditTrail_proofs -------------------------
(***************************************************************************)
(* What the trail of AuditTrail is good for, for any number of volumes,    *)
(* changes and overflows.                                                  *)
(***************************************************************************)
EXTENDS AuditTrail, SequenceTheorems, FiniteSetTheorems, TLAPS

\* The changes of the rows, oldest first.
Trails == Seq(Nat \ {0})

\* What a longer trail holds.
LEMMA Longer ==
  ASSUME NEW t \in Trails, NEW c \in Nat \ {0}
  PROVE  /\ Append(t, c) \in Trails
         /\ Len(t) \in Nat /\ Len(Append(t, c)) = Len(t) + 1
         /\ \A k \in 1 .. Len(t) : Append(t, c)[k] = t[k] /\ t[k] \in Nat \ {0}
         /\ Append(t, c)[Len(t) + 1] = c
BY AppendProperties, LenProperties, ElementOfSeq DEF Trails

LEMMA EmptyTrail == <<>> \in Trails /\ Len(<<>>) = 0
BY EmptySeq DEF Trails

(***************************************************************************)
(* A row more is a step back more, if its change is not a later one than   *)
(* that of the last row.                                                   *)
(***************************************************************************)
Backs(t) == {i \in 1 .. Len(t) - 1 : t[i + 1] <= t[i]}

LEMMA BacksFinite ==
  ASSUME NEW t \in Trails
  PROVE  IsFiniteSet(Backs(t)) /\ StepsBack(t) = Cardinality(Backs(t)) /\ StepsBack(t) \in Nat
<1>1. Len(t) - 1 \in Int /\ 1 \in Int
  BY LenProperties DEF Trails
<1>2. IsFiniteSet(1 .. Len(t) - 1)
  BY <1>1, FS_Interval
<1>3. Backs(t) \in SUBSET (1 .. Len(t) - 1)
  BY DEF Backs
<1>4. IsFiniteSet(Backs(t))
  BY <1>2, <1>3, FS_Subset
<1>5. StepsBack(t) = Cardinality(Backs(t))
  BY DEF StepsBack, Backs
<1> QED
  BY <1>4, <1>5, FS_CardinalityType

LEMMA StepBack ==
  ASSUME NEW t \in Trails, NEW c \in Nat \ {0}
  PROVE  StepsBack(Append(t, c)) =
           StepsBack(t) + (IF t # <<>> /\ c <= t[Len(t)] THEN 1 ELSE 0)
<1> DEFINE n == Len(t)
           s == Append(t, c)
<1>1. /\ n \in Nat /\ Len(s) = n + 1 /\ s \in Trails
      /\ \A k \in 1 .. n : s[k] = t[k]
      /\ s[n + 1] = c
  BY Longer
<1>2. n = 0 <=> t = <<>>
  BY EmptySeq DEF Trails
<1>3. /\ IsFiniteSet(Backs(t)) /\ Cardinality(Backs(t)) \in Nat
      /\ StepsBack(t) = Cardinality(Backs(t)) /\ StepsBack(s) = Cardinality(Backs(s))
  BY <1>1, BacksFinite
<1> HIDE DEF n, s
<1>4. CASE n # 0 /\ c <= t[n]
  <2>1. Backs(s) = Backs(t) \cup {n}
    BY <1>1, <1>4 DEF Backs, n
  <2>2. n \notin Backs(t)
    BY <1>1 DEF Backs, n
  <2>3. Cardinality(Backs(t) \cup {n}) = Cardinality(Backs(t)) + 1
    BY <1>3, <2>2, FS_AddElement
  <2>4. StepsBack(s) = StepsBack(t) + 1
    BY <1>3, <2>1, <2>3
  <2> QED
    BY <1>2, <1>4, <2>4 DEF n, s
<1>5. CASE ~(n # 0 /\ c <= t[n])
  <2>1. Backs(s) = Backs(t)
    BY <1>1, <1>5 DEF Backs, n
  <2> QED
    BY <1>2, <1>3, <1>5, <2>1 DEF n, s
<1> QED
  BY <1>4, <1>5

(***************************************************************************)
(* How many rows tell of a change.                                         *)
(***************************************************************************)
Told(t, c) == {k \in 1 .. Len(t) : t[k] = c}

LEMMA RowMore ==
  ASSUME NEW t \in Trails, NEW c \in Nat \ {0}, NEW d
  PROVE  /\ RowsOf(t, d) \in Nat
         /\ RowsOf(Append(t, c), d) = RowsOf(t, d) + (IF c = d THEN 1 ELSE 0)
<1> DEFINE n == Len(t)
           s == Append(t, c)
<1>1. /\ n \in Nat /\ Len(s) = n + 1
      /\ \A k \in 1 .. n : s[k] = t[k]
      /\ s[n + 1] = c
  BY Longer
<1>2. IsFiniteSet(Told(t, d)) /\ Cardinality(Told(t, d)) \in Nat
  <2>1. IsFiniteSet(1 .. n)
    BY <1>1, FS_Interval
  <2>2. Told(t, d) \in SUBSET (1 .. n)
    BY DEF Told
  <2> QED
    BY <2>1, <2>2, FS_Subset, FS_CardinalityType
<1>3. RowsOf(t, d) = Cardinality(Told(t, d)) /\ RowsOf(s, d) = Cardinality(Told(s, d))
  BY DEF RowsOf, Told
<1> HIDE DEF n, s
<1>4. CASE c = d
  <2>1. Told(s, d) = Told(t, d) \cup {n + 1} /\ n + 1 \notin Told(t, d)
    BY <1>1, <1>4 DEF Told, n
  <2>2. Cardinality(Told(t, d) \cup {n + 1}) = Cardinality(Told(t, d)) + 1
    BY <1>2, <2>1, FS_AddElement
  <2>3. RowsOf(s, d) = RowsOf(t, d) + 1
    BY <1>3, <2>1, <2>2
  <2> QED
    BY <1>2, <1>3, <1>4, <2>3 DEF s
<1>5. CASE c # d
  <2>1. Told(s, d) = Told(t, d)
    BY <1>1, <1>5 DEF Told, n
  <2> QED
    BY <1>2, <1>3, <1>5, <2>1 DEF s
<1> QED
  BY <1>4, <1>5

(***************************************************************************)
(* The inductive invariant.  Between two rows of a change there is a step  *)
(* back; a last row that is past the change, or at it, will need one.      *)
(***************************************************************************)
RowsNeedSteps(t) ==
  \A c \in Nat \ {0} :
    RowsOf(t, c) <= StepsBack(t) + (IF t # <<>> /\ c <= t[Len(t)] THEN 1 ELSE 0)

NoStepsInOrder(t) ==
  StepsBack(t) = 0 => \A i, j \in 1 .. Len(t) : i < j => t[i] < t[j]

LEMMA RowsNeedStepsMore ==
  ASSUME NEW t \in Trails, NEW c \in Nat \ {0}, RowsNeedSteps(t)
  PROVE  RowsNeedSteps(Append(t, c))
<1> SUFFICES ASSUME NEW d \in Nat \ {0}
             PROVE  RowsOf(Append(t, c), d) <= StepsBack(Append(t, c)) + (IF d <= c THEN 1 ELSE 0)
  <2>1. Append(t, c) # <<>> /\ Append(t, c)[Len(Append(t, c))] = c
    <3>1. /\ Len(t) \in Nat /\ Len(Append(t, c)) = Len(t) + 1
          /\ Append(t, c)[Len(t) + 1] = c
      BY Longer
    <3>2. Len(Append(t, c)) # 0 /\ Append(t, c)[Len(Append(t, c))] = c
      BY <3>1
    <3> QED
      BY <3>2, EmptyTrail
  <2> QED
    BY <2>1 DEF RowsNeedSteps
<1> DEFINE last == t[Len(t)]
<1>1. t # <<>> => last \in Nat
  <2>1. t # <<>> => Len(t) \in 1 .. Len(t)
    BY LenProperties, EmptySeq DEF Trails
  <2> QED
    BY <2>1, Longer
<1>2. RowsOf(t, d) <= StepsBack(t) + (IF t # <<>> /\ d <= last THEN 1 ELSE 0)
  BY DEF RowsNeedSteps
<1>3. /\ RowsOf(t, d) \in Nat /\ StepsBack(t) \in Nat
      /\ RowsOf(Append(t, c), d) = RowsOf(t, d) + (IF c = d THEN 1 ELSE 0)
      /\ StepsBack(Append(t, c)) = StepsBack(t) + (IF t # <<>> /\ c <= last THEN 1 ELSE 0)
  BY BacksFinite, RowMore, StepBack
<1> HIDE DEF last
<1> QED
  BY <1>1, <1>2, <1>3

LEMMA NoStepsInOrderMore ==
  ASSUME NEW t \in Trails, NEW c \in Nat \ {0}, NoStepsInOrder(t)
  PROVE  NoStepsInOrder(Append(t, c))
<1> SUFFICES ASSUME StepsBack(Append(t, c)) = 0,
                    NEW i \in 1 .. Len(Append(t, c)), NEW j \in 1 .. Len(Append(t, c)), i < j
             PROVE  Append(t, c)[i] < Append(t, c)[j]
  BY DEF NoStepsInOrder
<1>1. /\ Len(t) \in Nat /\ Len(Append(t, c)) = Len(t) + 1
      /\ \A k \in 1 .. Len(t) : Append(t, c)[k] = t[k] /\ t[k] \in Nat \ {0}
      /\ Append(t, c)[Len(t) + 1] = c
  BY Longer
<1>2. StepsBack(t) = 0 /\ ~(t # <<>> /\ c <= t[Len(t)])
  BY BacksFinite, StepBack
<1>3. i \in 1 .. Len(t)
  BY <1>1
<1>4. CASE j \in 1 .. Len(t)
  BY <1>1, <1>2, <1>3, <1>4 DEF NoStepsInOrder
<1>5. CASE j = Len(t) + 1
  <2>1. t # <<>> /\ Len(t) \in 1 .. Len(t)
    BY <1>1, <1>3
  <2>2. t[Len(t)] < c
    BY <1>1, <1>2, <2>1
  <2>3. i = Len(t) \/ t[i] < t[Len(t)]
    BY <1>1, <1>2, <1>3, <2>1 DEF NoStepsInOrder
  <2>4. t[i] < c
    BY <1>1, <1>3, <2>1, <2>2, <2>3
  <2> QED
    BY <1>1, <1>3, <1>5, <2>4
<1> QED
  BY <1>1, <1>4, <1>5

\* The trail of one volume.
TrailInv(v) ==
  /\ logged[v] \in Trails
  /\ OnlyHappened(v) /\ ExactWhileWhole(v)
  /\ ~broken[v] => overflows[v] = 0
  /\ StepsBack(logged[v]) <= overflows[v]
  /\ RowsNeedSteps(logged[v]) /\ NoStepsInOrder(logged[v])

Inv ==
  /\ happened \in [Volumes -> Nat] /\ overflows \in [Volumes -> Nat]
  /\ broken \in [Volumes -> BOOLEAN]
  /\ logged \in [Volumes -> Trails]
  /\ \A v \in Volumes : TrailInv(v)

LEMMA InvSuffices == Inv => Faithful
<1> SUFFICES ASSUME Inv, NEW v \in Volumes
             PROVE  OnlyHappened(v) /\ ExactWhileWhole(v) /\ InOrder(v) /\ FewRowsPerChange(v)
  BY DEF Faithful
<1>1. TrailInv(v) /\ overflows[v] \in Nat /\ happened[v] \in Nat
  BY DEF Inv
<1>2. StepsBack(logged[v]) \in Nat /\ StepsBack(logged[v]) <= overflows[v]
  BY <1>1, BacksFinite DEF TrailInv
<1>3. InOrder(v)
  BY <1>1, <1>2 DEF TrailInv, NoStepsInOrder, InOrder
<1>4. ASSUME NEW c \in 1 .. happened[v] PROVE RowsOf(logged[v], c) <= overflows[v] + 1
  <2>1. c \in Nat \ {0}
    BY <1>1
  <2>2. RowsOf(logged[v], c) \in Nat
    BY <1>1, RowMore, <2>1 DEF TrailInv
  <2>3. RowsOf(logged[v], c) <= StepsBack(logged[v]) + 1
    BY <1>1, <1>2, <2>1, <2>2 DEF TrailInv, RowsNeedSteps
  <2> QED
    BY <1>1, <1>2, <2>2, <2>3
<1> QED
  BY <1>1, <1>3, <1>4 DEF TrailInv, FewRowsPerChange

LEMMA EmptyCounts == StepsBack(<<>>) = 0 /\ \A c : RowsOf(<<>>, c) = 0
<1>1. Backs(<<>>) = {} /\ \A c : Told(<<>>, c) = {}
  BY EmptyTrail DEF Backs, Told
<1> QED
  BY <1>1, FS_EmptySet DEF StepsBack, RowsOf, Backs, Told

LEMMA InitInv == Init => Inv
<1> SUFFICES ASSUME Init PROVE Inv
  OBVIOUS
<1>1. ASSUME NEW v \in Volumes PROVE TrailInv(v)
  <2>1. logged[v] = <<>> /\ happened[v] = 0 /\ overflows[v] = 0
    BY DEF Init
  <2> QED
    BY <2>1, EmptyTrail, EmptyCounts DEF TrailInv, OnlyHappened, ExactWhileWhole,
                                         RowsNeedSteps, NoStepsInOrder
<1> QED
  BY <1>1, EmptyTrail DEF Init, Inv

\* Steps that write no row.
LEMMA OtherSteps ==
  ASSUME Inv, NEW v \in Volumes, Happen(v) \/ Forget(v) \/ Overflow(v)
  PROVE  Inv'
<1>1. UNCHANGED logged
  BY DEF Happen, Forget, Overflow
<1>2. /\ broken' \in [Volumes -> BOOLEAN]
      /\ \A u \in Volumes : broken[u] => broken'[u]
  BY DEF Inv, Happen, Forget, Overflow, Lose
<1>3. /\ happened' \in [Volumes -> Nat] /\ overflows' \in [Volumes -> Nat]
      /\ \A u \in Volumes : happened[u] <= happened'[u] /\ overflows[u] <= overflows'[u]
      /\ \A u \in Volumes : overflows'[u] = overflows[u] \/ broken'[u]
  BY DEF Inv, Happen, Forget, Overflow
<1>4. ASSUME NEW u \in Volumes PROVE TrailInv(u)'
  <2>1. TrailInv(u) /\ happened[u] \in Nat /\ happened'[u] \in Nat /\ overflows[u] \in Nat
        /\ overflows'[u] \in Nat /\ logged[u] \in Trails
    BY <1>3 DEF Inv
  <2>2. OnlyHappened(u)'
    <3>1. \A k \in 1 .. Len(logged[u]) : logged[u][k] \in 1 .. happened[u]
      BY <2>1 DEF TrailInv, OnlyHappened
    <3>2. 1 .. happened[u] \subseteq 1 .. happened'[u]
      BY <1>3, <2>1
    <3> QED
      BY <1>1, <3>1, <3>2 DEF OnlyHappened
  <2>3. ExactWhileWhole(u)'
    BY <1>1, <1>2, <2>1 DEF TrailInv, ExactWhileWhole
  <2>4. ~broken'[u] => overflows'[u] = 0
    BY <1>2, <1>3, <2>1 DEF TrailInv
  <2>5. StepsBack(logged[u]) <= overflows'[u]
    <3>1. StepsBack(logged[u]) \in Nat /\ StepsBack(logged[u]) <= overflows[u]
      BY <2>1, BacksFinite DEF TrailInv
    <3> QED
      BY <1>3, <2>1, <3>1
  <2> QED
    BY <1>1, <2>1, <2>2, <2>3, <2>4, <2>5 DEF TrailInv
<1> QED
  BY <1>1, <1>2, <1>3, <1>4 DEF Inv

\* A row is written.
LEMMA LogStep ==
  ASSUME Inv, NEW v \in Volumes, NEW c \in 1 .. happened[v], Log(v, c)
  PROVE  Inv'
<1>1. /\ UNCHANGED <<happened, broken, overflows>>
      /\ logged[v] \in Trails /\ c \in Nat \ {0} /\ TrailInv(v)
      /\ happened[v] \in Nat /\ overflows[v] \in Nat /\ broken[v] \in BOOLEAN
  BY DEF Inv, Log
<1>2. /\ logged' = [logged EXCEPT ![v] = Append(@, c)]
      /\ logged'[v] = Append(logged[v], c) /\ Append(logged[v], c) \in Trails
      /\ \A u \in Volumes : u # v => logged'[u] = logged[u]
      /\ logged' \in [Volumes -> Trails]
  BY <1>1, Longer DEF Inv, Log
<1> DEFINE t == logged[v]
           s == Append(logged[v], c)
<1>3. /\ Len(t) \in Nat /\ Len(s) = Len(t) + 1 /\ s[Len(t) + 1] = c
      /\ \A k \in 1 .. Len(t) : s[k] = t[k] /\ t[k] \in Nat \ {0}
  BY <1>1, Longer
<1>4. \A k \in 1 .. Len(s) : s[k] \in 1 .. happened[v]
  BY <1>1, <1>3 DEF TrailInv, OnlyHappened
<1>5. ~broken[v] => \A k \in 1 .. Len(s) : s[k] = k
  BY <1>1, <1>3 DEF TrailInv, ExactWhileWhole, Log
<1>6. StepsBack(s) <= overflows[v]
  <2>1. CASE broken[v]
    BY <1>2, <2>1 DEF Log
  <2>2. CASE ~broken[v]
    <3>1. c = Len(t) + 1
      BY <2>2 DEF Log
    <3>2. t # <<>> => t[Len(t)] = Len(t)
      <4>1. t # <<>> => Len(t) \in 1 .. Len(t)
        BY <1>1, LenProperties, EmptySeq DEF Trails
      <4> QED
        BY <1>1, <2>2, <4>1 DEF TrailInv, ExactWhileWhole
    <3>3. ~(t # <<>> /\ c <= t[Len(t)])
      BY <1>3, <3>1, <3>2
    <3>4. StepsBack(s) = StepsBack(t) /\ StepsBack(t) \in Nat
      BY <1>1, <3>3, StepBack, BacksFinite
    <3> QED
      BY <1>1, <3>4 DEF TrailInv
  <2> QED
    BY <1>1, <2>1, <2>2
<1>7. RowsNeedSteps(s) /\ NoStepsInOrder(s)
  BY <1>1, RowsNeedStepsMore, NoStepsInOrderMore DEF TrailInv
<1>8. TrailInv(v)'
  <2>1. OnlyHappened(v)' /\ ExactWhileWhole(v)'
    BY <1>1, <1>2, <1>4, <1>5 DEF OnlyHappened, ExactWhileWhole
  <2>2. ~broken'[v] => overflows'[v] = 0
    BY <1>1 DEF TrailInv
  <2> QED
    BY <1>1, <1>2, <1>6, <1>7, <2>1, <2>2 DEF TrailInv
<1>9. ASSUME NEW u \in Volumes, u # v PROVE TrailInv(u)'
  <2>1. logged'[u] = logged[u] /\ TrailInv(u)
    BY <1>2, <1>9 DEF Inv
  <2> QED
    BY <1>1, <2>1 DEF TrailInv, OnlyHappened, ExactWhileWhole
<1> QED
  BY <1>1, <1>2, <1>8, <1>9 DEF Inv

\* The trail is good for what its reader expects of it: no row is made up, the trail is
\* the history while nothing is lost, and only an overflow can repeat a row or put it out
\* of order, each overflow once.
THEOREM FaithfulCorrect == Spec => []Faithful
<1>1. Init => Inv
  BY InitInv
<1>2. Inv /\ [Next]_vars => Inv'
  <2>1. CASE UNCHANGED vars
    BY <2>1 DEF vars, Inv, TrailInv, OnlyHappened, ExactWhileWhole
  <2>2. CASE Next
    BY <2>2, OtherSteps, LogStep DEF Next
  <2> QED
    BY <2>1, <2>2
<1>3. Inv => Faithful
  BY InvSuffices
<1> QED
  BY <1>1, <1>2, <1>3, PTL DEF Spec
=============================================================================
