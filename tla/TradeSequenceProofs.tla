------------------------ MODULE TradeSequenceProofs ------------------------
(***************************************************************************)
(* Two results about the trade sequence, for every script and every number *)
(* of the parameters.  A CON is repeated a bounded number of times: every  *)
(* repeated pass has used up FinishThreshold + 1 slots of the room MAIN    *)
(* had at the start.  And whatever the editors do between two clicks, the  *)
(* groups of both lists stay whole and every reference of CON still names  *)
(* the MAIN row it was made for.  For the second, each editor command is   *)
(* shown to keep the lists; that it normalizes them at its end needs the   *)
(* least and the greatest row of a run of equal groups, which are found    *)
(* without induction (LeastNatural, GreatestNatural).                      *)
(***************************************************************************)
EXTENDS TradeSequence, FiniteSetTheorems, TLAPS

\* The part of the type invariant the bound rests on.
CountersOK ==
  /\ pass \in Nat \ {0} /\ before \in 0 .. MaxFree /\ start \in 0 .. MaxFree
  /\ lastFree \in 0 .. MaxFree /\ free \in 0 .. MaxFree

BoundInv == CountersOK /\ PassesBounded

\* One more pass costs FinishThreshold + 1.
LEMMA OneMorePass ==
  ASSUME NEW t \in Nat, NEW p \in Nat \ {0}
  PROVE  (t + 1) * p = (t + 1) * (p - 1) + (t + 1)
  <1>1. p = (p - 1) + 1
    OBVIOUS
  <1>2. \A q \in Nat : (t + 1) * (q + 1) = (t + 1) * q + (t + 1)
    OBVIOUS
  <1>3. p - 1 \in Nat
    OBVIOUS
  <1> QED
    BY <1>1, <1>2, <1>3

\* Before the first sequence nothing runs (Init).
LEMMA BoundInit == Init => BoundInv
  BY SequenceAssumption DEF Init, BoundInv, CountersOK, PassesBounded

\* AbortTrade and FinishTrade, by whichever branch they are reached.
LEMMA BoundAtRest == BoundInv /\ Rest => BoundInv'
  BY SequenceAssumption
  DEF Rest, FirstRow, NoVerify, BoundInv, CountersOK, PassesBounded

\* Repeating the pass is paid for by the slots MAIN received (RepeatSameChild).
LEMMA BoundAtRepeat == BoundInv /\ RepeatSameChild => BoundInv'
  <1> SUFFICES ASSUME BoundInv, RepeatSameChild
               PROVE  BoundInv'
    OBVIOUS
  <1> USE DEF BoundInv, CountersOK
  <1>1. running /\ (FinishThreshold + 1) * (pass - 1) + before <= start
    BY DEF RepeatSameChild, Measured, AtEnd, CanTick, PassesBounded
  <1>2. lastFree + (FinishThreshold + 1) <= before
    BY SequenceAssumption DEF RepeatSameChild, ReceivedSlots
  <1>3. pass' = pass + 1 /\ before' = lastFree /\ start' = start /\ lastFree' = 0 /\ free' = free
    BY DEF RepeatSameChild, NoVerify
  <1>4. (FinishThreshold + 1) * pass = (FinishThreshold + 1) * (pass - 1) + (FinishThreshold + 1)
    BY OneMorePass, SequenceAssumption
  <1>5. (FinishThreshold + 1) * (pass - 1) \in Nat
    BY SequenceAssumption
  <1>6. (FinishThreshold + 1) * pass + lastFree <= start
    <2> DEFINE paid == (FinishThreshold + 1) * (pass - 1)
               cost == (FinishThreshold + 1) * pass
    <2>1. cost = paid + (FinishThreshold + 1) /\ paid \in Nat /\ paid + before <= start
      BY <1>1, <1>4, <1>5
    <2> HIDE DEF paid, cost
    <2>2. cost + lastFree <= start
      BY <2>1, <1>2, SequenceAssumption
    <2> QED
      BY <2>2 DEF cost
  <1>7. CountersOK'
    BY <1>3, SequenceAssumption
  <1>8. pass' - 1 = pass
    BY <1>3
  <1> QED
    BY <1>3, <1>6, <1>7, <1>8 DEF PassesBounded

\* Every step keeps the bound.
LEMMA BoundStep == BoundInv /\ [Next]_vars => BoundInv'
  <1> SUFFICES ASSUME BoundInv, [Next]_vars
               PROVE  BoundInv'
    OBVIOUS
  <1>1. ASSUME StartSequence PROVE BoundInv'
    <2>1. CountersOK'
      BY <1>1, SequenceAssumption
      DEF StartSequence, NoVerify, FirstRow, BoundInv, CountersOK
    <2>2. (FinishThreshold + 1) * (pass' - 1) = 0
      BY <1>1, SequenceAssumption DEF StartSequence
    <2>3. before' = start' /\ start' \in Nat
      BY <1>1, <2>1, SequenceAssumption DEF StartSequence, CountersOK
    <2> QED
      BY <2>1, <2>2, <2>3 DEF BoundInv, PassesBounded
  <1>2. ASSUME \/ PairLost \/ ClickFails \/ MainFull \/ ClickImpossible \/ FinishChild
        PROVE  BoundInv'
    BY <1>2, BoundAtRest DEF PairLost, ClickFails, MainFull, ClickImpossible, FinishChild
  <1>3. ASSUME RepeatSameChild PROVE BoundInv'
    BY <1>3, BoundAtRepeat
  <1>4. ASSUME UNCHANGED <<running, pass, before, start>>,
               lastFree' \in 0 .. MaxFree, free' \in 0 .. MaxFree
        PROVE  BoundInv'
    BY <1>4 DEF BoundInv, CountersOK, PassesBounded
  <1>5. ASSUME \/ Click \/ BeginVerify \/ BagChanged \/ KeepWatching \/ PausedTick
               \/ BagChanges \/ EditorCommand \/ Settle
        PROVE  BoundInv'
    <2>1. UNCHANGED <<running, pass, before, start>>
      BY <1>5 DEF Click, BeginVerify, BagChanged, KeepWatching, PausedTick, BagChanges,
                  EditorCommand, Settle, run
    <2>2. lastFree' \in 0 .. MaxFree /\ free' \in 0 .. MaxFree
      BY <1>5 DEF BoundInv, CountersOK, Click, BeginVerify, BagChanged, KeepWatching,
                  PausedTick, BagChanges, EditorCommand, Settle, run, verify
    <2> QED
      BY <2>1, <2>2, <1>4
  <1>6. ASSUME UNCHANGED vars PROVE BoundInv'
    <2>1. UNCHANGED <<running, pass, before, start, lastFree, free>>
      BY <1>6 DEF vars, run, verify
    <2> QED
      BY <2>1, <1>4 DEF BoundInv, CountersOK
  <1> QED
    BY <1>1, <1>2, <1>3, <1>5, <1>6 DEF Next, SequenceTick

\* A CON whose passes keep moving items is repeated at most start divided by
\* FinishThreshold + 1 times, whatever happens to the bag and to the script.
THEOREM RepeatsAreBounded == Spec => []PassesBounded
  <1>1. BoundInv => PassesBounded
    BY DEF BoundInv
  <1> QED
    BY BoundInit, BoundStep, <1>1, PTL DEF Spec

----------------------------------------------------------------------------
(* Least elements and counts *)

\* A set of naturals that is not empty has a least element.
LEMMA LeastNatural ==
  ASSUME NEW T, \A x \in T : x \in Nat, NEW z \in T
  PROVE  \E x \in T : \A y \in T : x <= y
<1> DEFINE R == {p \in Nat \X Nat : p[1] < p[2]}
<1>1. IsWellFoundedOn(R, Nat)
  BY NatLessThanWellFounded DEF OpToRel
<1>0. T \subseteq Nat /\ T # {}
  OBVIOUS
<1> HIDE DEF R
<1>2. PICK x \in T : \A y \in T : ~(<<y, x>> \in R)
  BY <1>0, <1>1, WFMin
<1>3. \A y \in T : <<y, x>> \in Nat \X Nat /\ (<<y, x>>)[1] = y /\ (<<y, x>>)[2] = x
  OBVIOUS
<1>4. \A y \in T : ~(y < x)
  BY <1>2, <1>3 DEF R
<1> QED BY <1>4

\* A set of naturals with a bound has a greatest element.
LEMMA GreatestNatural ==
  ASSUME NEW T, \A x \in T : x \in Nat, NEW z \in T, NEW b \in Nat, \A x \in T : x <= b
  PROVE  \E x \in T : \A y \in T : y <= x
<1> DEFINE U == {b - x : x \in T}
<1>1. (\A u \in U : u \in Nat) /\ b - z \in U
  <2>1. \A x \in T : x \in Nat /\ b - x \in Nat
    OBVIOUS
  <2> QED BY <2>1
<1>2. PICK u \in U : \A v \in U : u <= v
  <2> HIDE DEF U
  <2> QED BY <1>1, LeastNatural
<1>3. PICK x \in T : u = b - x
  BY <1>2
<1>4. ASSUME NEW y \in T PROVE y <= x
  <2>1. b - y \in U /\ y \in Nat /\ x \in Nat
    OBVIOUS
  <2> QED BY <2>1, <1>2, <1>3
<1> QED BY <1>4

\* How many elements of S are at most i.
UpTo(S, i) == {j \in S : j <= i}
Count(S, i) == Cardinality(UpTo(S, i))

\* A count of an element is a number from 1 to the size of the set.
LEMMA CountBounds ==
  ASSUME NEW S, \A x \in S : x \in Nat, IsFiniteSet(S), NEW i \in S
  PROVE  Cardinality(S) \in Nat /\ Count(S, i) \in 1 .. Cardinality(S)
<1>1. Cardinality(S) \in Nat
  BY FS_CardinalityType
<1>2. UpTo(S, i) \in SUBSET S /\ i \in UpTo(S, i)
  <2>1. i \in Nat /\ i <= i
    OBVIOUS
  <2> QED BY <2>1 DEF UpTo
<1>3. IsFiniteSet(UpTo(S, i)) /\ Cardinality(UpTo(S, i)) <= Cardinality(S)
  BY <1>2, FS_Subset
<1>4. Cardinality(UpTo(S, i)) \in Nat /\ Cardinality(UpTo(S, i)) # 0
  BY <1>2, <1>3, FS_CardinalityType, FS_EmptySet
<1> QED BY <1>1, <1>3, <1>4, SMT DEF Count

\* A greater element has a greater count.
LEMMA CountGrows ==
  ASSUME NEW S, \A x \in S : x \in Nat, IsFiniteSet(S), NEW i \in S, NEW k \in S, i < k
  PROVE  Count(S, i) < Count(S, k)
<1>1. UpTo(S, i) \in SUBSET UpTo(S, k) /\ k \in UpTo(S, k) /\ k \notin UpTo(S, i)
  BY DEF UpTo
<1>2. IsFiniteSet(UpTo(S, k))
  BY FS_Subset DEF UpTo
<1>3. Count(S, i) <= Count(S, k) /\ Count(S, i) # Count(S, k)
  BY <1>1, <1>2, FS_Subset DEF Count
<1>4. Count(S, i) \in Nat /\ Count(S, k) \in Nat
  <2>1. Count(S, i) \in 1 .. Cardinality(S) /\ Count(S, k) \in 1 .. Cardinality(S)
    BY CountBounds
  <2> QED BY <2>1
<1> QED BY <1>3, <1>4

\* Every number from 1 to the size of the set is the count of an element.
LEMMA CountTaken ==
  ASSUME NEW S, \A x \in S : x \in Nat, IsFiniteSet(S), NEW n \in 1 .. Cardinality(S)
  PROVE  \E i \in S : Count(S, i) = n
<1> DEFINE m == Cardinality(S)
           f == [i \in S |-> Count(S, i)]
<1>1. m \in Nat /\ f \in [S -> 1 .. m]
  BY CountBounds, FS_CardinalityType
<1>2. ASSUME NEW i \in S, NEW k \in S, f[i] = f[k]
      PROVE  i = k
  <2>1. ~(i < k) /\ ~(k < i)
    <3>1. Count(S, i) = Count(S, k) /\ Count(S, i) \in Nat
      BY <1>1, <1>2
    <3>2. ~(Count(S, i) < Count(S, k)) /\ ~(Count(S, k) < Count(S, i))
      BY <3>1
    <3> QED BY <3>2, CountGrows
  <2>2. i \in Nat /\ k \in Nat
    OBVIOUS
  <2> QED BY <2>1, <2>2
<1>3. f \in Injection(S, 1 .. m)
  BY <1>1, <1>2 DEF Injection, IsInjective
<1>4. IsFiniteSet(1 .. m) /\ Cardinality(1 .. m) = m
  BY <1>1, FS_Interval
<1>5. f \in Surjection(S, 1 .. m)
  <2> HIDE DEF f
  <2> QED BY <1>3, <1>4, FS_Injection
<1> QED BY <1>5 DEF Surjection

----------------------------------------------------------------------------
(* Lists *)

\* What Without keeps, and from where.
Kept(s, out) == Rows(s) \ out

\* Erasing places leaves a list of the elements at the other places, in order:
\* an element keeps its place less the places erased before it.
LEMMA WithoutLists ==
  ASSUME NEW S, NEW s \in Seq(S), NEW out
  PROVE  /\ Without(s, out) \in Seq(S)
         /\ Len(Without(s, out)) = Cardinality(Kept(s, out))
         /\ Len(Without(s, out)) <= Len(s)
         /\ \A i \in Kept(s, out) : /\ Count(Kept(s, out), i) \in Rows(Without(s, out))
                                    /\ Without(s, out)[Count(Kept(s, out), i)] = s[i]
         /\ \A n \in Rows(Without(s, out)) : \E i \in Kept(s, out) :
              Count(Kept(s, out), i) = n
<1> DEFINE K == Kept(s, out)
           m == Cardinality(K)
           at == [n \in 1 .. m |-> CHOOSE i \in K : Count(K, i) = n]
           r == [n \in 1 .. m |-> s[at[n]]]
<1>1. /\ \A i \in K : i \in Nat /\ i \in Rows(s)
      /\ IsFiniteSet(K) /\ m \in Nat /\ m <= Len(s)
  <2>1. K \subseteq Rows(s) /\ \A i \in Rows(s) : i \in Nat
    BY DEF Kept, Rows
  <2>2. IsFiniteSet(Rows(s)) /\ Cardinality(Rows(s)) = Len(s)
    <3>1. Len(s) \in Nat
      OBVIOUS
    <3>2. IsFiniteSet(1 .. Len(s)) /\ Cardinality(1 .. Len(s)) = Len(s)
      BY <3>1, FS_Interval
    <3> QED BY <3>2 DEF Rows
  <2>3. IsFiniteSet(K) /\ m <= Len(s)
    BY <2>1, <2>2, FS_Subset
  <2> QED BY <2>1, <2>3, FS_CardinalityType
<1>2. Without(s, out) = r
  BY DEF Without, Kept, Count, UpTo
<1> HIDE DEF K
<1>3. \A n \in 1 .. m : at[n] \in K /\ Count(K, at[n]) = n
  BY <1>1, CountTaken
<1>4. \A i \in K : Count(K, i) \in 1 .. m /\ at[Count(K, i)] = i
  <2> SUFFICES ASSUME NEW i \in K
               PROVE  Count(K, i) \in 1 .. m /\ at[Count(K, i)] = i
    OBVIOUS
  <2> DEFINE n == Count(K, i)
  <2>1. n \in 1 .. m
    BY <1>1, CountBounds
  <2>2. at[n] \in K /\ Count(K, at[n]) = n
    BY <2>1, <1>3
  <2> HIDE DEF at
  <2>3. ~(at[n] < i) /\ ~(i < at[n])
    <3>1. ~(Count(K, at[n]) < Count(K, i)) /\ ~(Count(K, i) < Count(K, at[n]))
      BY <2>1, <2>2
    <3> QED BY <3>1, <2>2, <1>1, CountGrows
  <2>4. at[n] \in Nat /\ i \in Nat
    BY <2>2, <1>1
  <2> QED BY <2>1, <2>3, <2>4
<1> HIDE DEF at
<1>5. \A n \in 1 .. m : s[at[n]] \in S
  BY <1>1, <1>3 DEF Rows
<1>6. r \in Seq(S) /\ Len(r) = m
  BY <1>1, <1>5
<1>7. \A i \in K : Count(K, i) \in 1 .. m /\ r[Count(K, i)] = s[i]
  BY <1>4
<1>8. Rows(r) = 1 .. m
  BY <1>6 DEF Rows
<1> QED BY <1>1, <1>2, <1>3, <1>6, <1>7, <1>8 DEF K

\* An element that stays moves up by the number of places erased before it.
LEMMA PlaceKept ==
  ASSUME NEW s, Len(s) \in Nat, NEW out, out \subseteq Rows(s), NEW i \in Kept(s, out)
  PROVE  Count(Kept(s, out), i) = i - Cardinality({r \in out : r < i})
<1> DEFINE A == UpTo(Kept(s, out), i)
           B == {r \in out : r < i}
<1>1. i \in Nat /\ i \notin out /\ i <= Len(s)
  BY DEF Kept, Rows
<1>2. A \cup B = 1 .. i /\ A \cap B = {}
  <2>1. \A j \in A : j \in 1 .. i /\ j \notin out
    BY <1>1 DEF Kept, Rows, UpTo
  <2>2. \A j \in B : j \in 1 .. i /\ j \in out
    BY <1>1 DEF Rows
  <2>3. ASSUME NEW j \in 1 .. i PROVE j \in A \/ j \in B
    <3>1. j \in Rows(s) /\ j <= i /\ (j = i \/ j < i)
      BY <1>1 DEF Rows
    <3> QED BY <3>1, <1>1 DEF Kept, UpTo
  <2> HIDE DEF A, B
  <2> QED BY <2>1, <2>2, <2>3
<1>3. IsFiniteSet(1 .. i) /\ Cardinality(1 .. i) = i
  BY <1>1, FS_Interval
<1>4. IsFiniteSet(A) /\ IsFiniteSet(B)
  <2> HIDE DEF A, B
  <2> QED BY <1>2, <1>3, FS_Subset
<1>5. Cardinality(A \cup B) = Cardinality(A) + Cardinality(B) - Cardinality(A \cap B)
  <2> HIDE DEF A, B
  <2> QED BY <1>4, FS_Union
<1>6. Cardinality(A) \in Nat /\ Cardinality(B) \in Nat /\ Cardinality({}) = 0
  BY <1>4, FS_CardinalityType, FS_EmptySet
<1> HIDE DEF A, B
<1>7. i = Cardinality(A) + Cardinality(B)
  <2>1. Cardinality(A \cup B) = i /\ Cardinality(A \cap B) = 0
    BY <1>2, <1>3, <1>6
  <2> QED BY <2>1, <1>5, <1>6, <1>1
<1>8. Count(Kept(s, out), i) = Cardinality(A)
  BY DEF Count, A
<1>9. Count(Kept(s, out), i) = i - Cardinality(B)
  BY <1>1, <1>6, <1>7, <1>8
<1> QED BY <1>9 DEF B

\* One list put behind another.
LEMMA JoinedLists ==
  ASSUME NEW S, NEW q \in Seq(S), NEW o \in Seq(S)
  PROVE  /\ q \o o \in Seq(S) /\ Len(q \o o) = Len(q) + Len(o)
         /\ \A i \in 1 .. Len(q) : (q \o o)[i] = q[i]
         /\ \A i \in Len(q) + 1 .. Len(q) + Len(o) : (q \o o)[i] = o[i - Len(q)]
OBVIOUS

\* One row put behind a list.
LEMMA AppendedList ==
  ASSUME NEW S, NEW q \in Seq(S), NEW x \in S
  PROVE  /\ Append(q, x) \in Seq(S) /\ Len(Append(q, x)) = Len(q) + 1
         /\ \A i \in 1 .. Len(q) : Append(q, x)[i] = q[i]
         /\ Append(q, x)[Len(q) + 1] = x
OBVIOUS

\* A function on the places of a list is a list of the same length.
LEMMA SameLength ==
  ASSUME NEW S, NEW n \in Nat, NEW f \in [1 .. n -> S]
  PROVE  f \in Seq(S) /\ Len(f) = n /\ DOMAIN f = 1 .. n
OBVIOUS

\* An element of a list.
LEMMA ElementOf ==
  ASSUME NEW S, NEW q \in Seq(S)
  PROVE  /\ Len(q) \in Nat /\ Rows(q) = DOMAIN q /\ Rows(q) = 1 .. Len(q)
         /\ \A i \in Rows(q) : q[i] \in S /\ i \in Nat /\ 1 <= i /\ i <= Len(q)
BY DEF Rows

\* Two neighbouring rows change places.
LEMMA SwappedLists ==
  ASSUME NEW S, NEW q \in Seq(S), NEW i \in 1 .. Len(q) - 1
  PROVE  /\ Swapped(q, i) \in Seq(S) /\ Len(Swapped(q, i)) = Len(q)
         /\ Swapped(q, i)[i] = q[i + 1] /\ Swapped(q, i)[i + 1] = q[i]
         /\ \A k \in Rows(q) \ {i, i + 1} : Swapped(q, i)[k] = q[k]
<1>1. i \in DOMAIN q /\ i + 1 \in DOMAIN q /\ i # i + 1
  OBVIOUS
<1>2. q[i] \in S /\ q[i + 1] \in S
  BY <1>1, ElementOf
<1> QED BY <1>1, <1>2 DEF Swapped, Rows

----------------------------------------------------------------------------
(* Groups *)

\* The first row of the run a row belongs to.
RunFirst(s, i, j) ==
  /\ j \in 1 .. i
  /\ \A k \in j .. i : s[k].group = s[i].group
  /\ j = 1 \/ s[j - 1].group # s[i].group

\* Every row is in a run: walking up, one comes to its first row.
LEMMA RunBegins ==
  ASSUME NEW s, Len(s) \in Nat, NEW i \in Rows(s)
  PROVE  \E j \in 1 .. i : RunFirst(s, i, j)
<1>1. i \in Nat /\ 1 <= i
  BY DEF Rows
<1> DEFINE T == {j \in 1 .. i : \A k \in j .. i : s[k].group = s[i].group}
<1>2. (\A j \in T : j \in Nat) /\ i \in T
  BY <1>1
<1>3. PICK j \in T : \A l \in T : j <= l
  <2> HIDE DEF T
  <2> QED BY <1>2, LeastNatural
<1>4. ASSUME j # 1, s[j - 1].group = s[i].group PROVE FALSE
  <2>1. j - 1 \in 1 .. i /\ j \in 1 .. i
    <3>1. j \in 1 .. i
      OBVIOUS
    <3> QED BY <3>1, <1>4, <1>1
  <2>2. ASSUME NEW k \in j - 1 .. i PROVE s[k].group = s[i].group
    <3>1. k = j - 1 \/ k \in j .. i
      BY <2>1
    <3> QED BY <3>1, <1>4
  <2>3. j - 1 \in T
    BY <2>1, <2>2
  <2> QED BY <2>1, <2>3, <1>3
<1> QED BY <1>4 DEF RunFirst

\* Walking down, one comes to the last row.
LEMMA RunEnds ==
  ASSUME NEW s, Len(s) \in Nat, NEW i \in Rows(s)
  PROVE  \E j \in i .. Len(s) :
           /\ \A k \in i .. j : s[k].group = s[i].group
           /\ j = Len(s) \/ s[j + 1].group # s[i].group
<1>1. i \in Nat /\ 1 <= i /\ i <= Len(s)
  BY DEF Rows
<1> DEFINE T == {j \in i .. Len(s) : \A k \in i .. j : s[k].group = s[i].group}
<1>2. (\A j \in T : j \in Nat /\ j <= Len(s)) /\ i \in T
  BY <1>1
<1>3. PICK j \in T : \A l \in T : l <= j
  <2> HIDE DEF T
  <2> QED BY <1>2, GreatestNatural
<1>4. ASSUME j # Len(s), s[j + 1].group = s[i].group PROVE FALSE
  <2>1. j + 1 \in i .. Len(s) /\ j \in i .. Len(s)
    <3>1. j \in i .. Len(s)
      OBVIOUS
    <3> QED BY <3>1, <1>4, <1>1
  <2>2. ASSUME NEW k \in i .. j + 1 PROVE s[k].group = s[i].group
    <3>1. k = j + 1 \/ k \in i .. j
      BY <2>1
    <3> QED BY <3>1, <1>4
  <2>3. j + 1 \in T
    BY <2>1, <2>2
  <2> QED BY <2>1, <2>3, <1>3
<1> QED BY <1>4

\* The executor's bounds of a group exist and enclose the row
\* (TradeGroupStart, TradeGroupEnd).
LEMMA GroupBounds ==
  ASSUME NEW s, Len(s) \in Nat, NEW i \in Rows(s)
  PROVE  TradeGroupStart(s, i) \in 1 .. i /\ TradeGroupEnd(s, i) \in i .. Len(s)
<1>1. i \in Nat /\ 1 <= i /\ i <= Len(s)
  BY DEF Rows
<1>2. PICK j \in 1 .. i : RunFirst(s, i, j)
  BY RunBegins
<1>3. \E l \in 1 .. i : SameGroup(s, l, i) /\ (l = 1 \/ s[l - 1].group # s[i].group)
  BY <1>2 DEF RunFirst, SameGroup
<1>4. TradeGroupStart(s, i) \in 1 .. i
  BY <1>1, <1>3 DEF TradeGroupStart
<1>5. PICK j2 \in i .. Len(s) : /\ \A k \in i .. j2 : s[k].group = s[i].group
                                /\ j2 = Len(s) \/ s[j2 + 1].group # s[i].group
  BY RunEnds
<1>6. j2 \in i .. j2
  BY <1>1
<1>7. \E l \in i .. Len(s) : /\ SameGroup(s, i, l)
                             /\ l = Len(s) \/ s[l + 1].group # s[i].group
  BY <1>5, <1>6 DEF SameGroup
<1>8. TradeGroupEnd(s, i) \in i .. Len(s)
  BY <1>1, <1>7 DEF TradeGroupEnd
<1> QED BY <1>4, <1>8

\* The first row of a run is the last run start above a row of the run.
LEMMA FirstOfRunIs ==
  ASSUME NEW s, Len(s) \in Nat, NEW i \in Rows(s), s[i].group # 0,
         NEW j \in 1 .. i, RunStart(s, j), \A k \in j + 1 .. i : ~RunStart(s, k)
  PROVE  FirstOfRun(s, i) = j
<1>1. i \in Nat
  BY DEF Rows
<1> DEFINE P(l) == RunStart(s, l) /\ \A k \in l + 1 .. i : ~RunStart(s, k)
<1>2. \A l \in 1 .. i : P(l) => l = j
  <2> SUFFICES ASSUME NEW l \in 1 .. i, P(l) PROVE l = j
    OBVIOUS
  <2>1. l < j => j \in l + 1 .. i
    BY <1>1
  <2>2. j < l => l \in j + 1 .. i
    BY <1>1
  <2>3. ~(l < j) /\ ~(j < l)
    BY <2>1, <2>2
  <2> QED BY <2>3, <1>1
<1>3. P(j)
  OBVIOUS
<1>4. FirstOfRun(s, i) = CHOOSE l \in 1 .. i : P(l)
  BY DEF FirstOfRun
<1> HIDE DEF P
<1> QED BY <1>2, <1>3, <1>4

\* A row with a group has a run start above it, in the same run.
LEMMA FirstOfRunExists ==
  ASSUME NEW s, Len(s) \in Nat, NEW i \in Rows(s), s[i].group # 0
  PROVE  \E j \in 1 .. i : /\ RunStart(s, j)
                           /\ \A k \in j .. i : s[k].group = s[i].group
                           /\ \A k \in j + 1 .. i : ~RunStart(s, k)
<1>1. PICK j \in 1 .. i : RunFirst(s, i, j)
  BY RunBegins
<1>2. i \in Nat /\ j \in j .. i
  BY DEF Rows
<1>3. RunStart(s, j)
  BY <1>1, <1>2 DEF RunFirst, RunStart
<1>4. ASSUME NEW k \in j + 1 .. i PROVE ~RunStart(s, k)
  <2>1. k \in j .. i /\ k - 1 \in j .. i /\ k # 1
    BY <1>2
  <2> QED BY <2>1, <1>1 DEF RunFirst, RunStart
<1> QED BY <1>1, <1>3, <1>4 DEF RunFirst

\* What GroupsWellFormed says of a list.
GroupsOf(s) ==
  /\ \A i, j \in Rows(s) : i <= j /\ s[i].group = s[j].group /\ s[i].group # 0 =>
       SameGroup(s, i, j) /\ s[i].times = s[j].times
  /\ \A i \in Rows(s) : s[i].group = 0 => s[i].times = 1

\* The run starts down to a row; their number is the group of the row.
Starts(s, i) == {j \in 1 .. i : RunStart(s, j)}

\* A later row has no fewer run starts above it, and if it has as many, there
\* is none between the two.
LEMMA StartsGrow ==
  ASSUME NEW s, NEW i \in Nat, NEW j \in Nat, i <= j,
         Cardinality(Starts(s, i)) = Cardinality(Starts(s, j))
  PROVE  /\ Starts(s, i) = Starts(s, j)
         /\ \A k \in i + 1 .. j : ~RunStart(s, k)
<1>1. Starts(s, i) \in SUBSET Starts(s, j)
  BY DEF Starts
<1>2. IsFiniteSet(1 .. j) /\ Starts(s, j) \in SUBSET (1 .. j)
  BY FS_Interval DEF Starts
<1>3. IsFiniteSet(Starts(s, j))
  BY <1>2, FS_Subset
<1>4. Starts(s, i) = Starts(s, j)
  BY <1>1, <1>3, FS_Subset
<1>5. ASSUME NEW k \in i + 1 .. j, RunStart(s, k) PROVE FALSE
  <2>1. k \in 1 .. j /\ ~(k \in 1 .. i)
    OBVIOUS
  <2> QED BY <2>1, <1>4, <1>5 DEF Starts
<1> QED BY <1>4, <1>5

\* What NormalizeTradeGroups does to a row.
LEMMA NormalizedRow ==
  ASSUME NEW s \in Seq(ConRows), NEW i \in Rows(s)
  PROVE  LET r == NormalizeTradeGroups(s)[i]
         IN /\ r \in ConRows
            /\ r.kind = s[i].kind /\ r.ref = s[i].ref /\ r.of = s[i].of
            /\ r.repeat = s[i].repeat /\ r.placed = s[i].placed
            /\ s[i].group = 0 => r.group = 0 /\ r.times = 1
            /\ s[i].group # 0 => r.group = Cardinality(Starts(s, i)) /\ r.group \in Nat \ {0}
                                 /\ r.times = s[FirstOfRun(s, i)].times
<1> DEFINE r == NormalizeTradeGroups(s)[i]
<1>1. s[i] \in ConRows /\ i \in Nat /\ 1 <= i /\ i <= Len(s) /\ Len(s) \in Nat
  BY ElementOf
<1>2. r = IF s[i].group = 0 THEN [s[i] EXCEPT !.times = 1]
          ELSE [s[i] EXCEPT !.group = Cardinality(Starts(s, i)),
                            !.times = s[FirstOfRun(s, i)].times]
  BY DEF NormalizeTradeGroups, Starts
<1>3. CASE s[i].group = 0
  BY <1>1, <1>2, <1>3, ScriptAssumption DEF ConRows
<1>4. CASE s[i].group # 0
  <2>1. PICK j \in 1 .. i : /\ RunStart(s, j)
                            /\ \A k \in j + 1 .. i : ~RunStart(s, k)
    BY <1>1, <1>4, FirstOfRunExists
  <2>2. FirstOfRun(s, i) = j
    BY <1>1, <1>4, <2>1, FirstOfRunIs
  <2>3. j \in Rows(s)
    BY <1>1 DEF Rows
  <2>4. s[j] \in ConRows
    BY <2>3, ElementOf
  <2>5. s[j].times \in Repeats
    BY <2>4 DEF ConRows
  <2>6. IsFiniteSet(1 .. i) /\ Starts(s, i) \in SUBSET (1 .. i) /\ j \in Starts(s, i)
    BY <1>1, <2>1, FS_Interval DEF Starts
  <2>7. IsFiniteSet(Starts(s, i))
    BY <2>6, FS_Subset
  <2>8. Cardinality(Starts(s, i)) \in Nat /\ Cardinality(Starts(s, i)) # 0
    BY <2>6, <2>7, FS_CardinalityType, FS_EmptySet
  <2> DEFINE c == Cardinality(Starts(s, i))
             t == s[FirstOfRun(s, i)].times
  <2>9. c \in Nat \ {0} /\ t \in Repeats
    BY <2>2, <2>5, <2>8
  <2>10. r = [s[i] EXCEPT !.group = c, !.times = t]
    BY <1>2, <1>4
  <2> HIDE DEF c, t, r
  <2>11. /\ r \in ConRows
         /\ r.kind = s[i].kind /\ r.ref = s[i].ref /\ r.of = s[i].of
         /\ r.repeat = s[i].repeat /\ r.placed = s[i].placed
         /\ r.group = c /\ r.times = t
    BY <1>1, <2>9, <2>10 DEF ConRows
  <2> QED BY <2>9, <2>11, <1>4 DEF c, t, r
<1> QED BY <1>3, <1>4

\* A normalized list is as long as it was, and its groups are well formed,
\* whatever the groups were before (NormalizeTradeGroups).
LEMMA NormalizedGroups ==
  ASSUME NEW s \in Seq(ConRows)
  PROVE  LET t == NormalizeTradeGroups(s)
         IN /\ t \in Seq(ConRows) /\ Len(t) = Len(s) /\ Rows(t) = Rows(s)
            /\ GroupsOf(t)
<1> DEFINE t == NormalizeTradeGroups(s)
<1>1. Len(s) \in Nat /\ Rows(s) = 1 .. Len(s)
  BY ElementOf
<1>2. t \in [1 .. Len(s) -> ConRows]
  <2>1. \A i \in Rows(s) : t[i] \in ConRows
    BY NormalizedRow
  <2>2. DOMAIN t = Rows(s) /\ t = [i \in Rows(s) |-> t[i]]
    BY DEF NormalizeTradeGroups
  <2> HIDE DEF t
  <2> QED BY <2>1, <2>2, <1>1
<1>3. t \in Seq(ConRows) /\ Len(t) = Len(s) /\ Rows(t) = Rows(s)
  <2> HIDE DEF t
  <2> QED BY <1>1, <1>2, SameLength DEF Rows
<1>4. ASSUME NEW i \in Rows(s), t[i].group = 0 PROVE t[i].times = 1
  BY <1>4, NormalizedRow
<1>5. ASSUME NEW i \in Rows(s), NEW j \in Rows(s), i <= j,
             t[i].group = t[j].group, t[i].group # 0
      PROVE  SameGroup(t, i, j) /\ t[i].times = t[j].times
  <2>1. i \in Nat /\ j \in Nat /\ 1 <= i /\ 1 <= j /\ j <= Len(s)
    BY <1>1
  <2>2. s[i].group # 0 /\ s[j].group # 0
    BY <1>5, NormalizedRow
  <2>3. /\ t[i].group = Cardinality(Starts(s, i)) /\ t[j].group = Cardinality(Starts(s, j))
        /\ t[i].times = s[FirstOfRun(s, i)].times /\ t[j].times = s[FirstOfRun(s, j)].times
    BY <2>2, NormalizedRow
  <2>4. Starts(s, i) = Starts(s, j) /\ \A k \in i + 1 .. j : ~RunStart(s, k)
    BY <2>1, <2>3, <1>5, StartsGrow
  <2>5. PICK f \in 1 .. j : /\ RunStart(s, f)
                            /\ \A k \in f .. j : s[k].group = s[j].group
                            /\ \A k \in f + 1 .. j : ~RunStart(s, k)
    BY <1>1, <2>2, FirstOfRunExists
  <2>6. f \in 1 .. i
    BY <2>1, <2>4, <2>5
  <2>7. FirstOfRun(s, j) = f
    BY <1>1, <2>2, <2>5, FirstOfRunIs
  <2>8. \A k \in f + 1 .. i : ~RunStart(s, k)
    BY <1>5, <2>1, <2>5, <2>6
  <2>9. FirstOfRun(s, i) = f
    BY <1>1, <2>2, <2>5, <2>6, <2>8, FirstOfRunIs
  <2>10. ASSUME NEW k \in i .. j PROVE t[k].group = t[j].group
    <3>1. k \in f .. j /\ k \in Rows(s) /\ k \in Nat /\ i <= k /\ k <= j
      BY <1>1, <2>1, <2>6
    <3>2. s[k].group # 0
      BY <3>1, <2>2, <2>5
    <3>3. t[k].group = Cardinality(Starts(s, k))
      BY <3>1, <3>2, NormalizedRow
    <3>4. Starts(s, i) \subseteq Starts(s, k) /\ Starts(s, k) \subseteq Starts(s, j)
      BY <3>1, <2>1 DEF Starts
    <3>5. Starts(s, k) = Starts(s, j)
      BY <3>4, <2>4
    <3> QED BY <3>3, <3>5, <2>3
  <2> HIDE DEF t
  <2> QED BY <2>3, <2>7, <2>9, <2>10 DEF SameGroup
<1> HIDE DEF t
<1>6. GroupsOf(t)
  BY <1>3, <1>4, <1>5 DEF GroupsOf
<1> QED BY <1>3, <1>6 DEF t

\* Groups stay well formed when only other fields change.
LEMMA GroupsKept ==
  ASSUME NEW s, NEW t, Len(s) \in Nat, GroupsOf(s), Rows(t) = Rows(s),
         \A i \in Rows(s) : t[i].group = s[i].group /\ t[i].times = s[i].times
  PROVE  GroupsOf(t)
<1>1. ASSUME NEW i \in Rows(s), NEW j \in Rows(s), i <= j,
             t[i].group = t[j].group, t[i].group # 0
      PROVE  SameGroup(t, i, j) /\ t[i].times = t[j].times
  <2>1. s[i].group = s[j].group /\ s[i].group # 0
    BY <1>1
  <2>2. SameGroup(s, i, j) /\ s[i].times = s[j].times
    BY <1>1, <2>1 DEF GroupsOf
  <2>3. \A k \in i .. j : k \in Rows(s)
    <3>1. i \in 1 .. Len(s) /\ j \in 1 .. Len(s)
      BY <1>1 DEF Rows
    <3> QED BY <3>1 DEF Rows
  <2> QED BY <2>2, <2>3 DEF SameGroup
<1>2. ASSUME NEW i \in Rows(s), t[i].group = 0 PROVE t[i].times = 1
  BY <1>2 DEF GroupsOf
<1> QED BY <1>1, <1>2 DEF GroupsOf

----------------------------------------------------------------------------
(* Rows *)

\* The greatest group id exists, and is a natural (MaxTradeGroupId).
LEMMA GreatestGroup ==
  ASSUME NEW s \in Seq(ConRows)
  PROVE  MaxTradeGroupId(s) \in Nat
<1> DEFINE ids == {0} \cup {s[i].group : i \in Rows(s)}
           Below(n) == {0} \cup {s[i].group : i \in 1 .. n}
           Bounded(n) == \E b \in Nat : \A x \in Below(n) : x <= b
           T == {n \in 0 .. Len(s) : ~Bounded(n)}
<1>1. Len(s) \in Nat /\ Rows(s) = 1 .. Len(s) /\ \A i \in Rows(s) : s[i] \in ConRows
  BY ElementOf
<1>2. \A i \in Rows(s) : s[i].group \in Nat
  BY <1>1 DEF ConRows
<1>3. Bounded(0)
  <2>1. \A x \in Below(0) : x <= 0
    OBVIOUS
  <2> QED BY <2>1
<1>4. ASSUME NEW n \in 0 .. Len(s), n # 0, Bounded(n - 1) PROVE Bounded(n)
  <2>1. PICK b \in Nat : \A x \in Below(n - 1) : x <= b
    BY <1>4
  <2>2. n \in Rows(s) /\ s[n].group \in Nat
    BY <1>1, <1>2, <1>4
  <2> DEFINE c == b + s[n].group
  <2>3. c \in Nat /\ b <= c /\ s[n].group <= c
    BY <2>2
  <2>4. ASSUME NEW x \in Below(n) PROVE x <= c
    <3>1. CASE x = 0
      BY <2>3, <3>1
    <3>2. CASE x # 0
      <4>1. PICK i \in 1 .. n : x = s[i].group
        BY <3>2
      <4>2. CASE i = n
        BY <4>1, <4>2, <2>3
      <4>3. CASE i # n
        <5>1. i \in 1 .. n - 1
          BY <4>3, <1>1
        <5>2. x \in Below(n - 1) /\ i \in Rows(s)
          BY <5>1, <4>1, <1>1
        <5>3. x \in Nat /\ x <= b
          BY <5>2, <4>1, <1>2, <2>1
        <5> QED BY <5>3, <2>3
      <4> QED BY <4>2, <4>3
    <3> QED BY <3>1, <3>2
  <2> HIDE DEF c
  <2> QED BY <2>3, <2>4
<1>5. Bounded(Len(s))
  <2> SUFFICES ASSUME ~Bounded(Len(s)) PROVE FALSE
    OBVIOUS
  <2>1. (\A n \in T : n \in Nat) /\ Len(s) \in T
    BY <1>1
  <2>2. PICK n \in T : \A k \in T : n <= k
    <3> HIDE DEF T
    <3> QED BY <2>1, LeastNatural
  <2>3. n \in 0 .. Len(s) /\ ~Bounded(n)
    OBVIOUS
  <2> HIDE DEF Bounded
  <2>4. n # 0
    BY <1>3, <2>3
  <2>5. n - 1 \in 0 .. Len(s) /\ ~(n <= n - 1)
    BY <2>3, <2>4, <1>1
  <2>6. Bounded(n - 1)
    BY <2>2, <2>5
  <2> QED BY <1>4, <2>3, <2>4, <2>6
<1>6. PICK b \in Nat : \A x \in ids : x <= b
  BY <1>1, <1>5
<1>7. (\A x \in ids : x \in Nat) /\ 0 \in ids
  BY <1>2
<1>8. \E x \in ids : \A y \in ids : y <= x
  <2> HIDE DEF ids
  <2> QED BY <1>6, <1>7, GreatestNatural
<1>9. MaxTradeGroupId(s) \in ids
  BY <1>8 DEF MaxTradeGroupId
<1> QED BY <1>7, <1>9

\* A reference less the deleted rows before it is still a reference.
LEMMA RefMoves ==
  ASSUME NEW r \in 0 .. MaxRows, NEW rows, \A x \in rows : x \in Nat \ {0}
  PROVE  r - Cardinality({x \in rows : x < r}) \in 0 .. MaxRows
<1> DEFINE B == {x \in rows : x < r}
<1>1. CASE r = 0
  <2>1. B = {}
    BY <1>1
  <2> QED BY <2>1, <1>1, FS_EmptySet
<1>2. CASE r # 0
  <2>1. r - 1 \in Nat /\ IsFiniteSet(1 .. r - 1) /\ Cardinality(1 .. r - 1) = r - 1
    <3>1. r - 1 \in Nat
      BY <1>2, ScriptAssumption
    <3> QED BY <3>1, FS_Interval
  <2>2. \A x \in B : x \in 1 .. r - 1
    BY <2>1
  <2>3. IsFiniteSet(B) /\ Cardinality(B) <= r - 1
    <3> HIDE DEF B
    <3>1. B \in SUBSET (1 .. r - 1)
      BY <2>2
    <3>2. IsFiniteSet(B) /\ Cardinality(B) <= Cardinality(1 .. r - 1)
      BY <3>1, <2>1, FS_Subset
    <3> QED BY <3>2, <2>1
  <2>4. Cardinality(B) \in Nat
    BY <2>3, FS_CardinalityType
  <2> HIDE DEF B
  <2>5. r - Cardinality(B) \in 0 .. MaxRows
    BY <2>1, <2>3, <2>4, ScriptAssumption
  <2> QED BY <2>5 DEF B
<1> QED BY <1>1, <1>2

\* What fits of the clipboard are its first rows (PasteSelectedTradeRows).
LEMMA FittingRows ==
  ASSUME NEW s, Len(s) \in 0 .. MaxRows, Len(clip.rows) \in Nat
  PROVE  \E n \in Nat : /\ Fitting(s) = 1 .. n /\ n <= Len(clip.rows)
                        /\ Len(s) + n <= MaxRows /\ Cardinality(Fitting(s)) = n
<1> DEFINE room == MaxRows - Len(s)
           n == IF Len(clip.rows) <= room THEN Len(clip.rows) ELSE room
<1>1. room \in Nat /\ n \in Nat /\ n <= Len(clip.rows) /\ Len(s) + n <= MaxRows
  BY ScriptAssumption
<1>2. \A k \in Nat : k <= n <=> k <= Len(clip.rows) /\ Len(s) + k <= MaxRows
  BY ScriptAssumption
<1>3. Fitting(s) = 1 .. n
  <2> HIDE DEF n
  <2>1. ASSUME NEW k \in Fitting(s) PROVE k \in 1 .. n
    <3>1. k \in 1 .. Len(clip.rows) /\ Len(s) + k <= MaxRows
      BY <2>1 DEF Fitting, Rows
    <3> QED BY <3>1, <1>1, <1>2
  <2>2. ASSUME NEW k \in 1 .. n PROVE k \in Fitting(s)
    <3>1. k \in 1 .. Len(clip.rows) /\ Len(s) + k <= MaxRows
      BY <2>2, <1>1, <1>2
    <3> QED BY <3>1 DEF Fitting, Rows
  <2> QED BY <2>1, <2>2
<1>4. Cardinality(1 .. n) = n
  <2> HIDE DEF n
  <2> QED BY <1>1, FS_Interval
<1> QED BY <1>1, <1>3, <1>4

----------------------------------------------------------------------------
(* The two lists *)

\* Every reference of a list follows its row.
AllFollow(s, main) == \A i \in Rows(s) : Follows(s[i], main)

\* References on the clipboard follow as long as MAIN rows have not moved.
ClipFollows == ~stale /\ ~clipOld /\ clip.mode = "con" => AllFollow(clip.rows, mainRows)

\* What holds of the lists before and after every command of the editor.
ScriptInv == ScriptTypeOK /\ GroupsWellFormed /\ RefsFollowMain /\ ClipFollows

\* The two invariants, of the lists they are about.
LEMMA ScriptInvOf ==
  /\ GroupsWellFormed <=> GroupsOf(con)
  /\ RefsFollowMain <=> (~stale => AllFollow(con, mainRows))
BY DEF GroupsWellFormed, GroupsOf, RefsFollowMain, AllFollow

\* A reference follows its row in every list of MAIN rows that begins alike.
LEMMA FollowsOn ==
  ASSUME NEW row, NEW m, NEW n, Follows(row, m),
         \A k \in Rows(m) : k \in Rows(n) /\ n[k].id = m[k].id
  PROVE  Follows(row, n)
BY DEF Follows

\* Normalizing changes no reference.
LEMMA NormalizedFollow ==
  ASSUME NEW s \in Seq(ConRows), NEW m, AllFollow(s, m)
  PROVE  AllFollow(NormalizeTradeGroups(s), m)
<1> DEFINE t == NormalizeTradeGroups(s)
<1>1. Rows(t) = Rows(s)
  BY NormalizedGroups
<1>2. ASSUME NEW i \in Rows(s) PROVE Follows(t[i], m)
  <2>1. t[i].kind = s[i].kind /\ t[i].ref = s[i].ref /\ t[i].of = s[i].of
    BY NormalizedRow
  <2>2. Follows(s[i], m)
    BY DEF AllFollow
  <2> HIDE DEF t
  <2> QED BY <2>1, <2>2 DEF Follows
<1> QED BY <1>1, <1>2 DEF AllFollow

\* A command counts as one edit and leaves the lists typed.
LEMMA TypesSaved ==
  ASSUME ScriptTypeOK, Edit, clip' = clip, clipOld' \in BOOLEAN, stale' \in BOOLEAN,
         con' \in Seq(ConRows), Len(con') <= MaxRows,
         mainRows' \in Seq(MainRows), Len(mainRows') <= MaxRows, lastId' \in Nat
  PROVE  ScriptTypeOK'
<1>1. edits' \in 0 .. MaxEdits
  BY ScriptAssumption DEF ScriptTypeOK, Edit
<1>2. /\ clip'.mode \in {"main", "con"}
      /\ clip'.rows \in IF clip'.mode = "main" THEN Seq(MainRows) ELSE Seq(ConRows)
  BY Zenon DEF ScriptTypeOK
<1> QED BY Zenon, <1>1, <1>2 DEF ScriptTypeOK

\* A command that saves CON: the list is typed, its groups are well formed and
\* its references follow.
LEMMA ConSaved ==
  ASSUME ScriptInv, Edit, ConOnly, NEW t \in Seq(ConRows), Len(t) <= MaxRows,
         GroupsOf(t), ~stale => AllFollow(t, mainRows), con' = t
  PROVE  ScriptInv'
<1>1. ScriptTypeOK'
  <2>1. /\ mainRows \in Seq(MainRows) /\ Len(mainRows) <= MaxRows /\ lastId \in Nat
        /\ clipOld \in BOOLEAN /\ stale \in BOOLEAN /\ ScriptTypeOK
    BY Zenon DEF ScriptInv, ScriptTypeOK
  <2>2. UNCHANGED <<mainRows, clip, lastId, clipOld, stale>>
    BY DEF ConOnly
  <2> QED BY <2>1, <2>2, TypesSaved
<1>2. GroupsWellFormed' /\ RefsFollowMain' /\ ClipFollows'
  BY DEF ScriptInv, ConOnly, GroupsWellFormed, GroupsOf, RefsFollowMain, AllFollow,
         ClipFollows
<1> QED BY <1>1, <1>2 DEF ScriptInv

\* The same when the list is normalized before it is saved.
LEMMA ConNormalized ==
  ASSUME ScriptInv, Edit, ConOnly, NEW s \in Seq(ConRows), Len(s) <= MaxRows,
         ~stale => AllFollow(s, mainRows), con' = NormalizeTradeGroups(s)
  PROVE  ScriptInv'
<1> DEFINE t == NormalizeTradeGroups(s)
<1>1. t \in Seq(ConRows) /\ Len(t) <= MaxRows /\ GroupsOf(t)
  BY NormalizedGroups
<1>2. ~stale => AllFollow(t, mainRows)
  BY NormalizedFollow
<1>3. con' = t
  OBVIOUS
<1> HIDE DEF t
<1> QED BY <1>1, <1>2, <1>3, ConSaved

\* A command that adds MAIN rows at the end or changes rows in place.
LEMMA MainSaved ==
  ASSUME ScriptInv, Edit, UNCHANGED <<con, clip, clipOld, stale>>,
         NEW m \in Seq(MainRows), Len(m) <= MaxRows, mainRows' = m, lastId' \in Nat,
         \A k \in Rows(mainRows) : k \in Rows(m) /\ m[k].id = mainRows[k].id
  PROVE  ScriptInv'
<1>1. ScriptTypeOK'
  <2>1. /\ con \in Seq(ConRows) /\ Len(con) <= MaxRows
        /\ clipOld \in BOOLEAN /\ stale \in BOOLEAN /\ ScriptTypeOK
    BY Zenon DEF ScriptInv, ScriptTypeOK
  <2> QED BY <2>1, TypesSaved
<1>2. \A row : Follows(row, mainRows) => Follows(row, m)
  BY FollowsOn
<1>3. GroupsWellFormed' /\ RefsFollowMain' /\ ClipFollows'
  <2>1. GroupsOf(con) /\ (~stale => AllFollow(con, mainRows)) /\ ClipFollows
    BY ScriptInvOf DEF ScriptInv
  <2>2. (~stale => AllFollow(con, m)) /\ (~stale /\ ~clipOld /\ clip.mode = "con" =>
                                           AllFollow(clip.rows, m))
    BY <1>2, <2>1 DEF AllFollow, ClipFollows
  <2>3. GroupsWellFormed' <=> GroupsOf(con')
    BY DEF GroupsWellFormed, GroupsOf
  <2> QED BY <2>1, <2>2, <2>3 DEF RefsFollowMain, AllFollow, ClipFollows
<1> QED BY <1>1, <1>3 DEF ScriptInv

\* What the invariant says of the types.
LEMMA ScriptTypes ==
  ASSUME ScriptInv
  PROVE  /\ con \in Seq(ConRows) /\ Len(con) \in Nat /\ Len(con) <= MaxRows
         /\ mainRows \in Seq(MainRows) /\ Len(mainRows) \in Nat /\ Len(mainRows) <= MaxRows
         /\ lastId \in Nat /\ MaxRows \in Nat /\ 1 \in Repeats
         /\ GroupsOf(con) /\ (~stale => AllFollow(con, mainRows))
         /\ clip.mode = "main" => clip.rows \in Seq(MainRows)
         /\ clip.mode = "con" => clip.rows \in Seq(ConRows)
         /\ clip.mode \in {"main", "con"}
<1>1. ScriptTypeOK /\ GroupsOf(con) /\ (~stale => AllFollow(con, mainRows))
  BY ScriptInvOf DEF ScriptInv
<1> QED BY <1>1, ScriptAssumption DEF ScriptTypeOK

\* A row put at the end of CON, normalized and saved.
LEMMA ConAppended ==
  ASSUME ScriptInv, Edit, ConOnly, Len(con) < MaxRows, NEW row \in ConRows,
         ~stale => Follows(row, mainRows), con' = NormalizeTradeGroups(Append(con, row))
  PROVE  ScriptInv'
<1> DEFINE s == Append(con, row)
<1>1. s \in Seq(ConRows) /\ Len(s) = Len(con) + 1 /\ s[Len(con) + 1] = row
      /\ \A i \in 1 .. Len(con) : s[i] = con[i]
  BY ScriptTypes, AppendedList
<1>2. con' = NormalizeTradeGroups(s)
  OBVIOUS
<1> HIDE DEF s
<1>3. Len(s) <= MaxRows
  BY <1>1, ScriptTypes
<1>4. ASSUME ~stale PROVE AllFollow(s, mainRows)
  <2> SUFFICES ASSUME NEW i \in Rows(s) PROVE Follows(s[i], mainRows)
    BY DEF AllFollow
  <2>1. i = Len(con) + 1 \/ i \in 1 .. Len(con)
    BY <1>1, ScriptTypes DEF Rows
  <2> QED BY <2>1, <1>1, <1>4, ScriptTypes DEF AllFollow, Rows
<1> QED BY <1>1, <1>2, <1>3, <1>4, ConNormalized

----------------------------------------------------------------------------
(* Commands on CON *)

\* The rows that are made by a command.
LEMMA NewRows ==
  ASSUME ScriptInv
  PROVE  /\ NewConRow \in ConRows /\ NewConRow.kind = "click"
         /\ [NewConRow EXCEPT !.placed = TRUE] \in ConRows
         /\ [NewConRow EXCEPT !.placed = TRUE].kind = "click"
         /\ NewMainRow \in MainRows /\ [NewMainRow EXCEPT !.placed = TRUE] \in MainRows
         /\ [NewMainRow EXCEPT !.placed = TRUE].id = lastId + 1
         /\ \A r \in 0 .. MaxRows, id \in Nat :
              /\ Referring(r, id) \in ConRows
              /\ Referring(r, id).ref = r /\ Referring(r, id).of = id
<1>1. MaxRows \in Nat /\ 1 \in Repeats /\ lastId \in Nat /\ 0 \in 0 .. MaxRows
  BY ScriptTypes
<1>2. NewConRow \in ConRows /\ NewConRow.kind = "click"
  BY <1>1 DEF NewConRow, ConRows
<1>3. NewMainRow \in MainRows /\ NewMainRow.id = lastId + 1
  BY <1>1 DEF NewMainRow, MainRows
<1> QED BY <1>2, <1>3 DEF ConRows, MainRows, Referring

\* A click added by hand or recorded.
LEMMA AddConRowKeeps == ScriptInv /\ (AddTradeConRow \/ RecordConClick) => ScriptInv'
<1> SUFFICES ASSUME ScriptInv, AddTradeConRow \/ RecordConClick PROVE ScriptInv'
  OBVIOUS
<1>1. PICK row \in {NewConRow, [NewConRow EXCEPT !.placed = TRUE]} :
        /\ Edit /\ Len(con) < MaxRows
        /\ con' = NormalizeTradeGroups(Append(con, row)) /\ ConOnly
  BY DEF AddTradeConRow, RecordConClick
<1>2. row \in ConRows /\ Follows(row, mainRows)
  BY NewRows DEF Follows
<1> QED BY <1>1, <1>2, ConAppended

\* Rows are erased (DeleteTradeSequenceRow).
LEMMA DeleteConKeeps ==
  ASSUME ScriptInv, NEW rows, DeleteConRows(rows)
  PROVE  ScriptInv'
<1> DEFINE s == Without(con, rows)
<1>1. s \in Seq(ConRows) /\ Len(s) <= MaxRows
  <2>1. s \in Seq(ConRows) /\ Len(s) <= Len(con) /\ Len(s) \in Nat
    BY ScriptTypes, WithoutLists, ElementOf
  <2> HIDE DEF s
  <2> QED BY <2>1, ScriptTypes
<1>2. ASSUME ~stale PROVE AllFollow(s, mainRows)
  <2> SUFFICES ASSUME NEW n \in Rows(s) PROVE Follows(s[n], mainRows)
    BY DEF AllFollow
  <2>1. PICK i \in Kept(con, rows) : Count(Kept(con, rows), i) = n
    BY ScriptTypes, WithoutLists
  <2>2. s[n] = con[i]
    BY <2>1, ScriptTypes, WithoutLists
  <2>3. i \in Rows(con)
    BY DEF Kept
  <2> HIDE DEF s
  <2> QED BY <1>2, <2>2, <2>3, ScriptTypes DEF AllFollow
<1>3. Edit /\ ConOnly /\ con' = NormalizeTradeGroups(s)
  BY DEF DeleteConRows
<1> HIDE DEF s
<1> QED BY <1>1, <1>2, <1>3, ConNormalized

\* Two rows change places (MoveTradeSequenceRow).
LEMMA MoveConKeeps ==
  ASSUME ScriptInv, NEW i \in 1 .. Len(con) - 1, MoveConRow(i)
  PROVE  ScriptInv'
<1> DEFINE s == Swapped(con, i)
<1>1. /\ s \in Seq(ConRows) /\ Len(s) = Len(con)
      /\ s[i] = con[i + 1] /\ s[i + 1] = con[i]
      /\ \A k \in Rows(con) \ {i, i + 1} : s[k] = con[k]
  BY ScriptTypes, SwappedLists
<1>2. Edit /\ ConOnly /\ con' = NormalizeTradeGroups(s)
  BY DEF MoveConRow
<1> HIDE DEF s
<1>3. i \in Rows(con) /\ i + 1 \in Rows(con) /\ Rows(s) = Rows(con)
  BY <1>1, ScriptTypes DEF Rows
<1>4. ASSUME ~stale PROVE AllFollow(s, mainRows)
  BY <1>1, <1>3, <1>4, ScriptTypes DEF AllFollow
<1>5. Len(s) <= MaxRows
  BY <1>1, ScriptTypes
<1> QED BY <1>1, <1>2, <1>4, <1>5, ConNormalized

\* A change of the fields a reference does not depend on.
LEMMA RowsChanged ==
  ASSUME ScriptInv, NEW f, f \in [Rows(con) -> ConRows],
         \A i \in Rows(con) : f[i].kind = con[i].kind /\ f[i].ref = con[i].ref
                              /\ f[i].of = con[i].of
  PROVE  /\ f \in Seq(ConRows) /\ Len(f) <= MaxRows /\ Rows(f) = Rows(con)
         /\ ~stale => AllFollow(f, mainRows)
<1>1. f \in [1 .. Len(con) -> ConRows] /\ Len(con) \in Nat
  BY ScriptTypes DEF Rows
<1>2. f \in Seq(ConRows) /\ Len(f) = Len(con)
  BY <1>1, SameLength
<1>3. Rows(f) = Rows(con) /\ Len(f) <= MaxRows
  BY <1>2, ScriptTypes DEF Rows
<1>4. ASSUME ~stale PROVE AllFollow(f, mainRows)
  BY <1>3, <1>4, ScriptTypes DEF AllFollow, Follows
<1> QED BY <1>2, <1>3, <1>4

\* Selected rows become a group (GroupSelectedTradeRows).
LEMMA GroupKeeps ==
  ASSUME ScriptInv, NEW first, NEW last, NEW n \in Repeats,
         GroupSelectedTradeRows(first, last, n)
  PROVE  ScriptInv'
<1> DEFINE g == MaxTradeGroupId(con) + 1
           f == [i \in Rows(con) |-> IF i \in first .. last
                                     THEN [con[i] EXCEPT !.group = g, !.times = n]
                                     ELSE con[i]]
<1>1. Edit /\ ConOnly /\ con' = NormalizeTradeGroups(f)
  BY DEF GroupSelectedTradeRows
<1>2. g \in Nat
  BY ScriptTypes, GreatestGroup
<1> HIDE DEF g
<1>3. ASSUME NEW i \in Rows(con)
      PROVE  f[i] \in ConRows /\ f[i].kind = con[i].kind /\ f[i].ref = con[i].ref
             /\ f[i].of = con[i].of
  <2>1. con[i] \in ConRows
    BY ScriptTypes, ElementOf
  <2> QED BY <2>1, <1>2 DEF ConRows
<1>4. f \in [Rows(con) -> ConRows]
  BY <1>3
<1> HIDE DEF f
<1>5. f \in Seq(ConRows) /\ Len(f) <= MaxRows /\ (~stale => AllFollow(f, mainRows))
  BY <1>3, <1>4, RowsChanged
<1> QED BY <1>1, <1>5, ConNormalized

\* A group is dissolved (UngroupSelectedTradeRows).
LEMMA UngroupKeeps ==
  ASSUME ScriptInv, NEW i, UngroupSelectedTradeRows(i)
  PROVE  ScriptInv'
<1> DEFINE f == [k \in Rows(con) |-> IF con[k].group = con[i].group
                                     THEN [con[k] EXCEPT !.group = 0, !.times = 1]
                                     ELSE con[k]]
<1>1. Edit /\ ConOnly /\ con' = NormalizeTradeGroups(f)
  BY DEF UngroupSelectedTradeRows
<1>2. 1 \in Repeats
  BY ScriptTypes
<1>3. ASSUME NEW k \in Rows(con)
      PROVE  f[k] \in ConRows /\ f[k].kind = con[k].kind /\ f[k].ref = con[k].ref
             /\ f[k].of = con[k].of
  <2>1. con[k] \in ConRows
    BY ScriptTypes, ElementOf
  <2> QED BY <2>1, <1>2 DEF ConRows
<1>4. f \in [Rows(con) -> ConRows]
  BY <1>3
<1> HIDE DEF f
<1>5. f \in Seq(ConRows) /\ Len(f) <= MaxRows /\ (~stale => AllFollow(f, mainRows))
  BY <1>3, <1>4, RowsChanged
<1> QED BY <1>1, <1>5, ConNormalized

\* One row is replaced, in its group (SaveSelectedTradeStep, F8).
LEMMA RowSaved ==
  ASSUME ScriptInv, NEW i \in Rows(con), NEW row \in ConRows,
         row.group = con[i].group, row.times = con[i].times,
         ~stale => Follows(row, mainRows),
         Edit, ConOnly, con' = [con EXCEPT ![i] = row]
  PROVE  ScriptInv'
<1> DEFINE t == [con EXCEPT ![i] = row]
<1>1. con \in Seq(ConRows) /\ i \in DOMAIN con /\ Len(con) <= MaxRows /\ Len(con) \in Nat
  BY ScriptTypes, ElementOf
<1>2. t \in Seq(ConRows) /\ Len(t) = Len(con) /\ t[i] = row
      /\ \A k \in DOMAIN con : k # i => t[k] = con[k]
  BY <1>1
<1>3. con' = t
  OBVIOUS
<1> HIDE DEF t
<1>4. Rows(t) = Rows(con) /\ Rows(con) = DOMAIN con
  BY <1>1, <1>2, ElementOf DEF Rows
<1>5. \A k \in Rows(con) : t[k].group = con[k].group /\ t[k].times = con[k].times
  BY <1>2, <1>4
<1>6. GroupsOf(t)
  BY <1>1, <1>4, <1>5, ScriptTypes, GroupsKept
<1>7. ASSUME ~stale PROVE AllFollow(t, mainRows)
  BY <1>2, <1>4, <1>7, ScriptTypes DEF AllFollow
<1>8. Len(t) <= MaxRows
  BY <1>1, <1>2
<1> QED BY <1>2, <1>3, <1>6, <1>7, <1>8, ConSaved

\* A row becomes a click or a transfer, a reference, or gets its point.
LEMMA SaveRowKeeps ==
  ASSUME ScriptInv, NEW i \in Rows(con),
         \/ \E kind \in {"click", "transfer"}, n \in Repeats : SaveConRow(i, kind, n)
         \/ \E r \in Rows(mainRows) : SaveConReference(i, r)
         \/ CaptureConPoint(i)
  PROVE  ScriptInv'
<1>1. con[i] \in ConRows
  BY ScriptTypes, ElementOf
<1>2. ASSUME NEW kind \in {"click", "transfer"}, NEW n \in Repeats, SaveConRow(i, kind, n)
      PROVE  ScriptInv'
  <2> DEFINE row == [con[i] EXCEPT !.kind = kind, !.ref = 0, !.of = 0, !.repeat = n]
  <2>1. Edit /\ ConOnly /\ con' = [con EXCEPT ![i] = row]
    BY <1>2 DEF SaveConRow
  <2>2. row \in ConRows /\ row.group = con[i].group /\ row.times = con[i].times
        /\ row.kind # "main"
    <3>1. kind \in {"click", "transfer", "main"} /\ kind # "main" /\ n \in Repeats
          /\ 0 \in 0 .. MaxRows /\ 0 \in Nat
      BY ScriptTypes
    <3>2. row \in ConRows
      BY <1>1, <3>1 DEF ConRows
    <3>3. row.group = con[i].group /\ row.times = con[i].times /\ row.kind = kind
      BY <1>1 DEF ConRows
    <3> QED BY <3>1, <3>2, <3>3
  <2> HIDE DEF row
  <2>3. Follows(row, mainRows)
    BY <2>2 DEF Follows
  <2> QED BY <2>1, <2>2, <2>3, RowSaved
<1>3. ASSUME NEW r \in Rows(mainRows), SaveConReference(i, r)
      PROVE  ScriptInv'
  <2> DEFINE row == [con[i] EXCEPT !.kind = "main", !.ref = r, !.of = mainRows[r].id]
  <2>1. Edit /\ ConOnly /\ con' = [con EXCEPT ![i] = row]
    BY <1>3 DEF SaveConReference
  <2>2. r \in 0 .. MaxRows /\ mainRows[r].id \in Nat
    <3>1. mainRows[r] \in MainRows /\ r \in Nat /\ r <= Len(mainRows)
      BY ScriptTypes, ElementOf
    <3> QED BY <3>1, ScriptTypes DEF MainRows
  <2>3. row \in ConRows /\ row.group = con[i].group /\ row.times = con[i].times
        /\ row.ref = r /\ row.of = mainRows[r].id
    BY <1>1, <2>2 DEF ConRows
  <2> HIDE DEF row
  <2>4. Follows(row, mainRows)
    BY <2>3 DEF Follows
  <2> QED BY <2>1, <2>3, <2>4, RowSaved
<1>4. ASSUME CaptureConPoint(i) PROVE ScriptInv'
  <2> DEFINE row == [con[i] EXCEPT !.placed = TRUE]
  <2>1. Edit /\ ConOnly
    BY <1>4 DEF CaptureConPoint
  <2>2. i \in DOMAIN con
    BY ScriptTypes, ElementOf
  <2>3. con' = [con EXCEPT ![i] = row]
    BY <1>4, <2>2 DEF CaptureConPoint
  <2>4. row \in ConRows /\ row.group = con[i].group /\ row.times = con[i].times
        /\ row.kind = con[i].kind /\ row.ref = con[i].ref /\ row.of = con[i].of
    BY <1>1 DEF ConRows
  <2> HIDE DEF row
  <2>5. ASSUME ~stale PROVE Follows(row, mainRows)
    BY <2>4, <2>5, ScriptTypes DEF AllFollow, Follows
  <2> QED BY <2>1, <2>3, <2>4, <2>5, RowSaved
<1> QED BY <1>2, <1>3, <1>4

\* A copied row of CON, in a group behind all groups that exist.
Pasted(row) == [row EXCEPT !.group = IF @ = 0 THEN 0 ELSE @ + MaxTradeGroupId(con)]

\* A pasted row differs from the copied one in its group only.
LEMMA PastedRow ==
  ASSUME ScriptInv, NEW row \in ConRows
  PROVE  /\ Pasted(row) \in ConRows /\ Pasted(row).kind = row.kind
         /\ Pasted(row).ref = row.ref /\ Pasted(row).of = row.of
<1> DEFINE g == MaxTradeGroupId(con)
<1>1. g \in Nat
  BY ScriptTypes, GreatestGroup
<1> HIDE DEF g
<1>2. Pasted(row) = [row EXCEPT !.group = IF @ = 0 THEN 0 ELSE @ + g]
  BY DEF Pasted, g
<1> QED BY <1>1, <1>2 DEF ConRows

\* Copied rows are put at the end (PasteSelectedTradeRows).
LEMMA PasteConKeeps == ScriptInv /\ PasteConRows => ScriptInv'
<1> SUFFICES ASSUME ScriptInv, PasteConRows PROVE ScriptInv'
  OBVIOUS
<1>1. /\ Edit /\ clip.mode = "con" /\ clip.rows \in Seq(ConRows)
      /\ UNCHANGED <<mainRows, clip, lastId, clipOld>>
      /\ stale' = (stale \/ clipOld) /\ stale \in BOOLEAN /\ clipOld \in BOOLEAN
      /\ ScriptTypeOK /\ ClipFollows
  BY ScriptTypes DEF PasteConRows, ScriptInv, ScriptTypeOK
<1>2. Len(clip.rows) \in Nat /\ Rows(clip.rows) = 1 .. Len(clip.rows)
      /\ \A n \in Rows(clip.rows) : clip.rows[n] \in ConRows
  BY <1>1, ElementOf
<1>3. PICK m \in Nat : /\ Fitting(con) = 1 .. m /\ m <= Len(clip.rows)
                       /\ Len(con) + m <= MaxRows
  <2>1. Len(con) \in 0 .. MaxRows
    BY ScriptTypes
  <2> QED BY <1>2, <2>1, FittingRows
<1> DEFINE o == [n \in 1 .. m |-> Pasted(clip.rows[n])]
           s == con \o o
           t == NormalizeTradeGroups(s)
<1>4. con' = t
  BY <1>3 DEF PasteConRows, Pasted
<1>5. \A n \in 1 .. m : n \in Rows(clip.rows) /\ clip.rows[n] \in ConRows
                        /\ Pasted(clip.rows[n]) \in ConRows
  BY <1>2, <1>3, PastedRow
<1>6. o \in Seq(ConRows) /\ Len(o) = m
  <2>1. o \in [1 .. m -> ConRows]
    BY <1>5
  <2> HIDE DEF o
  <2> QED BY <2>1, SameLength
<1>7. \A n \in 1 .. m : o[n] = Pasted(clip.rows[n])
  OBVIOUS
<1> HIDE DEF o
<1>8. /\ s \in Seq(ConRows) /\ Len(s) = Len(con) + m
      /\ \A i \in 1 .. Len(con) : s[i] = con[i]
      /\ \A i \in Len(con) + 1 .. Len(con) + m : s[i] = o[i - Len(con)]
  BY <1>6, ScriptTypes, JoinedLists
<1> HIDE DEF s
<1>9. t \in Seq(ConRows) /\ Len(t) <= MaxRows /\ GroupsOf(t)
  BY <1>3, <1>8, NormalizedGroups
<1>10. ASSUME ~stale, ~clipOld PROVE AllFollow(t, mainRows)
  <2>1. AllFollow(con, mainRows) /\ AllFollow(clip.rows, mainRows)
    BY <1>1, <1>10, ScriptTypes DEF ClipFollows
  <2>2. ASSUME NEW i \in Rows(s) PROVE Follows(s[i], mainRows)
    <3>1. i \in 1 .. Len(con) \/ i \in Len(con) + 1 .. Len(con) + m
      BY <1>8, ScriptTypes DEF Rows
    <3>2. CASE i \in 1 .. Len(con)
      BY <2>1, <3>2, <1>8 DEF AllFollow, Rows
    <3>3. CASE i \in Len(con) + 1 .. Len(con) + m
      <4> DEFINE n == i - Len(con)
      <4>1. n \in 1 .. m
        BY <3>3, ScriptTypes
      <4>2. s[i] = Pasted(clip.rows[n])
        BY <3>3, <4>1, <1>7, <1>8
      <4> HIDE DEF n
      <4>3. Follows(clip.rows[n], mainRows) /\ clip.rows[n] \in ConRows
        BY <2>1, <4>1, <1>5 DEF AllFollow
      <4>4. /\ s[i].kind = clip.rows[n].kind /\ s[i].ref = clip.rows[n].ref
            /\ s[i].of = clip.rows[n].of
        BY <4>2, <4>3, PastedRow
      <4> QED BY <4>3, <4>4 DEF Follows
    <3> QED BY <3>1, <3>2, <3>3
  <2>3. AllFollow(s, mainRows)
    BY <2>2 DEF AllFollow
  <2> QED BY <2>3, <1>8, NormalizedFollow
<1> HIDE DEF t
<1>11. ScriptTypeOK'
  <2>1. /\ mainRows' \in Seq(MainRows) /\ Len(mainRows') <= MaxRows /\ lastId' \in Nat
        /\ clipOld' \in BOOLEAN /\ stale' \in BOOLEAN /\ clip' = clip
        /\ con' \in Seq(ConRows) /\ Len(con') <= MaxRows
    BY <1>1, <1>4, <1>9, ScriptTypes
  <2> QED BY <1>1, <2>1, TypesSaved
<1>12. GroupsWellFormed' /\ RefsFollowMain' /\ ClipFollows'
  BY <1>1, <1>4, <1>9, <1>10 DEF GroupsWellFormed, GroupsOf, RefsFollowMain, AllFollow,
                                 ClipFollows
<1> QED BY <1>11, <1>12 DEF ScriptInv

\* A recorded click on MAIN: a reference to a row that is there, or to a new
\* one at the end (RecordConReference).
LEMMA RecordReferenceKeeps == ScriptInv /\ RecordConReference => ScriptInv'
<1> SUFFICES ASSUME ScriptInv, RecordConReference PROVE ScriptInv'
  OBVIOUS
<1>1. Edit /\ Len(con) < MaxRows /\ UNCHANGED <<clip, clipOld, stale>>
  BY DEF RecordConReference
<1>2. ASSUME NEW r \in Rows(mainRows), UNCHANGED <<mainRows, lastId>>,
             con' = NormalizeTradeGroups(Append(con, Referring(r, mainRows[r].id)))
      PROVE  ScriptInv'
  <2> DEFINE row == Referring(r, mainRows[r].id)
  <2>1. mainRows[r] \in MainRows /\ r \in Nat /\ r <= Len(mainRows)
    BY ScriptTypes, ElementOf
  <2>2. r \in 0 .. MaxRows /\ mainRows[r].id \in Nat
    BY <2>1, ScriptTypes DEF MainRows
  <2>3. row \in ConRows /\ row.ref = r /\ row.of = mainRows[r].id
    BY <2>2, NewRows
  <2>4. con' = NormalizeTradeGroups(Append(con, row))
    BY <1>2
  <2> HIDE DEF row
  <2>5. Follows(row, mainRows)
    BY <2>3 DEF Follows
  <2>6. ConOnly
    BY <1>1, <1>2 DEF ConOnly
  <2> QED BY <1>1, <2>3, <2>4, <2>5, <2>6, ConAppended
<1>3. ASSUME AddMainRow([NewMainRow EXCEPT !.placed = TRUE]),
             con' = NormalizeTradeGroups(
                      Append(con, Referring(Len(mainRows) + 1, lastId + 1)))
      PROVE  ScriptInv'
  <2> DEFINE new == [NewMainRow EXCEPT !.placed = TRUE]
             m == Append(mainRows, new)
             row == Referring(Len(mainRows) + 1, lastId + 1)
             s == Append(con, row)
             t == NormalizeTradeGroups(s)
  <2>1. mainRows' = m /\ lastId' = lastId + 1 /\ Len(mainRows) < MaxRows /\ con' = t
    BY <1>3 DEF AddMainRow
  <2>2. new \in MainRows /\ new.id = lastId + 1
    BY NewRows
  <2>3. row \in ConRows /\ row.ref = Len(mainRows) + 1 /\ row.of = lastId + 1
    <3>1. Len(mainRows) + 1 \in 0 .. MaxRows /\ lastId + 1 \in Nat
      BY <2>1, ScriptTypes
    <3> QED BY <3>1, NewRows
  <2> HIDE DEF new, row
  <2>4. /\ m \in Seq(MainRows) /\ Len(m) = Len(mainRows) + 1
        /\ m[Len(mainRows) + 1] = new
        /\ \A k \in 1 .. Len(mainRows) : m[k] = mainRows[k]
    BY <2>2, ScriptTypes, AppendedList
  <2>5. /\ s \in Seq(ConRows) /\ Len(s) = Len(con) + 1 /\ s[Len(con) + 1] = row
        /\ \A i \in 1 .. Len(con) : s[i] = con[i]
    BY <2>3, ScriptTypes, AppendedList
  <2> HIDE DEF m, s
  <2>6. Rows(m) = 1 .. Len(mainRows) + 1 /\ Rows(mainRows) = 1 .. Len(mainRows)
        /\ Rows(s) = 1 .. Len(con) + 1 /\ Rows(con) = 1 .. Len(con)
    BY <2>4, <2>5 DEF Rows
  <2>7. \A k \in Rows(mainRows) : k \in Rows(m) /\ m[k].id = mainRows[k].id
    BY <2>4, <2>6, ScriptTypes
  <2>8. \A x : Follows(x, mainRows) => Follows(x, m)
    BY <2>7, FollowsOn
  <2>9. Len(mainRows) + 1 \in Rows(m)
    BY <2>6, ScriptTypes
  <2>10. Follows(row, m)
    BY <2>2, <2>3, <2>4, <2>9 DEF Follows
  <2>11. ASSUME ~stale PROVE AllFollow(s, m)
    <3> SUFFICES ASSUME NEW i \in Rows(s) PROVE Follows(s[i], m)
      BY DEF AllFollow
    <3>1. i = Len(con) + 1 \/ i \in Rows(con)
      BY <2>6, ScriptTypes
    <3>2. CASE i = Len(con) + 1
      BY <3>2, <2>5, <2>10
    <3>3. CASE i \in Rows(con)
      <4>1. Follows(con[i], mainRows) /\ s[i] = con[i]
        BY <3>3, <2>5, <2>6, <2>11, ScriptTypes DEF AllFollow
      <4> QED BY <4>1, <2>8
    <3> QED BY <3>1, <3>2, <3>3
  <2>12. t \in Seq(ConRows) /\ Len(t) <= MaxRows /\ GroupsOf(t)
    <3>1. Len(s) <= MaxRows
      BY <1>1, <2>5, ScriptTypes
    <3> QED BY <3>1, <2>5, NormalizedGroups
  <2>13. ASSUME ~stale PROVE AllFollow(t, m)
    BY <2>5, <2>11, <2>13, NormalizedFollow
  <2> HIDE DEF t
  <2>14. ScriptTypeOK'
    <3>1. clipOld \in BOOLEAN /\ stale \in BOOLEAN /\ ScriptTypeOK
      BY Zenon DEF ScriptInv, ScriptTypeOK
    <3>2. Len(m) <= MaxRows /\ lastId + 1 \in Nat
      BY <2>1, <2>4, ScriptTypes
    <3> QED BY <3>1, <3>2, <1>1, <2>1, <2>4, <2>12, TypesSaved
  <2>15. ClipFollows'
    <3>1. ~stale /\ ~clipOld /\ clip.mode = "con" => AllFollow(clip.rows, m)
      BY <2>8 DEF ScriptInv, ClipFollows, AllFollow
    <3> QED BY <3>1, <1>1, <2>1 DEF ClipFollows, AllFollow
  <2>16. GroupsWellFormed' /\ RefsFollowMain'
    BY <1>1, <2>1, <2>12, <2>13 DEF GroupsWellFormed, GroupsOf, RefsFollowMain, AllFollow
  <2> QED BY <2>14, <2>15, <2>16 DEF ScriptInv
<1> QED BY <1>2, <1>3 DEF RecordConReference

----------------------------------------------------------------------------
(* Commands on MAIN, and copies *)

\* A row added by hand or recorded.
LEMMA AddMainKeeps == ScriptInv /\ (AddTradeMainRow \/ RecordMain) => ScriptInv'
<1> SUFFICES ASSUME ScriptInv, AddTradeMainRow \/ RecordMain PROVE ScriptInv'
  OBVIOUS
<1>1. PICK row \in {NewMainRow, [NewMainRow EXCEPT !.placed = TRUE]} :
        /\ Edit /\ AddMainRow(row)
        /\ UNCHANGED <<con, clip, clipOld, stale>>
  BY DEF AddTradeMainRow, RecordMain
<1>2. row \in MainRows
  BY NewRows
<1> DEFINE m == Append(mainRows, row)
<1>3. mainRows' = m /\ lastId' = lastId + 1 /\ Len(mainRows) < MaxRows
  BY <1>1 DEF AddMainRow
<1>4. m \in Seq(MainRows) /\ Len(m) = Len(mainRows) + 1
      /\ \A k \in 1 .. Len(mainRows) : m[k] = mainRows[k]
  BY <1>2, ScriptTypes, AppendedList
<1> HIDE DEF m
<1>5. Len(m) <= MaxRows /\ lastId' \in Nat
  BY <1>3, <1>4, ScriptTypes
<1>6. \A k \in Rows(mainRows) : k \in Rows(m) /\ m[k].id = mainRows[k].id
  BY <1>4, ScriptTypes DEF Rows
<1> QED BY <1>1, <1>3, <1>4, <1>5, <1>6, MainSaved

\* Copied rows of MAIN are put at the end, as rows of their own.
LEMMA PasteMainKeeps == ScriptInv /\ PasteMainRows => ScriptInv'
<1> SUFFICES ASSUME ScriptInv, PasteMainRows PROVE ScriptInv'
  OBVIOUS
<1>1. Edit /\ clip.mode = "main" /\ UNCHANGED <<con, clip, clipOld, stale>>
      /\ clip.rows \in Seq(MainRows)
  BY ScriptTypes DEF PasteMainRows
<1>2. Len(clip.rows) \in Nat /\ Rows(clip.rows) = 1 .. Len(clip.rows)
      /\ \A n \in Rows(clip.rows) : clip.rows[n] \in MainRows
  BY <1>1, ElementOf
<1>3. PICK c \in Nat : /\ Fitting(mainRows) = 1 .. c /\ c <= Len(clip.rows)
                       /\ Len(mainRows) + c <= MaxRows
                       /\ Cardinality(Fitting(mainRows)) = c
  <2>1. Len(mainRows) \in 0 .. MaxRows
    BY ScriptTypes
  <2> QED BY <1>2, <2>1, FittingRows
<1> DEFINE o == [n \in 1 .. c |-> [clip.rows[n] EXCEPT !.id = lastId + n]]
           m == mainRows \o o
<1>4. mainRows' = m /\ lastId' = lastId + c
  BY <1>3 DEF PasteMainRows
<1>5. ASSUME NEW n \in 1 .. c PROVE [clip.rows[n] EXCEPT !.id = lastId + n] \in MainRows
  <2>1. clip.rows[n] \in MainRows
    BY <1>2, <1>3
  <2>3. lastId + n \in Nat
    BY <1>3, ScriptTypes
  <2> QED BY <2>1, <2>3 DEF MainRows
<1>6. o \in Seq(MainRows) /\ Len(o) = c
  <2>1. o \in [1 .. c -> MainRows]
    BY <1>5
  <2> HIDE DEF o
  <2> QED BY <2>1, SameLength
<1> HIDE DEF o
<1>7. m \in Seq(MainRows) /\ Len(m) = Len(mainRows) + c
      /\ \A k \in 1 .. Len(mainRows) : m[k] = mainRows[k]
  BY <1>6, ScriptTypes, JoinedLists
<1> HIDE DEF m
<1>8. Len(m) <= MaxRows /\ lastId' \in Nat
  BY <1>3, <1>4, <1>7, ScriptTypes
<1>9. \A k \in Rows(mainRows) : k \in Rows(m) /\ m[k].id = mainRows[k].id
  BY <1>7, ScriptTypes DEF Rows
<1> QED BY <1>1, <1>4, <1>7, <1>8, <1>9, MainSaved

\* A row's count or point changes.
LEMMA SaveMainKeeps ==
  ASSUME ScriptInv, NEW i \in Rows(mainRows),
         CaptureMainPoint(i) \/ \E n \in Repeats : SaveMainRow(i, n)
  PROVE  ScriptInv'
<1>1. mainRows[i] \in MainRows /\ i \in DOMAIN mainRows
  BY ScriptTypes, ElementOf
<1>2. PICK row \in MainRows : /\ row.id = mainRows[i].id
                              /\ mainRows' = [mainRows EXCEPT ![i] = row]
  <2>1. ASSUME NEW n \in Repeats, SaveMainRow(i, n)
        PROVE  \E row \in MainRows : /\ row.id = mainRows[i].id
                                     /\ mainRows' = [mainRows EXCEPT ![i] = row]
    <3> DEFINE row == [mainRows[i] EXCEPT !.repeat = n]
    <3>1. row \in MainRows /\ row.id = mainRows[i].id
      BY <1>1 DEF MainRows
    <3>2. mainRows' = [mainRows EXCEPT ![i] = row]
      BY <1>1, <2>1 DEF SaveMainRow
    <3> HIDE DEF row
    <3> QED BY <3>1, <3>2
  <2>2. ASSUME CaptureMainPoint(i)
        PROVE  \E row \in MainRows : /\ row.id = mainRows[i].id
                                     /\ mainRows' = [mainRows EXCEPT ![i] = row]
    <3> DEFINE row == [mainRows[i] EXCEPT !.placed = TRUE]
    <3>1. row \in MainRows /\ row.id = mainRows[i].id
      BY <1>1 DEF MainRows
    <3>2. mainRows' = [mainRows EXCEPT ![i] = row]
      BY <1>1, <2>2 DEF CaptureMainPoint
    <3> HIDE DEF row
    <3> QED BY <3>1, <3>2
  <2> QED BY <2>1, <2>2
<1>3. Edit /\ UNCHANGED <<con, clip, lastId, clipOld, stale>>
  BY DEF SaveMainRow, CaptureMainPoint
<1> DEFINE m == [mainRows EXCEPT ![i] = row]
<1>4. m \in Seq(MainRows) /\ Len(m) = Len(mainRows) /\ m[i] = row
      /\ \A k \in DOMAIN mainRows : k # i => m[k] = mainRows[k]
  BY <1>1, ScriptTypes
<1>5. mainRows' = m
  BY <1>2
<1> HIDE DEF m
<1>6. \A k \in Rows(mainRows) : k \in Rows(m) /\ m[k].id = mainRows[k].id
  <2>1. Rows(mainRows) = DOMAIN mainRows /\ Rows(m) = Rows(mainRows)
    BY <1>4, ScriptTypes, ElementOf DEF Rows
  <2> QED BY <2>1, <1>2, <1>4
<1>7. Len(m) <= MaxRows /\ lastId' \in Nat
  BY <1>3, <1>4, ScriptTypes
<1> QED BY <1>3, <1>4, <1>5, <1>6, <1>7, MainSaved

\* A command that moves MAIN rows and takes the references along.
LEMMA MainMoved ==
  ASSUME ScriptInv, Edit, clipOld' = TRUE, UNCHANGED <<clip, lastId, stale>>,
         NEW m \in Seq(MainRows), Len(m) <= MaxRows, mainRows' = m,
         NEW t \in Seq(ConRows), Len(t) <= MaxRows, con' = t, GroupsOf(t),
         ~stale => AllFollow(t, m)
  PROVE  ScriptInv'
<1>1. ScriptTypeOK'
  <2>1. lastId \in Nat /\ clipOld' \in BOOLEAN /\ stale \in BOOLEAN /\ ScriptTypeOK
    BY Zenon DEF ScriptInv, ScriptTypeOK
  <2> QED BY <2>1, TypesSaved
<1>2. GroupsWellFormed' /\ RefsFollowMain' /\ ClipFollows'
  BY DEF GroupsWellFormed, GroupsOf, RefsFollowMain, AllFollow, ClipFollows
<1> QED BY <1>1, <1>2 DEF ScriptInv

\* Rows are erased; the references to them break, the others move up with
\* their row (DeleteTradeSequenceRow).
LEMMA DeleteMainKeeps ==
  ASSUME ScriptInv, NEW rows, rows \subseteq Rows(mainRows), DeleteMainRows(rows)
  PROVE  ScriptInv'
<1> DEFINE m == Without(mainRows, rows)
           s == RefsWithout(rows)
           t == NormalizeTradeGroups(s)
<1>1. Edit /\ clipOld' = TRUE /\ UNCHANGED <<clip, lastId, stale>>
      /\ mainRows' = m /\ con' = t
  BY DEF DeleteMainRows
<1>2. m \in Seq(MainRows) /\ Len(m) <= MaxRows
  <2>1. m \in Seq(MainRows) /\ Len(m) <= Len(mainRows) /\ Len(m) \in Nat
    BY ScriptTypes, WithoutLists, ElementOf
  <2> HIDE DEF m
  <2> QED BY <2>1, ScriptTypes
<1>3. \A x \in rows : x \in Nat \ {0}
  BY ScriptTypes DEF Rows
<1>4. ASSUME NEW i \in Rows(con)
      PROVE  /\ s[i] \in ConRows /\ s[i].kind = con[i].kind /\ s[i].of = con[i].of
             /\ s[i].ref = IF con[i].ref \in rows THEN 0
                           ELSE con[i].ref - Cardinality({r \in rows : r < con[i].ref})
  <2> DEFINE d == con[i].ref - Cardinality({r \in rows : r < con[i].ref})
  <2>1. con[i] \in ConRows
    BY ScriptTypes, ElementOf
  <2>2. con[i].ref \in 0 .. MaxRows /\ 0 \in 0 .. MaxRows
    BY <2>1, ScriptTypes DEF ConRows
  <2>3. d \in 0 .. MaxRows
    BY <2>2, <1>3, RefMoves
  <2>4. s[i] = IF con[i].ref \in rows THEN [con[i] EXCEPT !.ref = 0]
               ELSE [con[i] EXCEPT !.ref = d]
    BY DEF RefsWithout
  <2> HIDE DEF d, s
  <2>5. /\ s[i] \in ConRows /\ s[i].kind = con[i].kind /\ s[i].of = con[i].of
        /\ s[i].ref = IF con[i].ref \in rows THEN 0 ELSE d
    BY <2>1, <2>2, <2>3, <2>4 DEF ConRows
  <2> QED BY <2>5 DEF d
<1>5. s \in Seq(ConRows) /\ Len(s) = Len(con) /\ Rows(s) = Rows(con)
  <2>1. s = [i \in Rows(con) |-> s[i]]
    BY DEF RefsWithout
  <2> HIDE DEF s
  <2>2. s \in [1 .. Len(con) -> ConRows] /\ Len(con) \in Nat
    BY <2>1, <1>4, ScriptTypes DEF Rows
  <2> QED BY <2>2, SameLength DEF Rows
<1>6. t \in Seq(ConRows) /\ Len(t) <= MaxRows /\ GroupsOf(t)
  <2> HIDE DEF s
  <2>1. t \in Seq(ConRows) /\ Len(t) = Len(s) /\ GroupsOf(t)
    BY <1>5, NormalizedGroups
  <2> HIDE DEF t
  <2> QED BY <2>1, <1>5, ScriptTypes
<1>7. ASSUME ~stale PROVE AllFollow(s, m)
  <2> SUFFICES ASSUME NEW i \in Rows(con), s[i].kind = "main", s[i].ref # 0
               PROVE  s[i].ref \in Rows(m) /\ m[s[i].ref].id = s[i].of
    <3> HIDE DEF s, m
    <3> QED BY <1>5 DEF AllFollow, Follows
  <2> DEFINE r == con[i].ref
             d == r - Cardinality({x \in rows : x < r})
  <2>1. con[i].kind = "main" /\ r \notin rows /\ s[i].ref = d /\ s[i].of = con[i].of
    <3> HIDE DEF s
    <3> QED BY <1>4
  <2>2. r # 0
    <3>1. CASE r = 0
      <4>1. {x \in rows : x < r} = {}
        BY <3>1, <1>3
      <4>2. d = 0
        BY <3>1, <4>1, FS_EmptySet
      <4> HIDE DEF s, d
      <4> QED BY <4>2, <2>1
    <3> QED BY <3>1
  <2>3. r \in Rows(mainRows) /\ mainRows[r].id = con[i].of
    BY <1>7, <2>1, <2>2, ScriptTypes DEF AllFollow, Follows
  <2>4. r \in Kept(mainRows, rows)
    BY <2>1, <2>3 DEF Kept
  <2>5. Count(Kept(mainRows, rows), r) = d
    BY <2>4, ScriptTypes, PlaceKept
  <2>6. d \in Rows(m) /\ m[d] = mainRows[r]
    <3>1. /\ Count(Kept(mainRows, rows), r) \in Rows(m)
          /\ m[Count(Kept(mainRows, rows), r)] = mainRows[r]
      BY <2>4, ScriptTypes, WithoutLists
    <3> HIDE DEF m, d
    <3> QED BY <3>1, <2>5
  <2> HIDE DEF s, m, d, r
  <2> QED BY <2>1, <2>3, <2>6
<1>8. ASSUME ~stale PROVE AllFollow(t, m)
  <2> HIDE DEF s, m
  <2> QED BY <1>5, <1>7, <1>8, NormalizedFollow
<1> HIDE DEF m, s, t
<1> QED BY <1>1, <1>2, <1>6, <1>8, MainMoved

\* Two rows change places, and so do the references to them
\* (MoveTradeSequenceRow).
LEMMA MoveMainKeeps ==
  ASSUME ScriptInv, NEW i \in 1 .. Len(mainRows) - 1, MoveMainRow(i)
  PROVE  ScriptInv'
<1> DEFINE m == Swapped(mainRows, i)
           New(r) == CASE r = i -> i + 1 [] r = i + 1 -> i [] OTHER -> r
           t == [k \in Rows(con) |-> [con[k] EXCEPT !.ref = New(@)]]
<1>1. Edit /\ clipOld' = TRUE /\ UNCHANGED <<clip, lastId, stale>>
      /\ mainRows' = m /\ con' = t
  BY DEF MoveMainRow
<1>2. /\ m \in Seq(MainRows) /\ Len(m) = Len(mainRows)
      /\ m[i] = mainRows[i + 1] /\ m[i + 1] = mainRows[i]
      /\ \A k \in Rows(mainRows) \ {i, i + 1} : m[k] = mainRows[k]
  BY ScriptTypes, SwappedLists
<1> HIDE DEF m
<1>3. /\ i \in Nat /\ i # 0 /\ i + 1 \in Nat /\ i # i + 1 /\ i + 1 <= Len(mainRows)
      /\ i \in Rows(mainRows) /\ i + 1 \in Rows(mainRows) /\ Rows(m) = Rows(mainRows)
  BY <1>2, ScriptTypes DEF Rows
<1>4. \A r \in 0 .. MaxRows : New(r) \in 0 .. MaxRows
  BY <1>3, ScriptTypes
<1>5. ASSUME NEW k \in Rows(con)
      PROVE  /\ t[k] \in ConRows /\ t[k].kind = con[k].kind /\ t[k].of = con[k].of
             /\ t[k].ref = New(con[k].ref)
             /\ t[k].group = con[k].group /\ t[k].times = con[k].times
  <2> DEFINE n == New(con[k].ref)
  <2>1. con[k] \in ConRows
    BY ScriptTypes, ElementOf
  <2>2. n \in 0 .. MaxRows
    BY <2>1, <1>4 DEF ConRows
  <2>3. t[k] = [con[k] EXCEPT !.ref = n]
    OBVIOUS
  <2> HIDE DEF n, t
  <2>4. /\ t[k] \in ConRows /\ t[k].kind = con[k].kind /\ t[k].of = con[k].of
        /\ t[k].ref = n
        /\ t[k].group = con[k].group /\ t[k].times = con[k].times
    BY <2>1, <2>2, <2>3 DEF ConRows
  <2> QED BY <2>4 DEF n
<1>6. t \in Seq(ConRows) /\ Len(t) = Len(con) /\ Rows(t) = Rows(con)
  <2>1. t = [k \in Rows(con) |-> t[k]]
    OBVIOUS
  <2> HIDE DEF t
  <2>2. t \in [1 .. Len(con) -> ConRows] /\ Len(con) \in Nat
    BY <2>1, <1>5, ScriptTypes DEF Rows
  <2> QED BY <2>2, SameLength DEF Rows
<1> HIDE DEF t
<1>7. GroupsOf(t)
  BY <1>5, <1>6, ScriptTypes, GroupsKept
<1>8. ASSUME ~stale PROVE AllFollow(t, m)
  <2> SUFFICES ASSUME NEW k \in Rows(con), t[k].kind = "main", t[k].ref # 0
               PROVE  t[k].ref \in Rows(m) /\ m[t[k].ref].id = t[k].of
    BY <1>6 DEF AllFollow, Follows
  <2> DEFINE r == con[k].ref
  <2>1. con[k].kind = "main" /\ t[k].ref = New(r) /\ t[k].of = con[k].of
    BY <1>5
  <2>2. r # 0
    BY <1>3, <2>1
  <2>3. r \in Rows(mainRows) /\ mainRows[r].id = con[k].of
    BY <1>8, <2>1, <2>2, ScriptTypes DEF AllFollow, Follows
  <2> HIDE DEF r
  <2>4. New(r) \in Rows(m) /\ m[New(r)] = mainRows[r]
    BY <1>2, <1>3, <2>3
  <2> QED BY <2>1, <2>3, <2>4
<1>9. Len(t) <= MaxRows /\ Len(m) <= MaxRows
  BY <1>2, <1>6, ScriptTypes
<1> QED BY <1>1, <1>2, <1>6, <1>7, <1>8, <1>9, MainMoved

\* Rows are copied, in order (CopySelectedTradeRows).
LEMMA CopyKeeps ==
  ASSUME ScriptInv, NEW mode \in {"main", "con"}, NEW rows,
         CopySelectedTradeRows(mode, rows)
  PROVE  ScriptInv'
<1> DEFINE c == IF mode = "main" THEN mainRows ELSE con
           w == Without(c, Rows(c) \ rows)
<1>1. /\ Edit /\ clip' = [mode |-> mode, rows |-> w] /\ clipOld' = FALSE
      /\ UNCHANGED <<con, mainRows, lastId, stale>>
  BY DEF CopySelectedTradeRows
<1>2. CASE mode = "main"
  <2>1. w \in Seq(MainRows)
    BY <1>2, ScriptTypes, WithoutLists
  <2> HIDE DEF w
  <2>2. clip'.mode = "main" /\ clip'.rows = w
    BY <1>1, <1>2
  <2>3. ScriptTypeOK'
    <3>1. edits' \in 0 .. MaxEdits
      BY <1>1, ScriptAssumption DEF ScriptInv, ScriptTypeOK, Edit
    <3>2. clip'.rows \in IF clip'.mode = "main" THEN Seq(MainRows) ELSE Seq(ConRows)
      BY <2>1, <2>2
    <3>3. clip'.mode \in {"main", "con"} /\ clipOld' \in BOOLEAN
      BY <2>2, <1>1
    <3> QED BY Zenon, <1>1, <3>1, <3>2, <3>3 DEF ScriptInv, ScriptTypeOK
  <2>4. GroupsWellFormed' /\ RefsFollowMain' /\ ClipFollows'
    <3>1. clip'.mode # "con"
      BY <2>2
    <3> QED BY <1>1, <3>1 DEF ScriptInv, GroupsWellFormed, SameGroup, RefsFollowMain,
                              ClipFollows
  <2> QED BY <2>3, <2>4 DEF ScriptInv
<1>3. CASE mode = "con"
  <2>1. c = con /\ mode # "main"
    BY <1>3
  <2>2. w \in Seq(ConRows)
    BY <2>1, ScriptTypes, WithoutLists
  <2>3. ASSUME ~stale PROVE AllFollow(w, mainRows)
    <3> DEFINE out == Rows(con) \ rows
    <3>1. w = Without(con, out)
      BY <2>1
    <3> SUFFICES ASSUME NEW n \in Rows(w) PROVE Follows(w[n], mainRows)
      BY DEF AllFollow
    <3> HIDE DEF w, out
    <3>2. PICK i \in Kept(con, out) : Count(Kept(con, out), i) = n
      BY <3>1, ScriptTypes, WithoutLists
    <3>3. w[n] = con[i]
      BY <3>1, <3>2, ScriptTypes, WithoutLists
    <3>4. i \in Rows(con)
      BY DEF Kept
    <3> QED BY <2>3, <3>3, <3>4, ScriptTypes DEF AllFollow
  <2> HIDE DEF w, c
  <2>4. clip'.mode = "con" /\ clip'.rows = w
    BY <1>1, <1>3
  <2>5. ScriptTypeOK'
    <3>1. edits' \in 0 .. MaxEdits
      BY <1>1, ScriptAssumption DEF ScriptInv, ScriptTypeOK, Edit
    <3>2. clip'.rows \in IF clip'.mode = "main" THEN Seq(MainRows) ELSE Seq(ConRows)
      BY <2>2, <2>4
    <3>3. clip'.mode \in {"main", "con"} /\ clipOld' \in BOOLEAN
      BY <2>4, <1>1
    <3> QED BY Zenon, <1>1, <3>1, <3>2, <3>3 DEF ScriptInv, ScriptTypeOK
  <2>6. ClipFollows'
    BY <1>1, <2>3, <2>4 DEF ClipFollows, AllFollow
  <2>7. GroupsWellFormed' /\ RefsFollowMain'
    BY <1>1 DEF ScriptInv, GroupsWellFormed, SameGroup, RefsFollowMain
  <2> QED BY <2>5, <2>6, <2>7 DEF ScriptInv
<1> QED BY <1>2, <1>3

----------------------------------------------------------------------------
(* The whole specification *)

\* Every command keeps the lists well formed (EditScript).
LEMMA EditKeeps == ScriptInv /\ EditScript => ScriptInv'
<1> SUFFICES ASSUME ScriptInv, EditScript PROVE ScriptInv'
  OBVIOUS
<1>1. CASE EditMain
  <2>1. CASE AddTradeMainRow \/ PasteMainRows \/ RecordMain
    BY <2>1, AddMainKeeps, PasteMainKeeps
  <2>2. ASSUME NEW rows \in SUBSET Rows(mainRows),
               DeleteMainRows(rows) \/ CopySelectedTradeRows("main", rows)
        PROVE  ScriptInv'
    <3>1. rows \subseteq Rows(mainRows)
      OBVIOUS
    <3> QED BY <2>2, <3>1, DeleteMainKeeps, CopyKeeps
  <2>3. ASSUME NEW i \in 1 .. Len(mainRows) - 1, MoveMainRow(i) PROVE ScriptInv'
    BY <2>3, MoveMainKeeps
  <2>4. ASSUME NEW i \in Rows(mainRows),
               CaptureMainPoint(i) \/ \E n \in Repeats : SaveMainRow(i, n)
        PROVE  ScriptInv'
    BY <2>4, SaveMainKeeps
  <2> QED BY <1>1, <2>1, <2>2, <2>3, <2>4 DEF EditMain
<1>2. CASE EditCon
  <2>1. CASE AddTradeConRow \/ PasteConRows \/ RecordConClick \/ RecordConReference
    BY <2>1, AddConRowKeeps, PasteConKeeps, RecordReferenceKeeps
  <2>2. ASSUME NEW rows \in SUBSET Rows(con),
               DeleteConRows(rows) \/ CopySelectedTradeRows("con", rows)
        PROVE  ScriptInv'
    BY <2>2, DeleteConKeeps, CopyKeeps
  <2>3. ASSUME NEW i \in 1 .. Len(con) - 1, MoveConRow(i) PROVE ScriptInv'
    BY <2>3, MoveConKeeps
  <2>4. ASSUME NEW i \in Rows(con),
               \/ UngroupSelectedTradeRows(i) \/ CaptureConPoint(i)
               \/ \E kind \in {"click", "transfer"}, n \in Repeats : SaveConRow(i, kind, n)
               \/ \E r \in Rows(mainRows) : SaveConReference(i, r)
               \/ \E last \in i .. Len(con), n \in Repeats :
                    GroupSelectedTradeRows(i, last, n)
        PROVE  ScriptInv'
    BY <2>4, UngroupKeeps, SaveRowKeeps, GroupKeeps
  <2> QED BY <1>2, <2>1, <2>2, <2>3, <2>4 DEF EditCon
<1> QED BY <1>1, <1>2 DEF EditScript

\* What is not in the lists: the counters and the flags of the sequence.
RunNumbers ==
  /\ index \in Nat \ {0} /\ repeatDone \in Nat /\ groupDone \in Nat
  /\ pass \in Nat \ {0} /\ before \in 0 .. MaxFree
  /\ verifyAge \in 0 .. VerifyTicks /\ stableAge \in 0 .. StableTicks
  /\ lastFree \in 0 .. MaxFree /\ free \in 0 .. MaxFree
  /\ start \in 0 .. MaxFree /\ made \in Nat

RunFlags ==
  running \in BOOLEAN /\ verifying \in BOOLEAN /\ disturbed \in BOOLEAN /\ steady \in BOOLEAN

RunTypeOK == RunNumbers /\ RunFlags

\* The inductive invariant: the lists keep their form under every command, and
\* the counters keep their range.
SequenceInv == ScriptInv /\ RunTypeOK

\* The lists as they are loaded (LoadTradeSequence).
LEMMA SequenceInit == Init => SequenceInv
<1> SUFFICES ASSUME Init PROVE SequenceInv
  OBVIOUS
<1>1. PICK s \in Loaded :
        /\ con = s.con /\ mainRows = s.main /\ lastId = Len(s.main)
        /\ clip = [mode |-> s.copied, rows |-> IF s.copied = "con" THEN s.con ELSE s.main]
        /\ stale = ~\A i \in Rows(s.con) : Follows(s.con[i], s.main)
  BY Zenon DEF Init
<1>2. /\ s \in [con : Seq(ConRows), main : Seq(MainRows), copied : {"con", "main"}]
      /\ NormalizeTradeGroups(s.con) = s.con
      /\ Len(s.con) <= MaxRows /\ Len(s.main) <= MaxRows
  BY LoadedAssumption
<1>3. con \in Seq(ConRows) /\ mainRows \in Seq(MainRows) /\ s.copied \in {"con", "main"}
      /\ Len(con) <= MaxRows /\ Len(mainRows) <= MaxRows
      /\ NormalizeTradeGroups(con) = con
  BY <1>1, <1>2
<1>4. GroupsOf(con)
  BY <1>3, NormalizedGroups
<1>5. stale = ~AllFollow(con, mainRows)
  BY Zenon, <1>1 DEF AllFollow
<1>6. clip.mode = s.copied /\ clip.rows = IF s.copied = "con" THEN con ELSE mainRows
  BY <1>1
<1>7. lastId \in Nat /\ edits = 0 /\ clipOld = FALSE /\ stale \in BOOLEAN
  BY <1>1, <1>3, <1>5, ElementOf DEF Init
<1>8. /\ clip.mode \in {"main", "con"}
      /\ clip.rows \in IF clip.mode = "main" THEN Seq(MainRows) ELSE Seq(ConRows)
  BY <1>3, <1>6
<1>9. ScriptTypeOK
  <2>1. edits \in 0 .. MaxEdits
    BY <1>7, ScriptAssumption
  <2>2. clipOld \in BOOLEAN
    BY <1>7
  <2> QED BY Zenon, <1>3, <1>7, <1>8, <2>1, <2>2 DEF ScriptTypeOK
<1>10. GroupsWellFormed /\ RefsFollowMain
  BY <1>4, <1>5, ScriptInvOf
<1>11. ClipFollows
  BY <1>5, <1>6 DEF ClipFollows
<1>12. RunTypeOK
  <2>1. RunNumbers
    BY SequenceAssumption DEF Init, RunNumbers
  <2>2. RunFlags
    BY Zenon DEF Init, RunFlags
  <2> QED BY <2>1, <2>2 DEF RunTypeOK
<1> QED BY <1>9, <1>10, <1>11, <1>12 DEF SequenceInv, ScriptInv

\* The lists do not change: what holds of them still holds.
LEMMA ScriptSame == ScriptInv /\ UNCHANGED script => ScriptInv'
BY DEF script, ScriptInv, ScriptTypeOK, GroupsWellFormed, SameGroup, RefsFollowMain,
       ClipFollows, AllFollow, Follows

\* A click goes on to a row of the list or behind its end (AfterRow).
LEMMA ClickKeeps == SequenceInv /\ Click => RunNumbers'
<1> SUFFICES ASSUME SequenceInv, Click PROVE RunNumbers'
  OBVIOUS
<1>1. /\ index \in Nat \ {0} /\ repeatDone \in Nat /\ groupDone \in Nat /\ made \in Nat
      /\ verifyAge \in 0 .. VerifyTicks /\ stableAge \in 0 .. StableTicks
  BY DEF SequenceInv, RunTypeOK, RunNumbers
<1>2. index \in Rows(con) /\ Len(con) \in Nat
  <2>1. Len(con) \in Nat
    BY ScriptTypes DEF SequenceInv
  <2> QED BY <1>1, <2>1 DEF Click, HasRow, Rows
<1>3. TradeGroupStart(con, index) \in 1 .. index
      /\ TradeGroupEnd(con, index) \in index .. Len(con)
  BY <1>2, GroupBounds
<1>4. AfterRow => index' \in Nat \ {0} /\ groupDone' \in Nat
  <2> DEFINE first == TradeGroupStart(con, index)
             last == TradeGroupEnd(con, index)
  <2>1. first \in Nat \ {0} /\ last \in Nat /\ index <= last
    BY <1>1, <1>2, <1>3
  <2>2. ASSUME AfterRow
        PROVE  \/ index' = index + 1 /\ (groupDone' = 0 \/ groupDone' = groupDone)
               \/ index' = first /\ groupDone' = groupDone + 1
               \/ index' = last + 1 /\ groupDone' = 0
    <3> HIDE DEF first, last
    <3>1. CASE Row.group = 0
      BY <2>2, <3>1 DEF AfterRow
    <3>2. CASE Row.group # 0 /\ index < last
      BY <2>2, <3>2 DEF AfterRow, first, last
    <3>3. CASE Row.group # 0 /\ index = last
      BY <2>2, <3>3 DEF AfterRow, first, last
    <3> QED BY <1>1, <2>1, <3>1, <3>2, <3>3
  <2> HIDE DEF first, last
  <2> QED BY <1>1, <2>1, <2>2
<1>5. index' \in Nat \ {0} /\ groupDone' \in Nat /\ repeatDone' \in Nat
  BY <1>1, <1>4 DEF Click
<1>6. made' \in Nat
  BY <1>1 DEF Click
<1>7. verifyAge' \in 0 .. VerifyTicks /\ stableAge' \in 0 .. StableTicks
  BY <1>1, SequenceAssumption DEF Click, Older, Min2
<1>8. UNCHANGED <<pass, before, lastFree, start, free>>
  BY DEF Click
<1> QED BY <1>5, <1>6, <1>7, <1>8 DEF SequenceInv, RunTypeOK, RunNumbers

\* Every step keeps the counters in range.
LEMMA NumbersStep == SequenceInv /\ [Next]_vars => RunNumbers'
<1> SUFFICES ASSUME SequenceInv, [Next]_vars PROVE RunNumbers'
  OBVIOUS
<1> USE SequenceAssumption
<1>1. RunNumbers
  BY DEF SequenceInv, RunTypeOK
<1>2. ASSUME Rest PROVE RunNumbers'
  BY <1>2 DEF Rest, FirstRow, NoVerify, RunNumbers
<1>3. CASE \/ PairLost \/ ClickFails \/ MainFull \/ ClickImpossible \/ FinishChild
  BY <1>2, <1>3 DEF PairLost, ClickFails, MainFull, ClickImpossible, FinishChild
<1>4. CASE StartSequence
  BY <1>1, <1>4 DEF StartSequence, FirstRow, NoVerify, RunNumbers
<1>5. CASE Click
  BY <1>5, ClickKeeps
<1>6. CASE BeginVerify
  BY <1>1, <1>6 DEF BeginVerify, place, RunNumbers
<1>7. CASE BagChanged \/ PausedTick
  BY <1>1, <1>7 DEF BagChanged, PausedTick, place, Older, Min2, RunNumbers
<1>8. CASE KeepWatching
  BY <1>1, <1>8 DEF KeepWatching, Measured, place, RunNumbers
<1>9. CASE RepeatSameChild
  BY <1>1, <1>9 DEF RepeatSameChild, FirstRow, NoVerify, RunNumbers
<1>10. CASE BagChanges \/ EditorCommand
  BY <1>1, <1>10 DEF BagChanges, EditorCommand, Disturb, place, verify, RunNumbers
<1>11. CASE Settle \/ UNCHANGED vars
  BY <1>1, <1>11 DEF Settle, vars, run, place, verify, RunNumbers
<1> QED BY <1>3, <1>4, <1>5, <1>6, <1>7, <1>8, <1>9, <1>10, <1>11 DEF Next, SequenceTick

\* Every step leaves a flag as it is or sets it anew.
LEMMA FlagsStep == SequenceInv /\ [Next]_vars => RunFlags'
<1> SUFFICES ASSUME SequenceInv, [Next]_vars PROVE RunFlags'
  OBVIOUS
<1>1. running \in BOOLEAN /\ verifying \in BOOLEAN /\ disturbed \in BOOLEAN
      /\ steady \in BOOLEAN
  BY Zenon DEF SequenceInv, RunTypeOK, RunFlags
<1>2. running' \in BOOLEAN /\ steady' \in BOOLEAN
  BY Zenon, <1>1 DEF Next, SequenceTick, StartSequence, PairLost, ClickFails, MainFull,
     ClickImpossible, Click, BeginVerify, BagChanged, KeepWatching, RepeatSameChild,
     FinishChild, PausedTick, BagChanges, EditorCommand, Settle, Rest, vars, run
<1>3. verifying' \in BOOLEAN
  BY Zenon, <1>1 DEF Next, SequenceTick, StartSequence, PairLost, ClickFails, MainFull,
     ClickImpossible, Click, BeginVerify, BagChanged, KeepWatching, RepeatSameChild,
     FinishChild, PausedTick, BagChanges, EditorCommand, Settle, Rest, NoVerify, vars, run,
     verify
<1>4. disturbed' \in BOOLEAN
  BY Zenon, <1>1 DEF Next, SequenceTick, StartSequence, PairLost, ClickFails, MainFull,
     ClickImpossible, Click, BeginVerify, BagChanged, KeepWatching, RepeatSameChild,
     FinishChild, PausedTick, BagChanges, EditorCommand, Settle, Rest, Disturb, vars, run
<1> QED BY Zenon, <1>2, <1>3, <1>4 DEF RunFlags

\* Every step keeps the lists: a command of the editor by EditKeeps, and the
\* sequence itself never writes them.
LEMMA ScriptStep == ScriptInv /\ [Next]_vars => ScriptInv'
<1> SUFFICES ASSUME ScriptInv, [Next]_vars PROVE ScriptInv'
  OBVIOUS
<1>1. CASE EditorCommand
  BY <1>1, EditKeeps DEF EditorCommand
<1>2. CASE ~EditorCommand
  <2>1. UNCHANGED script
    BY <1>2 DEF Next, SequenceTick, StartSequence, PairLost, ClickFails, MainFull,
                ClickImpossible, Click, BeginVerify, BagChanged, KeepWatching,
                RepeatSameChild, FinishChild, PausedTick, BagChanges, Settle, Rest, vars
  <2> QED BY <2>1, ScriptSame
<1> QED BY <1>1, <1>2

\* The lists and the counters are well formed in every reachable state.
THEOREM SequenceIsGood == Spec => []SequenceInv
<1>1. SequenceInv /\ [Next]_vars => SequenceInv'
  BY NumbersStep, FlagsStep, ScriptStep DEF SequenceInv, RunTypeOK
<1> QED BY SequenceInit, <1>1, PTL DEF Spec

\* Every variable has its type: the lists keep to MaxRows, and the index of the
\* running sequence never falls off the front of the list.
THEOREM SequenceTypes == Spec => []TypeOK
<1>1. SequenceInv => TypeOK
  BY Zenon DEF SequenceInv, ScriptInv, RunTypeOK, RunNumbers, RunFlags, TypeOK
<1> QED BY <1>1, SequenceIsGood, PTL

\* Groups stay contiguous, and agree on their count, under any edits of lists
\* of any length (NormalizeTradeGroups).
THEOREM GroupsStayWellFormed == Spec => []GroupsWellFormed
<1>1. SequenceInv => GroupsWellFormed
  BY DEF SequenceInv, ScriptInv
<1> QED BY <1>1, SequenceIsGood, PTL

\* References stay with their MAIN row under any edits, up to the first paste
\* of a copy that is older than the last move (DeleteTradeSequenceRow,
\* MoveTradeSequenceRow).
THEOREM ReferencesFollow == Spec => []RefsFollowMain
<1>1. SequenceInv => RefsFollowMain
  BY DEF SequenceInv, ScriptInv
<1> QED BY <1>1, SequenceIsGood, PTL

=============================================================================
