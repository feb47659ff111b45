-------------------------- MODULE TradeQueueProofs --------------------------
(***************************************************************************)
(* The queue of the coordinator: its order, its holds and its tickets, for *)
(* any number of accounts, roles, places and tickets.                      *)
(***************************************************************************)
EXTENDS TradeCoordinatorProofs, FiniteSetTheorems, FunctionTheorems

----------------------------------------------------------------------------
(* Ranks *)

\* The numbers at[x] are naturals, and no two elements of S have the same one.
Places(S, at) ==
  /\ IsFiniteSet(S)
  /\ \A x \in S : at[x] \in Nat
  /\ \A x, y \in S : at[x] = at[y] => x = y

\* A rank is a number from 1 to the size of the set.
LEMMA RankBounds ==
  ASSUME NEW S, IsFiniteSet(S), NEW at, \A x \in S : at[x] \in Nat, NEW x \in S
  PROVE  Cardinality(S) \in Nat /\ Rank(S, at, x) \in 1 .. Cardinality(S)
<1> DEFINE B == {y \in S : at[y] <= at[x]}
<1>1. Cardinality(S) \in Nat
  BY FS_CardinalityType
<1>2. B \in SUBSET S /\ x \in B
  OBVIOUS
<1>3. IsFiniteSet(B) /\ Cardinality(B) <= Cardinality(S)
  BY <1>2, FS_Subset
<1>4. Cardinality(B) \in Nat /\ Cardinality(B) # 0
  BY <1>2, <1>3, FS_CardinalityType, FS_EmptySet
<1> QED BY <1>1, <1>3, <1>4 DEF Rank

\* Who has the larger number has the larger rank.
LEMMA RankGrows ==
  ASSUME NEW S, IsFiniteSet(S), NEW at, \A x \in S : at[x] \in Nat,
         NEW x \in S, NEW y \in S, at[x] < at[y]
  PROVE  Rank(S, at, x) < Rank(S, at, y)
<1> DEFINE A == {z \in S : at[z] <= at[x]}
           B == {z \in S : at[z] <= at[y]}
<1>1. A \in SUBSET B /\ y \in B /\ y \notin A
  OBVIOUS
<1>2. IsFiniteSet(B)
  BY FS_Subset
<1>3. Cardinality(A) <= Cardinality(B) /\ Cardinality(A) # Cardinality(B)
  BY <1>1, <1>2, FS_Subset
<1>4. Rank(S, at, x) = Cardinality(A) /\ Rank(S, at, y) = Cardinality(B)
  BY DEF Rank
<1>5. Cardinality(A) \in Nat /\ Cardinality(B) \in Nat
  BY <1>4, RankBounds
<1> QED BY <1>3, <1>4, <1>5

\* Every rank from 1 to the size of the set is taken, by one element.
LEMMA RankTaken ==
  ASSUME NEW S, NEW at, Places(S, at), NEW k \in 1 .. Cardinality(S)
  PROVE  \E x \in S : Rank(S, at, x) = k
<1> DEFINE n == Cardinality(S)
           f == [x \in S |-> Rank(S, at, x)]
<1>1. n \in Nat /\ f \in [S -> 1 .. n]
  BY RankBounds, FS_CardinalityType DEF Places
<1>2. ASSUME NEW x \in S, NEW y \in S, f[x] = f[y]
      PROVE  x = y
  <2>1. ~(at[x] < at[y]) /\ ~(at[y] < at[x])
    BY <1>1, <1>2, RankGrows DEF Places
  <2> QED BY <2>1 DEF Places
<1>3. f \in Injection(S, 1 .. n)
  BY <1>1, <1>2 DEF Injection, IsInjective
<1>4. IsFiniteSet(1 .. n) /\ Cardinality(1 .. n) = n
  BY <1>1, FS_Interval
<1>5. f \in Surjection(S, 1 .. n)
  <2> HIDE DEF f
  <2> QED BY <1>3, <1>4, FS_Injection
<1> QED BY <1>5 DEF Surjection

\* InOrder lists the whole set, once, and in the order of the numbers.
LEMMA InOrderLists ==
  ASSUME NEW S, NEW at, Places(S, at)
  PROVE  /\ Cardinality(S) \in Nat
         /\ InOrder(S, at) \in [1 .. Cardinality(S) -> S]
         /\ \A i, j \in 1 .. Cardinality(S) :
              i < j => at[InOrder(S, at)[i]] < at[InOrder(S, at)[j]]
         /\ \A x \in S : \E k \in 1 .. Cardinality(S) : InOrder(S, at)[k] = x
         /\ \A k \in 1 .. Cardinality(S) : Rank(S, at, InOrder(S, at)[k]) = k
<1> DEFINE n == Cardinality(S)
           o == InOrder(S, at)
<1>1. n \in Nat
  BY FS_CardinalityType DEF Places
<1>2. \A k \in 1 .. n : o[k] \in S /\ Rank(S, at, o[k]) = k
  BY RankTaken DEF InOrder
<1>3. o \in [1 .. n -> S]
  BY <1>2 DEF InOrder
<1>4. ASSUME NEW x \in S, NEW y \in S, Rank(S, at, x) < Rank(S, at, y)
      PROVE  at[x] < at[y]
  <2>1. ~(at[y] < at[x]) /\ at[x] # at[y]
    BY <1>4, RankGrows, RankBounds DEF Places
  <2> QED BY <2>1 DEF Places
<1>5. ASSUME NEW x \in S
      PROVE  o[Rank(S, at, x)] = x /\ Rank(S, at, x) \in 1 .. n
  <2> DEFINE y == o[Rank(S, at, x)]
  <2>1. Rank(S, at, x) \in 1 .. n
    BY RankBounds DEF Places
  <2>2. y \in S /\ Rank(S, at, y) = Rank(S, at, x)
    BY <1>2, <2>1
  <2>3. ~(at[y] < at[x]) /\ ~(at[x] < at[y])
    BY <2>2, <2>1, RankGrows DEF Places
  <2> QED BY <2>1, <2>2, <2>3 DEF Places
<1>6. \A i, j \in 1 .. n : i < j => at[o[i]] < at[o[j]]
  BY <1>2, <1>4
<1> QED BY <1>1, <1>2, <1>3, <1>5, <1>6

----------------------------------------------------------------------------
(* Queues *)

\* The accounts in a queue.
Elems(q) == {q[i] : i \in DOMAIN q}

\* r is q with some places erased.
Shorter(r, q) ==
  /\ r \in Seq(Accounts) /\ Len(r) <= Len(q)
  /\ \A i \in 1 .. Len(r) : r[i] \in Elems(q)
  /\ \A i, j \in 1 .. Len(r) : i < j =>
       \E a, b \in 1 .. Len(q) : a < b /\ r[i] = q[a] /\ r[j] = q[b]

\* The two parts of QueueOrder that are about the order.
InLine(q, t) ==
  \A i, j \in 1 .. Len(q) : i < j =>
    /\ q[i] # q[j]
    /\ t[q[i]] # 0 /\ t[q[j]] # 0 => t[q[i]] < t[q[j]]

\* Erasing accounts from a queue leaves all the others, in their order.
LEMMA WithoutErases ==
  ASSUME NEW q \in Seq(Accounts), NEW out
  PROVE  Shorter(Without(q, out), q) /\ Elems(Without(q, out)) = Elems(q) \ out
<1> DEFINE S == {i \in DOMAIN q : q[i] \notin out}
           at == [i \in S |-> i]
           n == Cardinality(S)
           o == InOrder(S, at)
           r == Without(q, out)
<1>1. Len(q) \in Nat /\ DOMAIN q = 1 .. Len(q) /\ q \in [1 .. Len(q) -> Accounts]
  OBVIOUS
<1>2. IsFiniteSet(1 .. Len(q)) /\ Cardinality(1 .. Len(q)) = Len(q)
  BY <1>1, FS_Interval
<1>3. IsFiniteSet(S) /\ n <= Len(q)
  BY <1>1, <1>2, FS_Subset
<1>4. Places(S, at)
  BY <1>1, <1>3 DEF Places
<1>5. /\ n \in Nat /\ o \in [1 .. n -> S]
      /\ \A i, j \in 1 .. n : i < j => at[o[i]] < at[o[j]]
      /\ \A x \in S : \E k \in 1 .. n : o[k] = x
  <2> HIDE DEF S, at
  <2> QED BY <1>4, InOrderLists
<1>6. r = [k \in 1 .. n |-> q[o[k]]]
  BY DEF Without
<1> HIDE DEF o, n, r
<1>7. \A i, j \in 1 .. n : i < j => o[i] < o[j]
  BY <1>5
<1>8. r \in Seq(Accounts) /\ Len(r) = n /\ DOMAIN r = 1 .. n
  BY <1>1, <1>5, <1>6
<1>9. \A k \in 1 .. n : r[k] = q[o[k]] /\ o[k] \in 1 .. Len(q) /\ r[k] \notin out
  BY <1>1, <1>5, <1>6
<1>10. Shorter(r, q)
  <2>1. \A i \in 1 .. Len(r) : r[i] \in Elems(q)
    BY <1>1, <1>8, <1>9 DEF Elems
  <2>2. ASSUME NEW i \in 1 .. Len(r), NEW j \in 1 .. Len(r), i < j
        PROVE  \E a, b \in 1 .. Len(q) : a < b /\ r[i] = q[a] /\ r[j] = q[b]
    BY <2>2, <1>7, <1>8, <1>9
  <2> QED BY <1>3, <1>8, <2>1, <2>2 DEF Shorter
<1>11. Elems(r) \subseteq Elems(q) \ out
  BY <1>1, <1>8, <1>9 DEF Elems
<1>12. ASSUME NEW a \in Elems(q) \ out
       PROVE  a \in Elems(r)
  <2>1. PICK i \in S : q[i] = a
    BY <1>1 DEF Elems
  <2>2. PICK k \in 1 .. n : o[k] = i
    BY <1>5
  <2> QED BY <1>8, <1>9, <2>1, <2>2 DEF Elems
<1> QED BY <1>10, <1>11, <1>12 DEF r

\* A part of a line is a line, if tickets are only lost.
LEMMA LineShortens ==
  ASSUME NEW q, NEW r, NEW t, NEW u, InLine(q, t), Shorter(r, q),
         \A a \in Elems(q) : u[a] = t[a] \/ u[a] = 0
  PROVE  InLine(r, u)
<1> SUFFICES ASSUME NEW i \in 1 .. Len(r), NEW j \in 1 .. Len(r), i < j
             PROVE  /\ r[i] # r[j]
                    /\ u[r[i]] # 0 /\ u[r[j]] # 0 => u[r[i]] < u[r[j]]
  BY DEF InLine
<1>1. PICK a, b \in 1 .. Len(q) : a < b /\ r[i] = q[a] /\ r[j] = q[b]
  BY DEF Shorter
<1>2. r[i] \in Elems(q) /\ r[j] \in Elems(q)
  BY DEF Shorter
<1> QED BY <1>1, <1>2 DEF InLine

\* The same queue, if tickets are only lost.
LEMMA LineForgets ==
  ASSUME NEW q \in Seq(Accounts), NEW t, NEW u, InLine(q, t),
         \A a \in Elems(q) : u[a] = t[a] \/ u[a] = 0
  PROVE  InLine(q, u)
BY DEF InLine, Elems

\* One list put behind another.
LEMMA JoinedLists ==
  ASSUME NEW S, NEW q \in Seq(S), NEW o \in Seq(S)
  PROVE  /\ q \o o \in Seq(S) /\ Len(q \o o) = Len(q) + Len(o)
         /\ \A i \in 1 .. Len(q) : (q \o o)[i] = q[i]
         /\ \A i \in Len(q) + 1 .. Len(q) + Len(o) : (q \o o)[i] = o[i - Len(q)]
OBVIOUS

\* Others may join at the end, in the order of their tickets, which are new.
LEMMA LineGrows ==
  ASSUME NEW q \in Seq(Accounts), NEW n \in Nat, NEW o \in [1 .. n -> Accounts],
         NEW c \in Nat, NEW t, NEW u,
         InLine(q, t), \A a \in Accounts : t[a] \in 0 .. c,
         \A a \in Elems(q) : u[a] = t[a],
         \A i \in 1 .. n : o[i] \notin Elems(q) /\ u[o[i]] \in Nat /\ u[o[i]] > c,
         \A i, j \in 1 .. n : i < j => u[o[i]] < u[o[j]]
  PROVE  /\ q \o o \in Seq(Accounts) /\ Len(q \o o) = Len(q) + n
         /\ Elems(q \o o) = Elems(q) \cup {o[i] : i \in 1 .. n}
         /\ InLine(q \o o, u)
<1> DEFINE r == q \o o
<1>1. o \in Seq(Accounts) /\ Len(o) = n
  OBVIOUS
<1>2. /\ Len(q) \in Nat /\ r \in Seq(Accounts) /\ Len(r) = Len(q) + n
      /\ DOMAIN r = 1 .. Len(q) + n /\ DOMAIN q = 1 .. Len(q)
  <2>1. r \in Seq(Accounts) /\ Len(r) = Len(q) + n
    BY <1>1, JoinedLists
  <2> HIDE DEF r
  <2> QED BY <2>1
<1>3. /\ \A i \in 1 .. Len(q) : r[i] = q[i]
      /\ \A i \in Len(q) + 1 .. Len(q) + n : r[i] = o[i - Len(q)]
  BY <1>1, JoinedLists
<1>4. \A i \in 1 .. n : r[Len(q) + i] = o[i]
  BY <1>2, <1>3
<1> HIDE DEF r
<1>5. Elems(r) = Elems(q) \cup {o[i] : i \in 1 .. n}
  <2>1. Elems(r) \subseteq Elems(q) \cup {o[i] : i \in 1 .. n}
    <3> SUFFICES ASSUME NEW i \in 1 .. Len(q) + n
                 PROVE  r[i] \in Elems(q) \cup {o[k] : k \in 1 .. n}
      BY <1>2 DEF Elems
    <3>1. CASE i \in 1 .. Len(q)
      BY <1>2, <1>3, <3>1 DEF Elems
    <3>2. CASE i \in Len(q) + 1 .. Len(q) + n
      <4>1. i - Len(q) \in 1 .. n
        BY <1>2, <3>2
      <4> QED BY <1>3, <3>2, <4>1
    <3> QED BY <1>2, <3>1, <3>2
  <2>2. Elems(q) \subseteq Elems(r)
    BY <1>2, <1>3 DEF Elems
  <2>3. ASSUME NEW i \in 1 .. n
        PROVE  o[i] \in Elems(r)
    <3>1. Len(q) + i \in DOMAIN r /\ r[Len(q) + i] = o[i]
      BY <1>2, <1>4
    <3> QED BY <3>1 DEF Elems
  <2> QED BY <2>1, <2>2, <2>3
<1>6. InLine(r, u)
  <2> SUFFICES ASSUME NEW i \in 1 .. Len(q) + n, NEW j \in 1 .. Len(q) + n, i < j
               PROVE  /\ r[i] # r[j]
                      /\ u[r[i]] # 0 /\ u[r[j]] # 0 => u[r[i]] < u[r[j]]
    BY <1>2 DEF InLine
  <2>1. CASE j \in 1 .. Len(q)
    <3>1. i \in 1 .. Len(q)
      BY <1>2, <2>1
    <3>2. r[i] = q[i] /\ r[j] = q[j] /\ q[i] \in Elems(q) /\ q[j] \in Elems(q)
      BY <1>2, <1>3, <2>1, <3>1 DEF Elems
    <3> QED BY <2>1, <3>1, <3>2 DEF InLine
  <2>2. CASE i \in 1 .. Len(q) /\ j \in Len(q) + 1 .. Len(q) + n
    <3>1. j - Len(q) \in 1 .. n
      BY <1>2, <2>2
    <3>2. r[i] = q[i] /\ r[j] = o[j - Len(q)]
      BY <1>3, <2>2
    <3>3. q[i] \in Elems(q) /\ q[i] \in Accounts
      BY <1>2, <2>2 DEF Elems
    <3>4. u[r[i]] \in 0 .. c
      BY <3>2, <3>3
    <3>5. r[j] \notin Elems(q) /\ u[r[j]] \in Nat /\ u[r[j]] > c
      BY <3>1, <3>2
    <3> HIDE DEF r
    <3>6. r[i] # r[j]
      BY <3>2, <3>3, <3>5
    <3> QED BY <3>4, <3>5, <3>6
  <2>3. CASE i \in Len(q) + 1 .. Len(q) + n
    <3>1. /\ i - Len(q) \in 1 .. n /\ j - Len(q) \in 1 .. n
          /\ i - Len(q) < j - Len(q) /\ j \in Len(q) + 1 .. Len(q) + n
      BY <1>2, <2>3
    <3>2. r[i] = o[i - Len(q)] /\ r[j] = o[j - Len(q)]
      BY <1>3, <2>3, <3>1
    <3> QED BY <3>1, <3>2
  <2> QED BY <1>2, <2>1, <2>2, <2>3
<1> QED BY <1>2, <1>5, <1>6 DEF r

----------------------------------------------------------------------------
(* What each part of the code writes *)

\* A flow is the record of its fields.
LEMMA FlowRead ==
  ASSUME NEW h, NEW t, NEW g, NEW q, NEW p, NEW m, NEW c, NEW n
  PROVE  /\ IsFlow(FlowOf(h, t, g, q, p, m, c, n))
         /\ FlowOf(h, t, g, q, p, m, c, n).held = h
         /\ FlowOf(h, t, g, q, p, m, c, n).ticket = t
         /\ FlowOf(h, t, g, q, p, m, c, n).travel = g
         /\ FlowOf(h, t, g, q, p, m, c, n).queue = q
         /\ FlowOf(h, t, g, q, p, m, c, n).phase = p
         /\ FlowOf(h, t, g, q, p, m, c, n).main = m
         /\ FlowOf(h, t, g, q, p, m, c, n).child = c
         /\ FlowOf(h, t, g, q, p, m, c, n).counter = n
BY DEF FlowOf, IsFlow

\* A write to a field of a flow.
LEMMA FlowWritten ==
  ASSUME NEW w, IsFlow(w), NEW x
  PROVE  /\ [w EXCEPT !.held = x] =
              FlowOf(x, w.ticket, w.travel, w.queue, w.phase, w.main, w.child, w.counter)
         /\ [w EXCEPT !.ticket = x] =
              FlowOf(w.held, x, w.travel, w.queue, w.phase, w.main, w.child, w.counter)
         /\ [w EXCEPT !.travel = x] =
              FlowOf(w.held, w.ticket, x, w.queue, w.phase, w.main, w.child, w.counter)
         /\ [w EXCEPT !.queue = x] =
              FlowOf(w.held, w.ticket, w.travel, x, w.phase, w.main, w.child, w.counter)
         /\ [w EXCEPT !.phase = x] =
              FlowOf(w.held, w.ticket, w.travel, w.queue, x, w.main, w.child, w.counter)
         /\ [w EXCEPT !.main = x] =
              FlowOf(w.held, w.ticket, w.travel, w.queue, w.phase, x, w.child, w.counter)
         /\ [w EXCEPT !.child = x] =
              FlowOf(w.held, w.ticket, w.travel, w.queue, w.phase, w.main, x, w.counter)
         /\ [w EXCEPT !.counter = x] =
              FlowOf(w.held, w.ticket, w.travel, w.queue, w.phase, w.main, w.child, x)
<1>1. PICK h, t, g, q, p, m, c, n : w = FlowOf(h, t, g, q, p, m, c, n)
  BY FlowParts
<1> QED BY <1>1 DEF FlowOf

\* The writes of ReleaseTradeHold.
LEMMA ReleaseWrites ==
  ASSUME NEW w, IsFlow(w), NEW h, NEW t, NEW g
  PROVE  [w EXCEPT !.held = h, !.ticket = t, !.travel = g] =
           FlowOf(h, t, g, w.queue, w.phase, w.main, w.child, w.counter)
<1>1. [w EXCEPT !.held = h] =
        FlowOf(h, w.ticket, w.travel, w.queue, w.phase, w.main, w.child, w.counter)
  BY FlowWritten
<1>2. [FlowOf(h, w.ticket, w.travel, w.queue, w.phase, w.main, w.child, w.counter) EXCEPT !.ticket = t] =
        FlowOf(h, t, w.travel, w.queue, w.phase, w.main, w.child, w.counter)
  BY DEF FlowOf
<1>3. [FlowOf(h, t, w.travel, w.queue, w.phase, w.main, w.child, w.counter) EXCEPT !.travel = g] =
        FlowOf(h, t, g, w.queue, w.phase, w.main, w.child, w.counter)
  BY DEF FlowOf
<1> QED BY <1>1, <1>2, <1>3, Zenon

\* The writes of ReleaseTradeHolds.
LEMMA ReleaseAllWrites ==
  ASSUME NEW w, IsFlow(w), NEW h, NEW t, NEW g, NEW q
  PROVE  [w EXCEPT !.held = h, !.ticket = t, !.travel = g, !.queue = q] =
           FlowOf(h, t, g, q, w.phase, w.main, w.child, w.counter)
<1>1. [w EXCEPT !.held = h] =
        FlowOf(h, w.ticket, w.travel, w.queue, w.phase, w.main, w.child, w.counter)
  BY FlowWritten
<1>2. [FlowOf(h, w.ticket, w.travel, w.queue, w.phase, w.main, w.child, w.counter) EXCEPT !.ticket = t] =
        FlowOf(h, t, w.travel, w.queue, w.phase, w.main, w.child, w.counter)
  BY DEF FlowOf
<1>3. [FlowOf(h, t, w.travel, w.queue, w.phase, w.main, w.child, w.counter) EXCEPT !.travel = g] =
        FlowOf(h, t, g, w.queue, w.phase, w.main, w.child, w.counter)
  BY DEF FlowOf
<1>4. [FlowOf(h, t, g, w.queue, w.phase, w.main, w.child, w.counter) EXCEPT !.queue = q] =
        FlowOf(h, t, g, q, w.phase, w.main, w.child, w.counter)
  BY DEF FlowOf
<1> QED BY <1>1, <1>2, <1>3, <1>4, Zenon

\* The writes of the purge, and of the admission.
Erased(w, q, h, t, g) == [w EXCEPT !.queue = q, !.held = h, !.ticket = t, !.travel = g]
Joined(w, q, n, t, h, g) ==
  [w EXCEPT !.queue = q, !.counter = n, !.ticket = t, !.held = h, !.travel = g]

\* The purge.
LEMMA EraseWrites ==
  ASSUME NEW w, IsFlow(w), NEW q, NEW h, NEW t, NEW g
  PROVE  Erased(w, q, h, t, g) = FlowOf(h, t, g, q, w.phase, w.main, w.child, w.counter)
<1>1. [w EXCEPT !.queue = q] =
        FlowOf(w.held, w.ticket, w.travel, q, w.phase, w.main, w.child, w.counter)
  BY FlowWritten
<1>2. [FlowOf(w.held, w.ticket, w.travel, q, w.phase, w.main, w.child, w.counter) EXCEPT !.held = h] =
        FlowOf(h, w.ticket, w.travel, q, w.phase, w.main, w.child, w.counter)
  BY DEF FlowOf
<1>3. [FlowOf(h, w.ticket, w.travel, q, w.phase, w.main, w.child, w.counter) EXCEPT !.ticket = t] =
        FlowOf(h, t, w.travel, q, w.phase, w.main, w.child, w.counter)
  BY DEF FlowOf
<1>4. [FlowOf(h, t, w.travel, q, w.phase, w.main, w.child, w.counter) EXCEPT !.travel = g] =
        FlowOf(h, t, g, q, w.phase, w.main, w.child, w.counter)
  BY DEF FlowOf
<1> QED BY <1>1, <1>2, <1>3, <1>4, Zenon DEF Erased

\* The admission.
LEMMA AdmitWrites ==
  ASSUME NEW w, IsFlow(w), NEW q, NEW n, NEW t, NEW h, NEW g
  PROVE  Joined(w, q, n, t, h, g) = FlowOf(h, t, g, q, w.phase, w.main, w.child, n)
<1>1. [w EXCEPT !.queue = q] =
        FlowOf(w.held, w.ticket, w.travel, q, w.phase, w.main, w.child, w.counter)
  BY FlowWritten
<1>2. [FlowOf(w.held, w.ticket, w.travel, q, w.phase, w.main, w.child, w.counter) EXCEPT !.counter = n] =
        FlowOf(w.held, w.ticket, w.travel, q, w.phase, w.main, w.child, n)
  BY DEF FlowOf
<1>3. [FlowOf(w.held, w.ticket, w.travel, q, w.phase, w.main, w.child, n) EXCEPT !.ticket = t] =
        FlowOf(w.held, t, w.travel, q, w.phase, w.main, w.child, n)
  BY DEF FlowOf
<1>4. [w EXCEPT !.queue = q, !.counter = n, !.ticket = t] =
        FlowOf(w.held, t, w.travel, q, w.phase, w.main, w.child, n)
  BY <1>1, <1>2, <1>3, Zenon
<1>5. [FlowOf(w.held, t, w.travel, q, w.phase, w.main, w.child, n) EXCEPT !.held = h] =
        FlowOf(h, t, w.travel, q, w.phase, w.main, w.child, n)
  BY DEF FlowOf
<1>6. [FlowOf(h, t, w.travel, q, w.phase, w.main, w.child, n) EXCEPT !.travel = g] =
        FlowOf(h, t, g, q, w.phase, w.main, w.child, n)
  BY DEF FlowOf
<1> QED BY <1>4, <1>5, <1>6, Zenon DEF Joined

\* The writes of HandleDeath.
LEMMA DeathWrites ==
  ASSUME NEW w, IsFlow(w), NEW g, NEW t
  PROVE  [w EXCEPT !.travel = g, !.ticket = t] =
           FlowOf(w.held, t, g, w.queue, w.phase, w.main, w.child, w.counter)
<1>1. [w EXCEPT !.travel = g] =
        FlowOf(w.held, w.ticket, g, w.queue, w.phase, w.main, w.child, w.counter)
  BY FlowWritten
<1>2. [FlowOf(w.held, w.ticket, g, w.queue, w.phase, w.main, w.child, w.counter) EXCEPT !.ticket = t] =
        FlowOf(w.held, t, g, w.queue, w.phase, w.main, w.child, w.counter)
  BY DEF FlowOf
<1> QED BY <1>1, <1>2, Zenon

\* The writes of ResetRuntime.
LEMMA ResetWrites ==
  ASSUME NEW w, IsFlow(w), NEW t, NEW g
  PROVE  [w EXCEPT !.ticket = t, !.travel = g] =
           FlowOf(w.held, t, g, w.queue, w.phase, w.main, w.child, w.counter)
<1>1. [w EXCEPT !.ticket = t] =
        FlowOf(w.held, t, w.travel, w.queue, w.phase, w.main, w.child, w.counter)
  BY FlowWritten
<1>2. [FlowOf(w.held, t, w.travel, w.queue, w.phase, w.main, w.child, w.counter) EXCEPT !.travel = g] =
        FlowOf(w.held, t, g, w.queue, w.phase, w.main, w.child, w.counter)
  BY DEF FlowOf
<1> QED BY <1>1, <1>2, Zenon

\* The writes of the travel.
LEMMA TravelWrites ==
  ASSUME NEW w, IsFlow(w), NEW h, NEW g
  PROVE  [w EXCEPT !.held = h, !.travel = g] =
           FlowOf(h, w.ticket, g, w.queue, w.phase, w.main, w.child, w.counter)
<1>1. [w EXCEPT !.held = h] =
        FlowOf(h, w.ticket, w.travel, w.queue, w.phase, w.main, w.child, w.counter)
  BY FlowWritten
<1>2. [FlowOf(h, w.ticket, w.travel, w.queue, w.phase, w.main, w.child, w.counter) EXCEPT !.travel = g] =
        FlowOf(h, w.ticket, g, w.queue, w.phase, w.main, w.child, w.counter)
  BY DEF FlowOf
<1> QED BY <1>1, <1>2, Zenon

\* The writes that end or begin a transaction.
LEMMA PairWrites ==
  ASSUME NEW w, IsFlow(w), NEW p, NEW m, NEW c
  PROVE  [w EXCEPT !.phase = p, !.main = m, !.child = c] =
           FlowOf(w.held, w.ticket, w.travel, w.queue, p, m, c, w.counter)
<1>1. [w EXCEPT !.phase = p] =
        FlowOf(w.held, w.ticket, w.travel, w.queue, p, w.main, w.child, w.counter)
  BY FlowWritten
<1>2. [FlowOf(w.held, w.ticket, w.travel, w.queue, p, w.main, w.child, w.counter) EXCEPT !.main = m] =
        FlowOf(w.held, w.ticket, w.travel, w.queue, p, m, w.child, w.counter)
  BY DEF FlowOf
<1>3. [FlowOf(w.held, w.ticket, w.travel, w.queue, p, m, w.child, w.counter) EXCEPT !.child = c] =
        FlowOf(w.held, w.ticket, w.travel, w.queue, p, m, c, w.counter)
  BY DEF FlowOf
<1> QED BY <1>1, <1>2, <1>3, Zenon

\* The writes of FinishTrade.
LEMMA IdleWrites ==
  ASSUME NEW w, IsFlow(w), NEW p, NEW c
  PROVE  [w EXCEPT !.phase = p, !.child = c] =
           FlowOf(w.held, w.ticket, w.travel, w.queue, p, w.main, c, w.counter)
<1>1. [w EXCEPT !.phase = p] =
        FlowOf(w.held, w.ticket, w.travel, w.queue, p, w.main, w.child, w.counter)
  BY FlowWritten
<1>2. [FlowOf(w.held, w.ticket, w.travel, w.queue, p, w.main, w.child, w.counter) EXCEPT !.child = c] =
        FlowOf(w.held, w.ticket, w.travel, w.queue, p, w.main, c, w.counter)
  BY DEF FlowOf
<1> QED BY <1>1, <1>2, Zenon

\* ReleaseTradeHold in terms of fields.
LEMMA HoldIsReleased ==
  ASSUME NEW w, IsFlow(w), NEW a
  PROVE  ReleaseTradeHold(w, a) =
           FlowOf([w.held EXCEPT ![a] = FALSE], [w.ticket EXCEPT ![a] = 0],
                  [w.travel EXCEPT ![a] = "none"], w.queue, w.phase, w.main, w.child, w.counter)
<1>1. ReleaseTradeHold(w, a) = [w EXCEPT !.held = [w.held EXCEPT ![a] = FALSE],
        !.ticket = [w.ticket EXCEPT ![a] = 0], !.travel = [w.travel EXCEPT ![a] = "none"]]
  BY DEF ReleaseTradeHold
<1> QED BY <1>1, ReleaseWrites, Zenon

\* ReleaseTradeHolds in terms of fields.
LEMMA HoldsAreReleased ==
  ASSUME NEW w, IsFlow(w)
  PROVE  ReleaseTradeHolds(w) =
           FlowOf([a \in Accounts |-> FALSE],
                  [a \in Accounts |-> IF w.held[a] THEN 0 ELSE w.ticket[a]],
                  [a \in Accounts |-> IF w.held[a] THEN "none" ELSE w.travel[a]],
                  <<>>, w.phase, w.main, w.child, w.counter)
BY ReleaseAllWrites, Zenon DEF ReleaseTradeHolds

----------------------------------------------------------------------------
(* The invariant, as a property of a flow *)

\* The types of the fields.
FlowType(w) ==
  /\ IsFlow(w)
  /\ w.held \in [Accounts -> BOOLEAN] /\ w.ticket \in [Accounts -> 0 .. MaxTickets]
  /\ w.travel \in [Accounts -> {"none", "going", "arrived", "ready"}]
  /\ w.queue \in Seq(Accounts) /\ w.phase \in {"Idle", "Rendezvous", "Sequence"}
  /\ w.main \in Accounts \cup {None} /\ w.child \in Accounts \cup {None}
  /\ w.counter \in 0 .. MaxTickets

\* The queue has room, it is in line, and every ticket has been issued.
Ordered(w) ==
  /\ Len(w.queue) <= MaxQueued
  /\ InLine(w.queue, w.ticket)
  /\ \A a \in Accounts : w.ticket[a] <= w.counter

\* The pair of a transaction.
PairQueued(w) ==
  w.phase # "Idle" => w.main # None /\ w.child \in Elems(w.queue) /\ w.main # w.child

\* Who is queued, and who is held, while no role is changed.
ConsOnly(w) == ~reassigned => \A a \in Elems(w.queue) : IsCon(a)
HoldsQueue(w) ==
  ~reassigned => \A a \in Accounts :
    /\ a \in Elems(w.queue) \/ (a = TradeMain /\ w.queue # <<>>) => w.held[a]
    /\ w.held[a] => a \in Elems(w.queue) \/ (a = TradeMain /\ (w.queue # <<>> \/ edited))

\* The trade sequence is complete, or it has been edited.
SequenceEdited == ~scriptReady => edited

FlowGood(w) == FlowType(w) /\ Ordered(w) /\ PairQueued(w) /\ ConsOnly(w) /\ HoldsQueue(w)

\* Nobody is in an empty queue, and nobody has to wait in it.
LEMMA EmptyQueue ==
  /\ <<>> \in Seq(Accounts) /\ Elems(<<>>) = {} /\ Len(<<>>) = 0
  /\ \A t : InLine(<<>>, t)
  /\ \A q \in Seq(Accounts) : q # <<>> <=> Elems(q) # {}
<1>1. <<>> \in Seq(Accounts) /\ Elems(<<>>) = {} /\ Len(<<>>) = 0
  BY DEF Elems
<1>2. ASSUME NEW t
      PROVE  InLine(<<>>, t)
  BY DEF InLine
<1>3. ASSUME NEW q \in Seq(Accounts), q # <<>>
      PROVE  Elems(q) # {}
  <2>1. 1 \in DOMAIN q
    BY <1>3
  <2> QED BY <2>1 DEF Elems
<1> QED BY <1>1, <1>2, <1>3

\* The parts of a flow that has been released, or aborted.
LEMMA ReleasedParts ==
  ASSUME NEW w, IsFlow(w), NEW t, NEW g,
         t = [a \in Accounts |-> IF w.held[a] THEN 0 ELSE w.ticket[a]],
         g = [a \in Accounts |-> IF w.held[a] THEN "none" ELSE w.travel[a]]
  PROVE  /\ ReleaseTradeHolds(w) =
              FlowOf([a \in Accounts |-> FALSE], t, g, <<>>, w.phase, w.main, w.child, w.counter)
         /\ AbortTrade(w) =
              FlowOf([a \in Accounts |-> FALSE], t, g, <<>>, "Idle", None, None, w.counter)
<1> DEFINE y == ReleaseTradeHolds(w)
           h == [a \in Accounts |-> FALSE]
<1>1. y = FlowOf(h, t, g, <<>>, w.phase, w.main, w.child, w.counter)
  BY HoldsAreReleased, Zenon
<1>2. AbortTrade(w) = [y EXCEPT !.phase = "Idle", !.main = None, !.child = None]
  BY DEF AbortTrade
<1> HIDE DEF y, h
<1>3. IsFlow(y)
  BY <1>1, FlowRead
<1>4. [y EXCEPT !.phase = "Idle", !.main = None, !.child = None] =
        FlowOf(y.held, y.ticket, y.travel, y.queue, "Idle", None, None, y.counter)
  BY <1>3, PairWrites, Zenon
<1>5. /\ y.held = h /\ y.ticket = t /\ y.travel = g /\ y.queue = <<>>
      /\ y.counter = w.counter
  BY <1>1, FlowRead
<1> QED BY <1>1, <1>2, <1>4, <1>5, Zenon DEF y, h

\* A queue that is given up is in good order, and nobody is held.
LEMMA NothingQueued ==
  ASSUME NEW x, FlowType(x), x.queue = <<>>, x.phase = "Idle",
         \A a \in Accounts : ~x.held[a], \A a \in Accounts : x.ticket[a] <= x.counter
  PROVE  FlowGood(x)
BY EmptyQueue, CoordinatorAssumption
   DEF FlowGood, Ordered, PairQueued, ConsOnly, HoldsQueue

\* An abort leaves the flow in good order.
LEMMA AbortIsGood ==
  ASSUME NEW w, FlowType(w), Ordered(w)
  PROVE  FlowGood(AbortTrade(w)) /\ AbortTrade(w).queue = <<>>
<1> DEFINE x == AbortTrade(w)
           t == [a \in Accounts |-> IF w.held[a] THEN 0 ELSE w.ticket[a]]
           g == [a \in Accounts |-> IF w.held[a] THEN "none" ELSE w.travel[a]]
<1>1. /\ IsFlow(x) /\ x.queue = <<>> /\ x.phase = "Idle" /\ x.main = None /\ x.child = None
      /\ x.counter = w.counter /\ x.held = [a \in Accounts |-> FALSE]
      /\ x.ticket = t /\ x.travel = g
  <2>1. x = FlowOf([a \in Accounts |-> FALSE], t, g, <<>>, "Idle", None, None, w.counter)
    BY ReleasedParts, Zenon DEF FlowType
  <2> HIDE DEF x, t, g
  <2> QED BY <2>1, FlowRead
<1>2. t \in [Accounts -> 0 .. MaxTickets] /\ \A a \in Accounts : t[a] <= w.counter
  BY CoordinatorAssumption DEF FlowType, Ordered
<1>3. g \in [Accounts -> {"none", "going", "arrived", "ready"}]
  BY DEF FlowType
<1> HIDE DEF x, t, g
<1>4. FlowType(x)
  BY <1>1, <1>2, <1>3, EmptyQueue DEF FlowType
<1>5. \A a \in Accounts : ~x.held[a] /\ x.ticket[a] <= x.counter
  BY <1>1, <1>2
<1> QED BY <1>1, <1>4, <1>5, NothingQueued DEF x

\* So do the releases of all holds, when no transaction runs.
LEMMA ReleaseAllIsGood ==
  ASSUME NEW w, FlowType(w), Ordered(w), w.phase = "Idle"
  PROVE  FlowGood(ReleaseTradeHolds(w))
<1> DEFINE x == ReleaseTradeHolds(w)
           t == [a \in Accounts |-> IF w.held[a] THEN 0 ELSE w.ticket[a]]
           g == [a \in Accounts |-> IF w.held[a] THEN "none" ELSE w.travel[a]]
<1>1. /\ IsFlow(x) /\ x.queue = <<>> /\ x.phase = w.phase /\ x.main = w.main
      /\ x.child = w.child
      /\ x.counter = w.counter /\ x.held = [a \in Accounts |-> FALSE]
      /\ x.ticket = t /\ x.travel = g
  <2>1. x = FlowOf([a \in Accounts |-> FALSE], t, g, <<>>, w.phase, w.main, w.child, w.counter)
    BY ReleasedParts, Zenon DEF FlowType
  <2> HIDE DEF x, t, g
  <2> QED BY <2>1, FlowRead
<1>2. t \in [Accounts -> 0 .. MaxTickets] /\ \A a \in Accounts : t[a] <= w.counter
  BY CoordinatorAssumption DEF FlowType, Ordered
<1>3. g \in [Accounts -> {"none", "going", "arrived", "ready"}]
  BY DEF FlowType
<1> HIDE DEF x, t, g
<1>4. FlowType(x)
  BY <1>1, <1>2, <1>3, EmptyQueue DEF FlowType
<1>5. \A a \in Accounts : ~x.held[a] /\ x.ticket[a] <= x.counter
  BY <1>1, <1>2
<1> QED BY <1>1, <1>4, <1>5, NothingQueued DEF x

----------------------------------------------------------------------------
(* Resets between the ticks, and at a death *)

\* Two flows that differ in travel and in tickets only.
SameQueue(w, x) ==
  /\ x.held = w.held /\ x.queue = w.queue /\ x.phase = w.phase
  /\ x.main = w.main /\ x.child = w.child /\ x.counter = w.counter

\* Tickets may be lost.
LEMMA ForgettingIsGood ==
  ASSUME NEW w, FlowGood(w), NEW x, FlowType(x), SameQueue(w, x),
         \A a \in Accounts : x.ticket[a] = w.ticket[a] \/ x.ticket[a] = 0
  PROVE  FlowGood(x)
<1>1. w.queue \in Seq(Accounts) /\ \A a \in Elems(w.queue) : a \in Accounts
  BY DEF FlowGood, FlowType, Elems
<1>2. InLine(x.queue, x.ticket)
  BY <1>1, LineForgets DEF FlowGood, Ordered, SameQueue
<1>3. ASSUME NEW a \in Accounts
      PROVE  x.ticket[a] <= x.counter
  <2>1. w.ticket[a] <= w.counter /\ x.counter = w.counter /\ w.counter \in Nat
    BY CoordinatorAssumption DEF FlowGood, Ordered, SameQueue, FlowType
  <2>2. 0 <= x.counter
    BY <2>1
  <2> QED BY <2>1, <2>2
<1>4. Ordered(x)
  BY <1>2, <1>3 DEF FlowGood, Ordered, SameQueue
<1> QED BY <1>4 DEF FlowGood, SameQueue, PairQueued, ConsOnly, HoldsQueue

\* HandleDeath resets travel, and the tickets of those who are not held.
LEMMA DeathParts ==
  ASSUME NEW w, FlowType(w), NEW served
  PROVE  LET x == HandleDeath(w, served) IN
         /\ FlowType(x) /\ SameQueue(w, x)
         /\ \A a \in Accounts : x.ticket[a] = w.ticket[a] \/ (x.ticket[a] = 0 /\ ~w.held[a])
<1> DEFINE g == [a \in Accounts |-> IF a \in served THEN "none" ELSE w.travel[a]]
           t == [a \in Accounts |-> IF a \in served /\ ~w.held[a] THEN 0 ELSE w.ticket[a]]
           x == HandleDeath(w, served)
<1>1. CASE served = {}
  <2>1. x = w
    BY <1>1 DEF HandleDeath
  <2> HIDE DEF x
  <2> QED BY <2>1 DEF SameQueue, x
<1>2. CASE served # {}
  <2>1. x = [w EXCEPT !.travel = g, !.ticket = t]
    BY <1>2, Zenon DEF HandleDeath
  <2>2. g \in [Accounts -> {"none", "going", "arrived", "ready"}]
    BY DEF FlowType
  <2>3. /\ t \in [Accounts -> 0 .. MaxTickets]
        /\ \A a \in Accounts : t[a] = w.ticket[a] \/ (t[a] = 0 /\ ~w.held[a])
    BY CoordinatorAssumption DEF FlowType
  <2> HIDE DEF g, t, x
  <2>4. x = FlowOf(w.held, t, g, w.queue, w.phase, w.main, w.child, w.counter)
    BY <2>1, DeathWrites, Zenon DEF FlowType
  <2>5. /\ IsFlow(x) /\ x.held = w.held /\ x.ticket = t /\ x.travel = g /\ x.queue = w.queue
        /\ x.phase = w.phase /\ x.main = w.main /\ x.child = w.child /\ x.counter = w.counter
    BY <2>4, FlowRead
  <2>6. FlowType(x) /\ SameQueue(w, x)
    BY <2>2, <2>3, <2>5 DEF FlowType, SameQueue
  <2> QED BY <2>3, <2>5, <2>6 DEF x
<1> QED BY <1>1, <1>2

\* ResetRuntime of one account.
LEMMA ResetParts ==
  ASSUME NEW w, FlowType(w), NEW b \in Accounts
  PROVE  LET x == ResetRuntime(w, b) IN
         /\ FlowType(x) /\ SameQueue(w, x)
         /\ \A a \in Accounts : x.ticket[a] = w.ticket[a] \/ x.ticket[a] = 0
<1> DEFINE g == [w.travel EXCEPT ![b] = "none"]
           t == [w.ticket EXCEPT ![b] = 0]
           x == ResetRuntime(w, b)
<1>1. x = [w EXCEPT !.ticket = t, !.travel = g]
  BY DEF ResetRuntime
<1>2. g \in [Accounts -> {"none", "going", "arrived", "ready"}]
  BY DEF FlowType
<1>3. /\ t \in [Accounts -> 0 .. MaxTickets]
      /\ \A a \in Accounts : t[a] = w.ticket[a] \/ t[a] = 0
  BY CoordinatorAssumption DEF FlowType
<1> HIDE DEF g, t, x
<1>4. x = FlowOf(w.held, t, g, w.queue, w.phase, w.main, w.child, w.counter)
  BY <1>1, ResetWrites, Zenon DEF FlowType
<1>5. /\ IsFlow(x) /\ x.held = w.held /\ x.ticket = t /\ x.travel = g /\ x.queue = w.queue
      /\ x.phase = w.phase /\ x.main = w.main /\ x.child = w.child /\ x.counter = w.counter
  BY <1>4, FlowRead
<1>6. FlowType(x) /\ SameQueue(w, x)
  BY <1>2, <1>3, <1>5 DEF FlowType, SameQueue
<1> QED BY <1>3, <1>5, <1>6 DEF x

----------------------------------------------------------------------------
(* The parts of a tick.  Between the purge and the end of the tick MAIN may *)
(* be held although nobody is queued any more.                              *)

\* The flow in the middle of a tick; m is the MAIN account.
HoldsMove(w, m) ==
  ~reassigned => /\ \A a \in Accounts \ {m} : w.held[a] <=> a \in Elems(w.queue)
                 /\ w.queue # <<>> => w.held[m]
FlowMoves(w, m) ==
  /\ FlowType(w) /\ Ordered(w) /\ PairQueued(w) /\ ConsOnly(w) /\ HoldsMove(w, m)
  /\ w.phase # "Idle" => w.main = m

\* MAIN has the role, and is no CON.
IsMain(m) == m = TradeMain /\ m \in Accounts /\ m # None /\ ~IsCon(m)

\* A flow in good order, when a tick begins to work on it.
LEMMA GoodMoves ==
  ASSUME NEW w, FlowGood(w), NEW m, IsMain(m), w.phase # "Idle" => w.main = m
  PROVE  FlowMoves(w, m)
<1>1. HoldsMove(w, m)
  BY DEF FlowGood, HoldsQueue, HoldsMove, IsMain
<1> QED BY <1>1 DEF FlowGood, FlowMoves

\* The purge erases those who cannot take part any more.
LEMMA PurgeParts ==
  ASSUME NEW w, FlowType(w), NEW v, NEW l
  PROVE  LET x == PurgeQueue(w, v, l)
             out == {a \in Queued(w) : ~StaysQueued(w, v, l, a)} IN
         /\ FlowType(x)
         /\ x.phase = w.phase /\ x.main = w.main /\ x.child = w.child /\ x.counter = w.counter
         /\ Shorter(x.queue, w.queue) /\ Elems(x.queue) = Elems(w.queue) \ out
         /\ \A a \in Accounts : /\ a \in out => ~x.held[a] /\ x.ticket[a] = 0
                                /\ a \notin out => /\ x.held[a] = w.held[a]
                                                   /\ x.ticket[a] = w.ticket[a]
<1> DEFINE out == {a \in Queued(w) : ~StaysQueued(w, v, l, a)}
           q == Without(w.queue, out)
           h == [a \in Accounts |-> a \notin out /\ w.held[a]]
           t == [a \in Accounts |-> IF a \in out THEN 0 ELSE w.ticket[a]]
           g == [a \in Accounts |-> IF a \in out THEN "none" ELSE w.travel[a]]
           x == PurgeQueue(w, v, l)
<1>1. CASE out = {}
  <2>1. x = w
    BY <1>1 DEF PurgeQueue
  <2>2. Shorter(w.queue, w.queue) /\ Elems(w.queue) = Elems(w.queue) \ out
    BY <1>1 DEF Shorter, FlowType, Elems
  <2> HIDE DEF x
  <2> QED BY <1>1, <2>1, <2>2 DEF x
<1>2. CASE out # {}
  <2>1. x = Erased(w, q, h, t, g)
    BY <1>2, Zenon DEF PurgeQueue, Erased
  <2>2. g \in [Accounts -> {"none", "going", "arrived", "ready"}]
    BY DEF FlowType
  <2>3. t \in [Accounts -> 0 .. MaxTickets] /\ h \in [Accounts -> BOOLEAN]
    BY CoordinatorAssumption DEF FlowType
  <2>4. \A a \in Accounts : /\ a \in out => ~h[a] /\ t[a] = 0
                            /\ a \notin out => h[a] = w.held[a] /\ t[a] = w.ticket[a]
    <3> HIDE DEF out
    <3> QED BY DEF FlowType
  <2>5. Shorter(q, w.queue) /\ Elems(q) = Elems(w.queue) \ out /\ q \in Seq(Accounts)
    <3> HIDE DEF out
    <3>1. w.queue \in Seq(Accounts)
      BY DEF FlowType
    <3>2. Shorter(q, w.queue) /\ Elems(q) = Elems(w.queue) \ out
      BY <3>1, WithoutErases
    <3> QED BY <3>2 DEF Shorter
  <2> HIDE DEF g, t, h, q, x, out
  <2>6. x = FlowOf(h, t, g, q, w.phase, w.main, w.child, w.counter)
    <3>1. IsFlow(w)
      BY DEF FlowType
    <3> QED BY <2>1, <3>1, EraseWrites
  <2>7. /\ IsFlow(x) /\ x.held = h /\ x.ticket = t /\ x.travel = g /\ x.queue = q
        /\ x.phase = w.phase /\ x.main = w.main /\ x.child = w.child /\ x.counter = w.counter
    BY <2>6, FlowRead
  <2>8. FlowType(x)
    BY <2>2, <2>3, <2>5, <2>7 DEF FlowType
  <2> QED BY <2>4, <2>5, <2>7, <2>8 DEF x, out
<1> QED BY <1>1, <1>2

\* A tick goes on with the purged flow.
LEMMA PurgeMoves ==
  ASSUME NEW w, NEW m, FlowMoves(w, m), IsMain(m), NEW v, NEW l
  PROVE  FlowMoves(PurgeQueue(w, v, l), m)
<1> DEFINE x == PurgeQueue(w, v, l)
           out == {a \in Queued(w) : ~StaysQueued(w, v, l, a)}
<1>1. /\ FlowType(x)
      /\ x.phase = w.phase /\ x.main = w.main /\ x.child = w.child /\ x.counter = w.counter
      /\ Shorter(x.queue, w.queue) /\ Elems(x.queue) = Elems(w.queue) \ out
      /\ \A a \in Accounts : /\ a \in out => ~x.held[a] /\ x.ticket[a] = 0
                             /\ a \notin out => /\ x.held[a] = w.held[a]
                                                /\ x.ticket[a] = w.ticket[a]
  <2>1. FlowType(w)
    BY DEF FlowMoves
  <2> QED BY <2>1, PurgeParts
<1>2. out \subseteq Elems(w.queue) /\ (w.phase # "Idle" => w.child \notin out)
  BY DEF Queued, Elems, StaysQueued
<1>3. \A a \in Elems(w.queue) : a \in Accounts
  BY DEF FlowMoves, FlowType, Elems
<1> HIDE DEF x, out
<1>4. Ordered(x)
  <2>1. InLine(x.queue, x.ticket)
    <3>1. InLine(w.queue, w.ticket)
      BY DEF FlowMoves, Ordered
    <3>2. \A a \in Elems(w.queue) : x.ticket[a] = w.ticket[a] \/ x.ticket[a] = 0
      BY <1>1, <1>3
    <3> QED BY <1>1, <3>1, <3>2, LineShortens
  <2>2. Len(x.queue) <= MaxQueued
    <3>1. w.queue \in Seq(Accounts) /\ x.queue \in Seq(Accounts) /\ Len(w.queue) <= MaxQueued
          /\ Len(x.queue) <= Len(w.queue)
      BY <1>1 DEF FlowMoves, Ordered, FlowType, Shorter
    <3> QED BY <3>1, CoordinatorAssumption
  <2>3. ASSUME NEW a \in Accounts
        PROVE  x.ticket[a] <= x.counter
    <3>1. w.ticket[a] <= w.counter /\ w.counter \in Nat
      BY CoordinatorAssumption DEF FlowMoves, Ordered, FlowType
    <3>2. x.ticket[a] = w.ticket[a] \/ x.ticket[a] = 0
      BY <1>1
    <3> QED BY <1>1, <3>1, <3>2
  <2> QED BY <2>1, <2>2, <2>3 DEF Ordered
<1>5. PairQueued(x) /\ ConsOnly(x) /\ (x.phase # "Idle" => x.main = m)
  BY <1>1, <1>2 DEF FlowMoves, PairQueued, ConsOnly
<1>6. HoldsMove(x, m)
  <2> SUFFICES ASSUME ~reassigned
               PROVE  /\ \A a \in Accounts \ {m} : x.held[a] <=> a \in Elems(x.queue)
                      /\ x.queue # <<>> => x.held[m]
    BY DEF HoldsMove
  <2>1. /\ \A a \in Accounts \ {m} : w.held[a] <=> a \in Elems(w.queue)
        /\ w.queue # <<>> => w.held[m]
    BY DEF FlowMoves, HoldsMove
  <2>2. m \notin out /\ m \in Accounts
    BY <1>2 DEF FlowMoves, ConsOnly, IsMain
  <2>3. x.queue # <<>> => w.queue # <<>>
    <3>1. x.queue \in Seq(Accounts) /\ w.queue \in Seq(Accounts)
      BY <1>1 DEF FlowMoves, FlowType
    <3> QED BY <1>1, <3>1, EmptyQueue
  <2> QED BY <1>1, <2>1, <2>2, <2>3
<1> QED BY <1>1, <1>4, <1>5, <1>6 DEF FlowMoves, x

----------------------------------------------------------------------------
(* The admission *)

\* The accounts that can join have different CON roles, so there are finitely many.
LEMMA JoinersHavePlaces ==
  ASSUME role \in [Accounts -> 0 .. Slots + 1], NEW v, NEW full, full \subseteq Accounts,
         NEW R, R \subseteq CanJoin(v, full)
  PROVE  Places(R, role)
<1> DEFINE f == [a \in R |-> role[a]]
<1>1. \A a \in R : /\ a \in Accounts /\ role[a] \in 2 .. Slots + 1
                   /\ a = AccountByTradeRole(role[a])
  BY DEF CanJoin, IsCon
<1>2. \A a, b \in R : role[a] = role[b] => a = b
  <2> SUFFICES ASSUME NEW a \in R, NEW b \in R, role[a] = role[b]
               PROVE  a = b
    OBVIOUS
  <2>1. AccountByTradeRole(role[a]) = AccountByTradeRole(role[b])
    OBVIOUS
  <2> QED BY <1>1, <2>1
<1>3. f \in Injection(R, 2 .. Slots + 1)
  BY <1>1, <1>2 DEF Injection, IsInjective
<1>4. IsFiniteSet(2 .. Slots + 1)
  BY CoordinatorAssumption, FS_Interval
<1>5. IsFiniteSet(R)
  <2> HIDE DEF f
  <2> QED BY <1>3, <1>4, FS_Injection
<1> QED BY <1>1, <1>2, <1>5, CoordinatorAssumption DEF Places

\* Those who join: there is room for all of them, a ticket for each, and the tickets are
\* the next ones.
LEMMA JoiningParts ==
  ASSUME NEW w, Len(w.queue) \in 0 .. MaxQueued, w.counter \in 0 .. MaxTickets,
         NEW R, Places(R, role)
  PROVE  LET in == Joining(w, R)
             n == Cardinality(in) IN
         /\ in \subseteq R /\ Places(in, role) /\ n \in Nat
         /\ Len(w.queue) + n <= MaxQueued /\ w.counter + n <= MaxTickets
         /\ \A a \in in : Rank(R, role, a) \in 1 .. n
<1> DEFINE in == Joining(w, R)
           n == Cardinality(in)
           o == InOrder(in, role)
<1>1. in \subseteq R
  BY DEF Joining
<1>2. Places(in, role)
  BY <1>1, FS_Subset DEF Places
<1>3. n \in Nat /\ \A a \in R : Rank(R, role, a) \in Nat \ {0}
  BY <1>2, FS_CardinalityType, RankBounds DEF Places
<1>4. \A a \in in : /\ Len(w.queue) + Rank(R, role, a) <= MaxQueued
                    /\ w.counter + Rank(R, role, a) <= MaxTickets
  BY DEF Joining
<1>5. Len(w.queue) + n <= MaxQueued /\ w.counter + n <= MaxTickets
  <2>1. CASE n = 0
    BY <2>1, CoordinatorAssumption
  <2>2. CASE n # 0
    <3> DEFINE last == o[n]
               A == {y \in in : role[y] <= role[last]}
               B == {y \in R : role[y] <= role[last]}
    <3>1. n \in 1 .. n /\ last \in in /\ Rank(in, role, last) = n
      <4>1. n \in 1 .. n
        BY <1>3, <2>2
      <4> QED BY <4>1, <1>2, InOrderLists
    <3> HIDE DEF n, in, last
    <3>2. A \in SUBSET B /\ IsFiniteSet(B)
      BY <1>1, FS_Subset DEF Places
    <3>3. Cardinality(A) <= Cardinality(B)
      BY <3>2, FS_Subset
    <3>4. n <= Rank(R, role, last)
      BY <3>1, <3>3 DEF Rank
    <3> QED BY <1>1, <1>3, <1>4, <3>1, <3>4, CoordinatorAssumption
  <2> QED BY <2>1, <2>2
<1>6. ASSUME NEW a \in in
      PROVE  Rank(R, role, a) \in 1 .. n
  <2> DEFINE B == {y \in R : role[y] <= role[a]}
  <2>1. ASSUME NEW y \in B
        PROVE  y \in in
    <3> DEFINE A == {z \in R : role[z] <= role[y]}
    <3>1. A \in SUBSET B /\ IsFiniteSet(B)
      BY <1>1, FS_Subset DEF Places
    <3>2. Cardinality(A) <= Cardinality(B)
      BY <3>1, FS_Subset
    <3>3. Rank(R, role, y) <= Rank(R, role, a)
      BY <3>2 DEF Rank
    <3>4. Rank(R, role, y) \in Nat /\ Rank(R, role, a) \in Nat
      BY <1>1, <1>3
    <3>5. /\ Len(w.queue) + Rank(R, role, y) <= MaxQueued
          /\ w.counter + Rank(R, role, y) <= MaxTickets
      BY <1>4, <3>3, <3>4, CoordinatorAssumption
    <3> QED BY <3>5 DEF Joining
  <2>2. B \in SUBSET in
    BY <2>1
  <2>3. Cardinality(B) <= n
    BY <1>2, <2>2, FS_Subset DEF Places
  <2>4. Rank(R, role, a) <= n
    BY <2>3 DEF Rank
  <2>5. Rank(R, role, a) \in Nat \ {0}
    BY <1>1, <1>3
  <2> HIDE DEF n
  <2> QED BY <1>3, <2>4, <2>5
<1> QED BY <1>1, <1>2, <1>3, <1>5, <1>6

\* Admit in terms of fields.
LEMMA AdmitParts ==
  ASSUME NEW w, FlowType(w), Len(w.queue) <= MaxQueued, NEW R, Places(R, role),
         R \subseteq Accounts, NEW m \in Accounts
  PROVE  LET x == Admit(w, R, m)
             in == Joining(w, R)
             n == Cardinality(in) IN
         /\ FlowType(x) /\ x.phase = w.phase /\ x.main = w.main /\ x.child = w.child
         /\ x.counter = w.counter + n /\ x.queue = w.queue \o InOrder(in, role)
         /\ \A a \in Accounts :
              /\ x.ticket[a] = IF a \in in THEN w.counter + Rank(R, role, a) ELSE w.ticket[a]
              /\ a # m => x.held[a] = (a \in in \/ w.held[a])
         /\ x.held[m] = (m \in in \/ w.held[m] \/ (w.queue = <<>> /\ in # {}))
<1> DEFINE in == Joining(w, R)
           n == w.counter + Cardinality(in)
           pulled == IF w.queue = <<>> /\ in # {} THEN in \cup {m} ELSE in
           q == w.queue \o InOrder(in, role)
           t == [a \in Accounts |-> IF a \in in THEN w.counter + Rank(R, role, a)
                                    ELSE w.ticket[a]]
           h == [a \in Accounts |-> a \in pulled \/ w.held[a]]
           g == [a \in Accounts |-> IF a \in pulled THEN "going" ELSE w.travel[a]]
           x == Admit(w, R, m)
<1>1. /\ in \subseteq R /\ Places(in, role) /\ Cardinality(in) \in Nat
      /\ n <= MaxTickets
      /\ \A a \in in : Rank(R, role, a) \in 1 .. Cardinality(in)
  <2>1. Len(w.queue) \in 0 .. MaxQueued /\ w.counter \in 0 .. MaxTickets
    BY CoordinatorAssumption DEF FlowType
  <2> QED BY <2>1, JoiningParts
<1>2. x = Joined(w, q, n, t, h, g)
  BY Zenon DEF Admit, Joined
<1>3. q \in Seq(Accounts)
  <2>1. InOrder(in, role) \in [1 .. Cardinality(in) -> in]
    BY <1>1, InOrderLists
  <2> DEFINE o == InOrder(in, role)
  <2> HIDE DEF o
  <2>2. o \in Seq(Accounts)
    BY <1>1, <2>1 DEF o
  <2>3. w.queue \in Seq(Accounts)
    BY DEF FlowType
  <2> QED BY <2>2, <2>3 DEF o
<1>4. n \in 0 .. MaxTickets
  BY <1>1, CoordinatorAssumption DEF FlowType
<1>5. t \in [Accounts -> 0 .. MaxTickets]
  <2> SUFFICES ASSUME NEW a \in Accounts
               PROVE  t[a] \in 0 .. MaxTickets
    OBVIOUS
  <2>1. CASE a \in in
    <3>1. /\ Rank(R, role, a) \in 1 .. Cardinality(in) /\ w.counter \in Nat
          /\ t[a] = w.counter + Rank(R, role, a)
      BY <1>1, <2>1, CoordinatorAssumption DEF FlowType
    <3> HIDE DEF t, in
    <3> QED BY <1>1, <3>1, CoordinatorAssumption
  <2>2. CASE a \notin in
    BY <2>2 DEF FlowType
  <2> QED BY <2>1, <2>2
<1>6. h \in [Accounts -> BOOLEAN] /\ g \in [Accounts -> {"none", "going", "arrived", "ready"}]
  BY DEF FlowType
<1>7. \A a \in Accounts :
        /\ t[a] = IF a \in in THEN w.counter + Rank(R, role, a) ELSE w.ticket[a]
        /\ h[a] = (a \in pulled \/ w.held[a])
  OBVIOUS
<1>8. /\ \A a \in Accounts : a # m => (a \in pulled <=> a \in in)
      /\ m \in pulled <=> m \in in \/ (w.queue = <<>> /\ in # {})
  <2> HIDE DEF in
  <2> QED OBVIOUS
<1> HIDE DEF in, n, pulled, q, t, h, g, x
<1>9. x = FlowOf(h, t, g, q, w.phase, w.main, w.child, n)
  <2>1. IsFlow(w)
    BY DEF FlowType
  <2> QED BY <1>2, <2>1, AdmitWrites
<1>10. /\ IsFlow(x) /\ x.held = h /\ x.ticket = t /\ x.travel = g /\ x.queue = q
       /\ x.phase = w.phase /\ x.main = w.main /\ x.child = w.child /\ x.counter = n
  BY <1>9, FlowRead
<1>11. FlowType(x)
  BY <1>3, <1>4, <1>5, <1>6, <1>10 DEF FlowType
<1>12. w.held \in [Accounts -> BOOLEAN]
  BY DEF FlowType
<1>13. \A a \in Accounts : a # m => x.held[a] = (a \in in \/ w.held[a])
  BY <1>7, <1>8, <1>10
<1>14. x.held[m] = (m \in in \/ w.held[m] \/ (w.queue = <<>> /\ in # {}))
  BY <1>7, <1>8, <1>10, Zenon
<1> QED BY <1>7, <1>10, <1>11, <1>13, <1>14 DEF x, in, n, q

\* The queue grows by those who join, and stays in line.
LEMMA AdmitLines ==
  ASSUME NEW w, FlowType(w), Ordered(w), NEW R, Places(R, role),
         R \subseteq Accounts \ Elems(w.queue), NEW m \in Accounts
  PROVE  LET x == Admit(w, R, m) IN
         /\ Ordered(x) /\ Elems(x.queue) = Elems(w.queue) \cup Joining(w, R)
<1> DEFINE in == Joining(w, R)
           n == Cardinality(in)
           o == InOrder(in, role)
           x == Admit(w, R, m)
<1>1. /\ in \subseteq R /\ Places(in, role) /\ n \in Nat
      /\ Len(w.queue) + n <= MaxQueued
      /\ \A a \in in : Rank(R, role, a) \in 1 .. n
  <2>1. Len(w.queue) \in 0 .. MaxQueued /\ w.counter \in 0 .. MaxTickets
    BY CoordinatorAssumption DEF FlowType, Ordered
  <2> QED BY <2>1, JoiningParts
<1>2. /\ x.counter = w.counter + n /\ x.queue = w.queue \o o
      /\ \A a \in Accounts :
           x.ticket[a] = IF a \in in THEN w.counter + Rank(R, role, a) ELSE w.ticket[a]
  BY AdmitParts DEF Ordered
<1>3. /\ o \in [1 .. n -> in]
      /\ \A i, j \in 1 .. n : i < j => role[o[i]] < role[o[j]]
      /\ \A a \in in : \E k \in 1 .. n : o[k] = a
  BY <1>1, InOrderLists
<1> HIDE DEF in, n, o, x
<1>4. w.counter \in Nat /\ w.queue \in Seq(Accounts) /\ Len(w.queue) \in Nat
      /\ InLine(w.queue, w.ticket) /\ \A a \in Accounts : w.ticket[a] \in 0 .. w.counter
  BY CoordinatorAssumption DEF FlowType, Ordered
<1>5. \A a \in Elems(w.queue) : a \in Accounts /\ a \notin in /\ x.ticket[a] = w.ticket[a]
  BY <1>1, <1>2, <1>4 DEF Elems
<1>6. \A i \in 1 .. n : /\ o[i] \in in /\ o[i] \in R /\ o[i] \in Accounts
                        /\ o[i] \notin Elems(w.queue)
                        /\ x.ticket[o[i]] = w.counter + Rank(R, role, o[i])
                        /\ Rank(R, role, o[i]) \in 1 .. n
  BY <1>1, <1>2, <1>3
<1>7. o \in [1 .. n -> Accounts]
  BY <1>3, <1>6
<1>8. ASSUME NEW i \in 1 .. n
      PROVE  /\ o[i] \notin Elems(w.queue)
             /\ x.ticket[o[i]] \in Nat /\ x.ticket[o[i]] > w.counter
  <2>1. /\ o[i] \notin Elems(w.queue) /\ x.ticket[o[i]] = w.counter + Rank(R, role, o[i])
        /\ Rank(R, role, o[i]) \in 1 .. n
    BY <1>6
  <2>2. n \in Nat /\ w.counter \in Nat
    BY <1>1, <1>4
  <2> QED BY <2>1, <2>2
<1>9. ASSUME NEW i \in 1 .. n, NEW j \in 1 .. n, i < j
      PROVE  x.ticket[o[i]] < x.ticket[o[j]]
  <2>1. o[i] \in R /\ o[j] \in R /\ role[o[i]] < role[o[j]]
    BY <1>3, <1>6, <1>9
  <2>2. Rank(R, role, o[i]) < Rank(R, role, o[j])
    BY <2>1, RankGrows DEF Places
  <2>3. /\ Rank(R, role, o[i]) \in 1 .. n /\ x.ticket[o[i]] = w.counter + Rank(R, role, o[i])
        /\ Rank(R, role, o[j]) \in 1 .. n /\ x.ticket[o[j]] = w.counter + Rank(R, role, o[j])
    BY <1>6
  <2>4. n \in Nat /\ w.counter \in Nat
    BY <1>1, <1>4
  <2> QED BY <2>2, <2>3, <2>4
<1>10. /\ Len(x.queue) = Len(w.queue) + n
       /\ Elems(x.queue) = Elems(w.queue) \cup {o[i] : i \in 1 .. n}
       /\ InLine(x.queue, x.ticket)
  <2>1. /\ w.queue \in Seq(Accounts) /\ n \in Nat /\ w.counter \in Nat
        /\ InLine(w.queue, w.ticket) /\ \A a \in Accounts : w.ticket[a] \in 0 .. w.counter
    BY <1>1, <1>4
  <2>2. \A a \in Elems(w.queue) : x.ticket[a] = w.ticket[a]
    BY <1>5
  <2>3. /\ Len(w.queue \o o) = Len(w.queue) + n
        /\ Elems(w.queue \o o) = Elems(w.queue) \cup {o[i] : i \in 1 .. n}
        /\ InLine(w.queue \o o, x.ticket)
    BY <1>7, <1>8, <1>9, <2>1, <2>2, LineGrows
  <2> QED BY <1>2, <2>3
<1>11. {o[i] : i \in 1 .. n} = in
  BY <1>3
<1>12. ASSUME NEW a \in Accounts
       PROVE  x.ticket[a] <= x.counter
  <2>1. CASE a \in in
    BY <1>1, <1>2, <1>4, <2>1
  <2>2. CASE a \notin in
    BY <1>1, <1>2, <1>4, <2>2
  <2> QED BY <2>1, <2>2
<1> QED BY <1>1, <1>10, <1>11, <1>12 DEF Ordered, x, in

\* A tick goes on with those who were admitted; nobody is during the sequence.
LEMMA AdmitMoves ==
  ASSUME role \in [Accounts -> 0 .. Slots + 1], NEW w, NEW m, FlowMoves(w, m), IsMain(m),
         NEW v, NEW full, full \subseteq Accounts
  PROVE  LET x == AdmitFullChildren(w, v, full, m) IN
         /\ FlowMoves(x, m)
         /\ w.phase = "Sequence" => x = w
         /\ Elems(x.queue) \subseteq Elems(w.queue) \cup CanJoin(v, full)
         /\ \A a \in Elems(w.queue) : a \in Elems(x.queue) /\ x.ticket[a] = w.ticket[a]
<1> DEFINE R == CanJoin(v, full) \ Queued(w)
           in == Joining(w, R)
           y == Admit(w, R, m)
           x == AdmitFullChildren(w, v, full, m)
<1>1. x = w \/ (x = y /\ w.phase # "Sequence")
  BY Zenon DEF AdmitFullChildren
<1>2. FlowType(w) /\ Ordered(w) /\ Len(w.queue) <= MaxQueued /\ m \in Accounts
  BY DEF FlowMoves, Ordered, IsMain
<1>3. /\ R \subseteq Accounts \ Elems(w.queue) /\ R \subseteq CanJoin(v, full)
      /\ \A a \in R : IsCon(a)
  BY DEF CanJoin, Queued, Elems
<1>4. Places(R, role)
  BY <1>3, JoinersHavePlaces
<1>5. in \subseteq R
  BY DEF Joining
<1>6. /\ FlowType(y) /\ y.phase = w.phase /\ y.main = w.main /\ y.child = w.child
      /\ \A a \in Accounts :
           /\ y.ticket[a] = IF a \in in THEN w.counter + Rank(R, role, a) ELSE w.ticket[a]
           /\ a # m => y.held[a] = (a \in in \/ w.held[a])
      /\ y.held[m] = (m \in in \/ w.held[m] \/ (w.queue = <<>> /\ in # {}))
  <2>1. R \subseteq Accounts
    BY <1>3
  <2> HIDE DEF R
  <2> QED BY <1>2, <2>1, <1>4, AdmitParts
<1>7. Ordered(y) /\ Elems(y.queue) = Elems(w.queue) \cup in
  BY <1>2, <1>3, <1>4, AdmitLines
<1>8. \A a \in Elems(w.queue) : a \in Accounts
  BY <1>2 DEF FlowType, Elems
<1> HIDE DEF R, in, y, x
<1>9. FlowMoves(y, m)
  <2>1. PairQueued(y) /\ (y.phase # "Idle" => y.main = m)
    BY <1>6, <1>7 DEF FlowMoves, PairQueued
  <2>2. ConsOnly(y)
    BY <1>3, <1>5, <1>7 DEF FlowMoves, ConsOnly
  <2>3. HoldsMove(y, m)
    <3> SUFFICES ASSUME ~reassigned
                 PROVE  /\ \A a \in Accounts \ {m} : y.held[a] <=> a \in Elems(y.queue)
                        /\ y.queue # <<>> => y.held[m]
      BY DEF HoldsMove
    <3>1. /\ \A a \in Accounts \ {m} : w.held[a] <=> a \in Elems(w.queue)
          /\ w.queue # <<>> => w.held[m]
      BY DEF FlowMoves, HoldsMove
    <3>2. w.queue = <<>> /\ in = {} => y.queue = <<>>
      BY <1>2, <1>6, <1>7, EmptyQueue DEF FlowType
    <3> QED BY <1>6, <1>7, <3>1, <3>2
  <2> QED BY <1>6, <1>7, <2>1, <2>2, <2>3 DEF FlowMoves
<1>10. /\ Elems(y.queue) \subseteq Elems(w.queue) \cup CanJoin(v, full)
       /\ \A a \in Elems(w.queue) : a \in Elems(y.queue) /\ y.ticket[a] = w.ticket[a]
  BY <1>3, <1>5, <1>6, <1>7, <1>8
<1> QED BY <1>1, <1>9, <1>10 DEF x

\* TravelStep yields a state of travel.
LEMMA TravelStepType ==
  ASSUME NEW t \in {"none", "going", "arrived", "ready"}, NEW view
  PROVE  TravelStep(t, view) \in {"none", "going", "arrived", "ready"}
BY DEF TravelStep

\* Accounts move; those who do are held from then on.
LEMMA TravelMoves ==
  ASSUME NEW w, NEW m, FlowMoves(w, m), IsMain(m), NEW v
  PROVE  LET x == TravelAll(w, v, m) IN
         FlowMoves(x, m) /\ x.queue = w.queue /\ x.ticket = w.ticket
<1> DEFINE movers == IF w.queue = <<>> THEN {}
                     ELSE IF w.phase = "Sequence" THEN Queued(w) \ {w.child}
                     ELSE Queued(w) \cup {m}
           h == [a \in Accounts |-> a \in movers \/ w.held[a]]
           g == [a \in Accounts |-> IF a \in movers /\ auto[a] = "on"
                                    THEN TravelStep(w.travel[a], v[a]) ELSE w.travel[a]]
           x == TravelAll(w, v, m)
<1>1. CASE movers = {}
  <2>1. x = w
    BY <1>1, Zenon DEF TravelAll
  <2> HIDE DEF x
  <2> QED BY <2>1 DEF x
<1>2. CASE movers # {}
  <2>1. x = [w EXCEPT !.held = h, !.travel = g]
    BY <1>2, Zenon DEF TravelAll
  <2>2. FlowType(w) /\ IsFlow(w) /\ m \in Accounts
    BY DEF FlowMoves, FlowType, IsMain
  <2>3. h \in [Accounts -> BOOLEAN]
    BY <2>2 DEF FlowType
  <2>4. g \in [Accounts -> {"none", "going", "arrived", "ready"}]
    BY <2>2, TravelStepType DEF FlowType
  <2>5. \A a \in Accounts : h[a] <=> a \in movers \/ w.held[a]
    OBVIOUS
  <2>6. /\ movers \subseteq Elems(w.queue) \cup {m}
        /\ m \in movers => w.queue # <<>>
    BY DEF Queued, Elems
  <2> HIDE DEF movers, h, g, x
  <2>7. x = FlowOf(h, w.ticket, g, w.queue, w.phase, w.main, w.child, w.counter)
    BY <2>1, <2>2, TravelWrites, Zenon
  <2>8. /\ IsFlow(x) /\ x.held = h /\ x.ticket = w.ticket /\ x.travel = g /\ x.queue = w.queue
        /\ x.phase = w.phase /\ x.main = w.main /\ x.child = w.child /\ x.counter = w.counter
    BY <2>7, FlowRead
  <2>9. FlowType(x)
    BY <2>2, <2>3, <2>4, <2>8 DEF FlowType
  <2>10. Ordered(x) /\ PairQueued(x) /\ ConsOnly(x) /\ (x.phase # "Idle" => x.main = m)
    BY <2>8 DEF FlowMoves, Ordered, PairQueued, ConsOnly
  <2>11. HoldsMove(x, m)
    BY <2>5, <2>6, <2>8, <2>2 DEF FlowMoves, HoldsMove
  <2> QED BY <2>8, <2>9, <2>10, <2>11 DEF FlowMoves, x
<1> QED BY <1>1, <1>2

----------------------------------------------------------------------------
(* The child to serve *)

\* A set of places in a queue has a first one.
LEMMA FirstPlace ==
  ASSUME NEW n \in Nat, NEW S, S \subseteq 1 .. n, S # {}
  PROVE  \E i \in S : \A j \in S : i <= j
<1> DEFINE at == [i \in S |-> i]
           o == InOrder(S, at)
<1>1. IsFiniteSet(S)
  <2>1. IsFiniteSet(1 .. n) /\ S \in SUBSET (1 .. n)
    BY FS_Interval
  <2> QED BY <2>1, FS_Subset
<1>2. Places(S, at)
  BY <1>1 DEF Places
<1>3. /\ Cardinality(S) \in Nat /\ o \in [1 .. Cardinality(S) -> S]
      /\ \A i, j \in 1 .. Cardinality(S) : i < j => at[o[i]] < at[o[j]]
      /\ \A x \in S : \E k \in 1 .. Cardinality(S) : o[k] = x
  <2> HIDE DEF at
  <2> QED BY <1>2, InOrderLists
<1> HIDE DEF o
<1>3a. \A i, j \in 1 .. Cardinality(S) : i < j => o[i] < o[j]
  BY <1>3
<1>4. Cardinality(S) # 0
  BY <1>1, FS_EmptySet
<1>5. 1 \in 1 .. Cardinality(S) /\ o[1] \in S
  BY <1>3, <1>4
<1>6. ASSUME NEW x \in S
      PROVE  o[1] <= x
  <2>1. PICK k \in 1 .. Cardinality(S) : o[k] = x
    BY <1>3
  <2>2. CASE k = 1
    BY <1>5, <2>1, <2>2
  <2>3. CASE k # 1
    <3>1. 1 < k
      BY <1>3, <2>3
    <3>2. o[1] < o[k]
      BY <1>5, <1>3a, <3>1
    <3>3. o[1] \in 1 .. n /\ x \in 1 .. n
      BY <1>5
    <3> QED BY <2>1, <3>2, <3>3
  <2> QED BY <2>2, <2>3
<1> QED BY <1>5, <1>6

\* The child to serve is queued and has a CON role; there is one if any account in the
\* queue has such a role.
LEMMA OldestIsQueued ==
  ASSUME NEW w, FlowType(w), Ordered(w), NEW e, e = Oldest(w.queue, w.ticket, role)
  PROVE  /\ e # None => e \in Elems(w.queue) /\ e \in Accounts /\ IsCon(e)
         /\ e = None => \A a \in Elems(w.queue) : ~IsCon(a)
<1> DEFINE q == w.queue
           t == w.ticket
           cons == {i \in 1 .. Len(q) : role[q[i]] \in 2 .. Slots + 1}
           withTicket == {i \in cons : t[q[i]] # 0}
           best == IF withTicket = {}
                   THEN {i \in cons : \A j \in cons : i <= j}
                   ELSE {i \in withTicket : \A j \in withTicket : t[q[i]] <= t[q[j]]}
<1>1. /\ q \in Seq(Accounts) /\ Len(q) \in Nat /\ DOMAIN q = 1 .. Len(q)
      /\ \A i \in 1 .. Len(q) : q[i] \in Accounts /\ q[i] # None /\ t[q[i]] \in Nat
      /\ InLine(q, t)
  <2>1. q \in Seq(Accounts) /\ InLine(q, t) /\ t \in [Accounts -> 0 .. MaxTickets]
    BY DEF FlowType, Ordered
  <2>2. \A i \in 1 .. Len(q) : q[i] \in Accounts
    BY <2>1
  <2> HIDE DEF q, t
  <2> QED BY <2>1, <2>2, CoordinatorAssumption
<1>2. cons = {} \/ best # {}
  <2>1. CASE withTicket = {}
    <3>1. cons # {} => \E i \in cons : \A j \in cons : i <= j
      BY <1>1, FirstPlace
    <3> QED BY <2>1, <3>1
  <2>2. CASE withTicket # {}
    <3>1. PICK i \in withTicket : \A j \in withTicket : i <= j
      BY <1>1, <2>2, FirstPlace
    <3>2. ASSUME NEW j \in withTicket
          PROVE  t[q[i]] <= t[q[j]]
      <4>1. i \in 1 .. Len(q) /\ j \in 1 .. Len(q) /\ i <= j
            /\ t[q[i]] # 0 /\ t[q[j]] # 0
        BY <3>1
      <4>2. t[q[i]] \in Nat /\ t[q[j]] \in Nat
        BY <1>1, <4>1
      <4>3. i # j => t[q[i]] < t[q[j]]
        <5> HIDE DEF q, t
        <5> QED BY <1>1, <4>1 DEF InLine
      <4> QED BY <4>2, <4>3
    <3> QED BY <2>2, <3>1, <3>2
  <2> QED BY <2>1, <2>2
<1>3. best \subseteq cons
  OBVIOUS
<1>4. e = IF cons = {} THEN None ELSE q[CHOOSE i \in best : TRUE]
  BY Zenon DEF Oldest
<1> HIDE DEF best
<1>5. CASE cons = {}
  <2>1. e = None
    BY <1>4, <1>5
  <2>2. \A a \in Elems(q) : ~IsCon(a)
    BY <1>1, <1>5 DEF Elems, IsCon
  <2> QED BY <2>1, <2>2
<1>6. CASE cons # {}
  <2>1. PICK i \in cons : e = q[i]
    BY <1>2, <1>3, <1>4, <1>6
  <2>2. e \in Accounts /\ e # None /\ role[e] \in 2 .. Slots + 1
    BY <1>1, <2>1
  <2>3. e \in Elems(q)
    BY <1>1, <2>1 DEF Elems
  <2> QED BY <2>2, <2>3 DEF IsCon
<1> QED BY <1>5, <1>6

\* The relock keeps a pair: its child is queued and is not MAIN.
LEMMA RelockMoves ==
  ASSUME NEW w, NEW m, FlowMoves(w, m), IsMain(m)
  PROVE  LET x == RelockRendezvous(w) IN
         FlowMoves(x, m) /\ x.queue = w.queue /\ x.ticket = w.ticket
<1> DEFINE e == Oldest(w.queue, w.ticket, role)
           x == RelockRendezvous(w)
<1>1. FlowType(w) /\ IsFlow(w) /\ Ordered(w)
  BY DEF FlowMoves, FlowType
<1>2. x = IF w.phase = "Rendezvous" /\ e # None THEN [w EXCEPT !.child = e] ELSE w
  BY EarliestIsOldest DEF RelockRendezvous
<1>3. e # None => e \in Elems(w.queue) /\ e \in Accounts /\ IsCon(e)
  BY <1>1, OldestIsQueued
<1> HIDE DEF e, x
<1>4. CASE w.phase = "Rendezvous" /\ e # None
  <2>1. x = FlowOf(w.held, w.ticket, w.travel, w.queue, w.phase, w.main, e, w.counter)
    BY <1>1, <1>2, <1>4, FlowWritten, Zenon
  <2>2. /\ IsFlow(x) /\ x.held = w.held /\ x.ticket = w.ticket /\ x.travel = w.travel
        /\ x.queue = w.queue
        /\ x.phase = w.phase /\ x.main = w.main /\ x.child = e /\ x.counter = w.counter
    BY <2>1, FlowRead
  <2>3. FlowType(x)
    BY <1>1, <1>3, <1>4, <2>2 DEF FlowType
  <2>4. Ordered(x) /\ ConsOnly(x) /\ HoldsMove(x, m) /\ (x.phase # "Idle" => x.main = m)
    BY <2>2 DEF FlowMoves, Ordered, ConsOnly, HoldsMove
  <2>5. PairQueued(x)
    BY <1>3, <1>4, <2>2 DEF FlowMoves, PairQueued, IsMain
  <2> QED BY <2>2, <2>3, <2>4, <2>5 DEF FlowMoves, x
<1>5. CASE ~(w.phase = "Rendezvous" /\ e # None)
  BY <1>2, <1>5 DEF x
<1> QED BY <1>4, <1>5

----------------------------------------------------------------------------
(* The end of a tick *)

\* While a transaction runs somebody is queued, so MAIN is held as it should be.
LEMMA MovesGood ==
  ASSUME NEW w, NEW m, FlowMoves(w, m), IsMain(m), w.queue # <<>> \/ w.phase # "Idle"
  PROVE  FlowGood(w)
<1>1. w.queue # <<>>
  BY EmptyQueue DEF FlowMoves, PairQueued
<1>2. HoldsQueue(w)
  BY <1>1 DEF FlowMoves, HoldsMove, HoldsQueue, IsMain
<1> QED BY <1>2 DEF FlowMoves, FlowGood

\* ReleaseTradeHold of one account.
LEMMA ReleaseParts ==
  ASSUME NEW w, FlowType(w), NEW b \in Accounts
  PROVE  LET x == ReleaseTradeHold(w, b) IN
         /\ FlowType(x) /\ x.queue = w.queue /\ x.phase = w.phase
         /\ x.main = w.main /\ x.child = w.child /\ x.counter = w.counter
         /\ \A a \in Accounts : /\ x.held[a] = (a # b /\ w.held[a])
                                /\ x.ticket[a] = IF a = b THEN 0 ELSE w.ticket[a]
<1> DEFINE x == ReleaseTradeHold(w, b)
           h == [w.held EXCEPT ![b] = FALSE]
           t == [w.ticket EXCEPT ![b] = 0]
           g == [w.travel EXCEPT ![b] = "none"]
<1>1. x = FlowOf(h, t, g, w.queue, w.phase, w.main, w.child, w.counter)
  BY HoldIsReleased DEF FlowType
<1>2. /\ h \in [Accounts -> BOOLEAN] /\ t \in [Accounts -> 0 .. MaxTickets]
      /\ g \in [Accounts -> {"none", "going", "arrived", "ready"}]
  BY CoordinatorAssumption DEF FlowType
<1>3. \A a \in Accounts : /\ h[a] = (a # b /\ w.held[a])
                          /\ t[a] = IF a = b THEN 0 ELSE w.ticket[a]
  BY DEF FlowType
<1> HIDE DEF x, h, t, g
<1>4. /\ IsFlow(x) /\ x.held = h /\ x.ticket = t /\ x.travel = g /\ x.queue = w.queue
      /\ x.phase = w.phase /\ x.main = w.main /\ x.child = w.child /\ x.counter = w.counter
  BY <1>1, FlowRead
<1>5. FlowType(x)
  BY <1>2, <1>4 DEF FlowType
<1> QED BY <1>3, <1>4, <1>5 DEF x

\* What FinishTrade leaves: the child is out of the queue and free, and so is MAIN if
\* nobody else is queued.
LEMMA FinishParts ==
  ASSUME NEW w, FlowType(w), w.main \in Accounts, w.child \in Accounts
  PROVE  LET x == FinishTrade(w) IN
         /\ FlowType(x) /\ x.phase = "Idle" /\ x.main = w.main /\ x.counter = w.counter
         /\ Shorter(x.queue, w.queue) /\ Elems(x.queue) = Elems(w.queue) \ {w.child}
         /\ \A a \in Accounts :
              LET gone == a = w.child \/ (x.queue = <<>> /\ a = w.main) IN
              /\ x.held[a] = (~gone /\ w.held[a])
              /\ x.ticket[a] = IF gone THEN 0 ELSE w.ticket[a]
<1> DEFINE q == Without(w.queue, {w.child})
           left == ReleaseTradeHold(w, w.child)
           done == [left EXCEPT !.queue = q]
           free == IF q = <<>> THEN ReleaseTradeHold(done, w.main) ELSE done
           x == [free EXCEPT !.phase = "Idle", !.child = None]
<1>1. FinishTrade(w) = x
  BY Zenon DEF FinishTrade
<1>2. Shorter(q, w.queue) /\ Elems(q) = Elems(w.queue) \ {w.child} /\ q \in Seq(Accounts)
  <2>1. w.queue \in Seq(Accounts)
    BY DEF FlowType
  <2> QED BY <2>1, WithoutErases DEF Shorter
<1>3. /\ FlowType(left) /\ IsFlow(left) /\ left.phase = w.phase
      /\ left.main = w.main /\ left.child = w.child /\ left.counter = w.counter
      /\ \A a \in Accounts : /\ left.held[a] = (a # w.child /\ w.held[a])
                             /\ left.ticket[a] = IF a = w.child THEN 0 ELSE w.ticket[a]
  BY ReleaseParts DEF FlowType
<1> HIDE DEF left, q
<1>4. done = FlowOf(left.held, left.ticket, left.travel, q, left.phase, left.main, left.child,
                    left.counter)
  BY <1>3, FlowWritten
<1> HIDE DEF done
<1>5. /\ IsFlow(done) /\ done.held = left.held /\ done.ticket = left.ticket
      /\ done.travel = left.travel
      /\ done.queue = q /\ done.phase = left.phase /\ done.main = left.main
      /\ done.child = left.child /\ done.counter = left.counter
  BY <1>4, FlowRead
<1>6. FlowType(done)
  BY <1>2, <1>3, <1>5 DEF FlowType
<1>7. /\ FlowType(free) /\ IsFlow(free) /\ free.queue = q
      /\ free.main = w.main /\ free.counter = w.counter
      /\ \A a \in Accounts :
           LET gone == a = w.child \/ (q = <<>> /\ a = w.main) IN
           /\ free.held[a] = (~gone /\ w.held[a])
           /\ free.ticket[a] = IF gone THEN 0 ELSE w.ticket[a]
  <2>1. CASE q = <<>>
    <3>1. free = ReleaseTradeHold(done, w.main)
      BY <2>1
    <3>2. /\ FlowType(free) /\ IsFlow(free) /\ free.queue = done.queue
          /\ free.main = done.main /\ free.counter = done.counter
          /\ \A a \in Accounts : /\ free.held[a] = (a # w.main /\ done.held[a])
                                 /\ free.ticket[a] = IF a = w.main THEN 0 ELSE done.ticket[a]
      <4>1. IsFlow(free)
        BY <1>5, <3>1, HoldReleased
      <4> HIDE DEF free
      <4> QED BY <1>6, <3>1, <4>1, ReleaseParts, SMTT(30)
    <3> HIDE DEF free
    <3>3. ASSUME NEW a \in Accounts
          PROVE  LET gone == a = w.child \/ (q = <<>> /\ a = w.main) IN
                 /\ free.held[a] = (~gone /\ w.held[a])
                 /\ free.ticket[a] = IF gone THEN 0 ELSE w.ticket[a]
      <4>1. /\ free.held[a] = (a # w.main /\ left.held[a])
            /\ free.ticket[a] = IF a = w.main THEN 0 ELSE left.ticket[a]
        BY <1>5, <3>2
      <4>2. /\ left.held[a] = (a # w.child /\ w.held[a])
            /\ left.ticket[a] = IF a = w.child THEN 0 ELSE w.ticket[a]
        BY <1>3
      <4> QED BY <2>1, <4>1, <4>2, Zenon
    <3> QED BY <1>3, <1>5, <3>2, <3>3
  <2>2. CASE q # <<>>
    <3>1. free = done
      BY <2>2
    <3> HIDE DEF free
    <3> QED BY <1>3, <1>5, <1>6, <2>2, <3>1
  <2> QED BY <2>1, <2>2
<1> HIDE DEF free
<1>8. x = FlowOf(free.held, free.ticket, free.travel, free.queue, "Idle", free.main, None,
                 free.counter)
  BY <1>7, IdleWrites, Zenon
<1> HIDE DEF x
<1>9. /\ IsFlow(x) /\ x.held = free.held /\ x.ticket = free.ticket /\ x.travel = free.travel
      /\ x.queue = q /\ x.phase = "Idle" /\ x.main = w.main /\ x.child = None
      /\ x.counter = w.counter
  BY <1>7, <1>8, FlowRead
<1>10. FlowType(x)
  BY <1>7, <1>9 DEF FlowType
<1> QED BY <1>1, <1>2, <1>7, <1>9, <1>10

\* Who is queued after a part of the tick was queued before, with the same ticket.
KeepsLine(w, x) == \A a \in Elems(x.queue) : a \in Elems(w.queue) /\ x.ticket[a] = w.ticket[a]

\* FinishTrade leaves the flow in good order.
LEMMA FinishIsGood ==
  ASSUME NEW w, NEW m, FlowMoves(w, m), IsMain(m), w.phase = "Sequence"
  PROVE  FlowGood(FinishTrade(w)) /\ KeepsLine(w, FinishTrade(w))
<1> DEFINE x == FinishTrade(w)
           gone(a) == a = w.child \/ (x.queue = <<>> /\ a = w.main)
<1>1. /\ FlowType(w) /\ w.main = m /\ w.main \in Accounts /\ w.main # w.child
      /\ w.child \in Elems(w.queue)
      /\ \A a \in Elems(w.queue) : a \in Accounts
  BY DEF FlowMoves, PairQueued, IsMain, FlowType, Elems
<1>2. /\ FlowType(x) /\ x.phase = "Idle" /\ x.main = w.main /\ x.counter = w.counter
      /\ Shorter(x.queue, w.queue) /\ Elems(x.queue) = Elems(w.queue) \ {w.child}
      /\ \A a \in Accounts : /\ x.held[a] = (~gone(a) /\ w.held[a])
                             /\ x.ticket[a] = IF gone(a) THEN 0 ELSE w.ticket[a]
  BY <1>1, FinishParts
<1> HIDE DEF x
<1>3. x.queue = <<>> <=> Elems(x.queue) = {}
  BY <1>2, EmptyQueue DEF FlowType
<1>4. Ordered(x)
  <2>1. InLine(x.queue, x.ticket)
    <3>1. InLine(w.queue, w.ticket)
      BY DEF FlowMoves, Ordered
    <3>2. \A a \in Elems(w.queue) : x.ticket[a] = w.ticket[a] \/ x.ticket[a] = 0
      BY <1>1, <1>2
    <3> QED BY <1>2, <3>1, <3>2, LineShortens
  <2>2. Len(x.queue) <= MaxQueued
    <3>1. w.queue \in Seq(Accounts) /\ x.queue \in Seq(Accounts) /\ Len(w.queue) <= MaxQueued
          /\ Len(x.queue) <= Len(w.queue)
      BY <1>2 DEF FlowMoves, Ordered, FlowType, Shorter
    <3> QED BY <3>1, CoordinatorAssumption
  <2>3. ASSUME NEW a \in Accounts
        PROVE  x.ticket[a] <= x.counter
    <3>1. w.ticket[a] <= w.counter /\ w.counter \in Nat
      BY CoordinatorAssumption DEF FlowMoves, Ordered, FlowType
    <3>2. x.ticket[a] = w.ticket[a] \/ x.ticket[a] = 0
      BY <1>2
    <3> QED BY <1>2, <3>1, <3>2
  <2> QED BY <2>1, <2>2, <2>3 DEF Ordered
<1>5. PairQueued(x) /\ ConsOnly(x)
  BY <1>2 DEF FlowMoves, PairQueued, ConsOnly
<1>6. HoldsQueue(x)
  <2> SUFFICES ASSUME ~reassigned, NEW a \in Accounts
               PROVE  x.held[a] <=> a \in Elems(x.queue) \/ (a = m /\ x.queue # <<>>)
    BY DEF HoldsQueue, IsMain
  <2>1. w.queue # <<>>
    BY <1>1, EmptyQueue DEF FlowType
  <2>2. w.held[a] <=> a \in Elems(w.queue) \/ a = m
    BY <2>1 DEF FlowMoves, HoldsMove, IsMain, ConsOnly
  <2>3. x.held[a] <=> ~gone(a) /\ w.held[a]
    BY <1>2
  <2> QED BY <1>1, <1>2, <1>3, <2>2, <2>3
<1>7. KeepsLine(w, x)
  BY <1>1, <1>2, <1>3 DEF KeepsLine
<1> QED BY <1>2, <1>4, <1>5, <1>6, <1>7 DEF FlowGood, x

\* The first account leaves a queue in which no account is a CON any more.
LEMMA TailIsGood ==
  ASSUME NEW w, NEW m, FlowMoves(w, m), IsMain(m), w.phase = "Idle", w.queue # <<>>,
         \A a \in Elems(w.queue) : ~IsCon(a)
  PROVE  LET x == [w EXCEPT !.queue = Tail(w.queue)] IN FlowGood(x) /\ KeepsLine(w, x)
<1> DEFINE q == w.queue
           r == Tail(w.queue)
           x == [w EXCEPT !.queue = r]
<1>1. FlowType(w) /\ IsFlow(w) /\ q \in Seq(Accounts) /\ q # <<>> /\ Elems(q) # {}
  BY EmptyQueue DEF FlowMoves, FlowType
<1>2. /\ r \in Seq(Accounts) /\ Len(r) \in Nat /\ Len(q) = Len(r) + 1
      /\ DOMAIN r = 1 .. Len(r) /\ DOMAIN q = 1 .. Len(q)
      /\ \A i \in 1 .. Len(r) : r[i] = q[i + 1]
  <2> HIDE DEF q
  <2>1. Tail(q) \in Seq(Accounts) /\ Len(q) = Len(Tail(q)) + 1
    BY <1>1
  <2>2. \A i \in 1 .. Len(Tail(q)) : Tail(q)[i] = q[i + 1]
    BY <1>1
  <2> QED BY <1>1, <2>1, <2>2 DEF q
<1> HIDE DEF q, r, x
<1>3. Shorter(r, q)
  <2>1. ASSUME NEW i \in 1 .. Len(r)
        PROVE  r[i] \in Elems(q)
    <3>1. i + 1 \in DOMAIN q
      BY <1>2
    <3> QED BY <1>2, <3>1 DEF Elems
  <2>2. ASSUME NEW i \in 1 .. Len(r), NEW j \in 1 .. Len(r), i < j
        PROVE  \E a, b \in 1 .. Len(q) : a < b /\ r[i] = q[a] /\ r[j] = q[b]
    <3>1. /\ i + 1 \in 1 .. Len(q) /\ j + 1 \in 1 .. Len(q) /\ i + 1 < j + 1
          /\ r[i] = q[i + 1] /\ r[j] = q[j + 1]
      BY <1>2, <2>2
    <3> QED BY <3>1
  <2> QED BY <1>2, <2>1, <2>2 DEF Shorter
<1>4. Elems(r) \subseteq Elems(q)
  BY <1>2, <1>3 DEF Shorter, Elems
<1>5. x = FlowOf(w.held, w.ticket, w.travel, r, w.phase, w.main, w.child, w.counter)
  <2>1. [w EXCEPT !.queue = r] =
          FlowOf(w.held, w.ticket, w.travel, r, w.phase, w.main, w.child, w.counter)
    BY <1>1, FlowWritten, Zenon
  <2> QED BY <2>1, Zenon DEF x
<1>6. /\ IsFlow(x) /\ x.held = w.held /\ x.ticket = w.ticket /\ x.travel = w.travel
      /\ x.queue = r
      /\ x.phase = w.phase /\ x.main = w.main /\ x.child = w.child /\ x.counter = w.counter
  BY <1>5, FlowRead
<1>7. FlowType(x)
  BY <1>1, <1>2, <1>6 DEF FlowType
<1>8. Ordered(x)
  <2>1. InLine(q, w.ticket) /\ Len(q) <= MaxQueued
    BY DEF FlowMoves, Ordered, q
  <2>2. InLine(r, w.ticket)
    BY <1>3, <2>1, LineShortens
  <2>3. Len(r) <= MaxQueued
    BY <1>2, <2>1, CoordinatorAssumption
  <2> QED BY <1>6, <2>2, <2>3 DEF FlowMoves, Ordered
<1>9. reassigned
  BY <1>1 DEF FlowMoves, ConsOnly, q
<1>10. PairQueued(x) /\ ConsOnly(x) /\ HoldsQueue(x)
  BY <1>6, <1>9 DEF PairQueued, ConsOnly, HoldsQueue
<1>11. KeepsLine(w, x)
  BY <1>4, <1>6 DEF KeepsLine, q
<1> QED BY <1>7, <1>8, <1>10, <1>11 DEF FlowGood, x, r

\* A transaction begins with MAIN and the child to serve, or goes on to the clicks.
LEMMA PairIsGood ==
  ASSUME NEW w, NEW m, FlowMoves(w, m), IsMain(m), w.queue # <<>>,
         NEW p \in {"Rendezvous", "Sequence"}, NEW c \in Elems(w.queue), c # m
  PROVE  LET x == [w EXCEPT !.phase = p, !.main = m, !.child = c] IN
         FlowGood(x) /\ KeepsLine(w, x)
<1> DEFINE x == [w EXCEPT !.phase = p, !.main = m, !.child = c]
<1>1. FlowType(w) /\ IsFlow(w) /\ m \in Accounts /\ c \in Accounts /\ m # None
  BY DEF FlowMoves, FlowType, Elems, IsMain
<1>2. x = FlowOf(w.held, w.ticket, w.travel, w.queue, p, m, c, w.counter)
  BY <1>1, PairWrites, Zenon
<1> HIDE DEF x
<1>3. /\ IsFlow(x) /\ x.held = w.held /\ x.ticket = w.ticket /\ x.travel = w.travel
      /\ x.queue = w.queue /\ x.phase = p /\ x.main = m /\ x.child = c
      /\ x.counter = w.counter
  BY <1>2, FlowRead
<1>4. FlowType(x) /\ PairQueued(x)
  BY <1>1, <1>3 DEF FlowType, PairQueued
<1>5. Ordered(x) /\ ConsOnly(x) /\ HoldsMove(x, m)
  BY <1>3 DEF FlowMoves, Ordered, ConsOnly, HoldsMove
<1>6. FlowGood(x)
  BY <1>3, <1>4, <1>5, MovesGood DEF FlowMoves
<1>7. KeepsLine(w, x)
  BY <1>3 DEF KeepsLine
<1> QED BY <1>6, <1>7 DEF x

\* MAIN is released when nobody is queued, unless the tick misses the sequence.
LEMMA MainIsReleased ==
  ASSUME NEW w, NEW m, FlowMoves(w, m), IsMain(m), w.phase = "Idle", w.queue = <<>>,
         NEW v, NEW full, SequenceEdited
  PROVE  LET x == IF w.held[m] /\ ~SequenceMissing(v, full) THEN ReleaseTradeHold(w, m) ELSE w IN
         FlowGood(x) /\ x.queue = <<>>
<1>1. FlowType(w) /\ m \in Accounts /\ Ordered(w) /\ Elems(w.queue) = {}
  BY EmptyQueue DEF FlowMoves, IsMain
<1>2. ConsOnly(w) /\ PairQueued(w) /\ HoldsMove(w, m)
  BY DEF FlowMoves
<1>3. CASE w.held[m] /\ ~SequenceMissing(v, full)
  <2> DEFINE x == ReleaseTradeHold(w, m)
  <2>1. /\ FlowType(x) /\ x.queue = w.queue /\ x.phase = w.phase /\ x.counter = w.counter
        /\ \A a \in Accounts : /\ x.held[a] = (a # m /\ w.held[a])
                               /\ x.ticket[a] = IF a = m THEN 0 ELSE w.ticket[a]
    BY <1>1, ReleaseParts
  <2> HIDE DEF x
  <2>2. Ordered(x)
    <3>1. ASSUME NEW a \in Accounts
          PROVE  x.ticket[a] <= x.counter
      <4>1. w.ticket[a] <= w.counter /\ w.counter \in Nat
        BY <1>1, CoordinatorAssumption DEF Ordered, FlowType
      <4> QED BY <2>1, <4>1
    <3> QED BY <1>1, <2>1, <3>1, EmptyQueue DEF Ordered
  <2>3. PairQueued(x) /\ ConsOnly(x)
    BY <1>2, <2>1 DEF PairQueued, ConsOnly
  <2>4. HoldsQueue(x)
    BY <1>1, <1>2, <2>1 DEF HoldsQueue, HoldsMove
  <2> QED BY <1>3, <2>1, <2>2, <2>3, <2>4 DEF FlowGood, x
<1>4. CASE ~w.held[m] \/ SequenceMissing(v, full)
  <2>1. HoldsQueue(w)
    <3>1. w.held[m] => edited
      BY <1>4 DEF SequenceMissing, SequenceEdited
    <3> QED BY <1>1, <1>2, <3>1 DEF HoldsQueue, HoldsMove, IsMain
  <2> QED BY <1>1, <1>2, <1>4, <2>1 DEF FlowGood
<1> QED BY <1>3, <1>4

\* Every outcome of a tick leaves the flow in good order.
LEMMA AdvanceIsGood ==
  ASSUME NEW w, NEW m, FlowMoves(w, m), IsMain(m), SequenceEdited, NEW v, NEW full,
         NEW x \in AdvancePhase(w, v, full, m)
  PROVE  FlowGood(x) /\ KeepsLine(w, x)
<1>1. FlowType(w) /\ IsFlow(w) /\ Ordered(w) /\ w.phase \in {"Idle", "Rendezvous", "Sequence"}
  BY DEF FlowMoves, FlowType
<1>2. FlowGood(AbortTrade(w)) /\ KeepsLine(w, AbortTrade(w))
  BY <1>1, AbortIsGood, EmptyQueue DEF KeepsLine
<1>3. KeepsLine(w, w)
  BY DEF KeepsLine
<1>4. w.queue # <<>> \/ w.phase # "Idle" => FlowGood(w)
  BY MovesGood
<1>5. w.phase # "Idle" => /\ w.queue # <<>> /\ w.main = m /\ w.child \in Elems(w.queue)
                          /\ w.child # m
  BY EmptyQueue DEF FlowMoves, PairQueued
<1>6. CASE w.phase = "Rendezvous"
  <2> DEFINE y == [w EXCEPT !.phase = "Sequence"]
  <2>1. x = AbortTrade(w) \/ x = w \/ x = y
    BY <1>6 DEF AdvancePhase, RendezvousStep
  <2>2. y = FlowOf(w.held, w.ticket, w.travel, w.queue, "Sequence", w.main, w.child, w.counter)
    BY <1>1, FlowWritten, Zenon
  <2> HIDE DEF y
  <2>3. /\ IsFlow(y) /\ y.held = w.held /\ y.ticket = w.ticket /\ y.travel = w.travel
        /\ y.queue = w.queue /\ y.phase = "Sequence" /\ y.main = w.main /\ y.child = w.child
        /\ y.counter = w.counter
    BY <2>2, FlowRead
  <2>4. FlowType(y) /\ Ordered(y) /\ ConsOnly(y)
    BY <1>1, <2>3 DEF FlowType, Ordered, ConsOnly, FlowMoves
  <2>5. PairQueued(y) /\ HoldsMove(y, m) /\ (y.phase # "Idle" => y.main = m)
    BY <1>6, <2>3 DEF FlowMoves, PairQueued, HoldsMove
  <2>6. FlowGood(y) /\ KeepsLine(w, y)
    BY <2>3, <2>4, <2>5, MovesGood DEF KeepsLine, FlowMoves
  <2> QED BY <1>2, <1>3, <1>4, <1>6, <2>1, <2>6
<1>7. CASE w.phase = "Sequence"
  <2>1. x = w \/ x = AbortTrade(w) \/ x = FinishTrade(w)
    BY <1>7 DEF AdvancePhase, SequenceOutcomes
  <2> QED BY <1>2, <1>3, <1>4, <1>7, <2>1, FinishIsGood
<1>8. CASE w.phase = "Idle" /\ w.queue = <<>>
  <2>1. x = IF w.held[m] /\ ~SequenceMissing(v, full) THEN ReleaseTradeHold(w, m) ELSE w
    BY <1>8 DEF AdvancePhase, IdleOutcomes
  <2>2. FlowGood(x) /\ x.queue = <<>>
    BY <1>8, <2>1, MainIsReleased
  <2> QED BY <2>2, EmptyQueue DEF KeepsLine
<1>9. CASE w.phase = "Idle" /\ w.queue # <<>>
  <2> DEFINE e == Oldest(w.queue, w.ticket, role)
             r == [w EXCEPT !.queue = Tail(w.queue)]
             y == [w EXCEPT !.phase = "Rendezvous", !.main = m, !.child = e]
  <2>1. x = w \/ x = (IF e = None THEN r ELSE y)
    BY <1>9, EarliestIsOldest DEF AdvancePhase, IdleOutcomes
  <2>2. e = None => \A a \in Elems(w.queue) : ~IsCon(a)
    BY <1>1, OldestIsQueued
  <2>3. e # None => e \in Elems(w.queue) /\ e # m
    BY <1>1, OldestIsQueued DEF IsMain
  <2>4. e = None => FlowGood(r) /\ KeepsLine(w, r)
    BY <1>9, <2>2, TailIsGood
  <2>5. e # None => FlowGood(y) /\ KeepsLine(w, y)
    <3> HIDE DEF e
    <3> QED BY <1>9, <2>3, PairIsGood
  <2> HIDE DEF e, r, y
  <2> QED BY <1>3, <1>4, <1>9, <2>1, <2>4, <2>5
<1> QED BY <1>1, <1>6, <1>7, <1>8, <1>9

----------------------------------------------------------------------------
(* The inductive invariant, and the tick *)

\* Every ticket has been issued.
TicketsIssued == \A a \in Accounts : ticket[a] <= counter

\* As long as no role is changed, everybody in the queue is a CON.
QueuedAreCons == ~reassigned => \A a \in Waiting : IsCon(a)

\* The types of the flow, and of the other variables.
FlowTypes ==
  /\ held \in [Accounts -> BOOLEAN] /\ ticket \in [Accounts -> 0 .. MaxTickets]
  /\ travel \in [Accounts -> {"none", "going", "arrived", "ready"}]
  /\ queue \in Seq(Accounts) /\ phase \in {"Idle", "Rendezvous", "Sequence"}
  /\ main \in Accounts \cup {None} /\ child \in Accounts \cup {None}
  /\ counter \in 0 .. MaxTickets
OtherTypes ==
  /\ auto \in [Accounts -> {"on", "off", "closed"}] /\ role \in [Accounts -> 0 .. Slots + 1]
  /\ latched \in [Accounts -> BOOLEAN] /\ deadSeen \in [Accounts -> BOOLEAN]
  /\ enabled \in BOOLEAN /\ scriptReady \in BOOLEAN /\ calm \in BOOLEAN
  /\ user \in 0 .. MaxUser /\ reassigned \in BOOLEAN /\ edited \in BOOLEAN

QueueInv ==
  /\ QueueOrder /\ TicketsIssued /\ ActiveIsQueued /\ QueuedAreCons /\ HoldMatchesQueue

\* The invariant that every step keeps.
CoordinatorInv == OtherTypes /\ FlowTypes /\ QueueInv /\ SequenceEdited

\* The invariant makes the flow good.
LEMMA InvIsGood ==
  ASSUME CoordinatorInv
  PROVE  FlowGood(Flow)
<1> DEFINE w == Flow
<1>1. /\ w.held = held /\ w.ticket = ticket /\ w.travel = travel /\ w.queue = queue
      /\ w.phase = phase /\ w.main = main /\ w.child = child /\ w.counter = counter
      /\ IsFlow(w)
  BY DEF Flow, IsFlow
<1> HIDE DEF w
<1>2. FlowType(w)
  BY <1>1 DEF FlowType, CoordinatorInv, FlowTypes
<1>3. Waiting = Elems(queue)
  BY DEF Waiting, Elems
<1>4. Ordered(w)
  BY <1>1 DEF Ordered, InLine, CoordinatorInv, QueueInv, QueueOrder, TicketsIssued
<1>5. PairQueued(w)
  BY <1>1, <1>3 DEF PairQueued, CoordinatorInv, QueueInv, ActiveIsQueued
<1>6. ConsOnly(w)
  BY <1>1, <1>3 DEF ConsOnly, CoordinatorInv, QueueInv, QueuedAreCons
<1>7. HoldsQueue(w)
  BY <1>1, <1>3 DEF HoldsQueue, CoordinatorInv, QueueInv, HoldMatchesQueue
<1> QED BY <1>2, <1>4, <1>5, <1>6, <1>7 DEF FlowGood, w

\* MAIN, and who is a CON, depend on the roles only.
LEMMA SameRoles ==
  ASSUME role' = role
  PROVE  TradeMain' = TradeMain /\ \A a : IsCon(a)' <=> IsCon(a)
<1>1. \A a : IsCon(a)' <=> IsCon(a)
  BY DEF IsCon
<1>2. WithRole(1)' = WithRole(1)
  BY DEF WithRole
<1>3. TradeMain' = TradeMain
  BY <1>2, Zenon DEF TradeMain, AccountByTradeRole
<1> QED BY <1>1, <1>3

\* A good flow that becomes the state keeps the invariant, if no role changes.
LEMMA BecomesGood ==
  ASSUME NEW x, FlowGood(x), Becomes(x), role' = role, reassigned' = reassigned,
         edited => edited'
  PROVE  FlowTypes' /\ QueueInv'
<1>1. /\ held' = x.held /\ ticket' = x.ticket /\ travel' = x.travel /\ queue' = x.queue
      /\ phase' = x.phase /\ main' = x.main /\ child' = x.child /\ counter' = x.counter
  BY DEF Becomes
<1>2. FlowTypes'
  BY <1>1 DEF FlowTypes, FlowGood, FlowType
<1>3. Waiting' = Elems(x.queue)
  BY <1>1 DEF Waiting, Elems
<1>4. QueueOrder' /\ TicketsIssued'
  BY <1>1 DEF QueueOrder, TicketsIssued, FlowGood, Ordered, InLine
<1>5. ActiveIsQueued'
  BY <1>1, <1>3 DEF ActiveIsQueued, FlowGood, PairQueued
<1>6. QueuedAreCons'
  BY <1>3, SameRoles DEF QueuedAreCons, FlowGood, ConsOnly, IsCon
<1>7. HoldMatchesQueue'
  BY <1>1, <1>3, SameRoles DEF HoldMatchesQueue, FlowGood, HoldsQueue
<1> QED BY <1>2, <1>4, <1>5, <1>6, <1>7 DEF QueueInv

\* What a tick does to those who are queued before and after it, and to the
\* length of the queue while the clicks run.
KeepsTickets(w, x) ==
  /\ \A a \in Elems(w.queue) \cap Elems(x.queue) : x.ticket[a] = w.ticket[a]
  /\ w.phase = "Sequence" /\ x.phase = "Sequence" => Len(x.queue) <= Len(w.queue)

\* The parts of a tick in their order.
LEMMA CoordinateIsGood ==
  ASSUME role \in [Accounts -> 0 .. Slots + 1], SequenceEdited, NEW w, FlowGood(w),
         NEW m, IsMain(m), w.phase # "Idle" => w.main = m, NEW v, NEW l, NEW full, full \subseteq Accounts,
         NEW x \in Coordinate(w, v, l, full, m)
  PROVE  FlowGood(x) /\ KeepsTickets(w, x)
<1> DEFINE purged == PurgeQueue(w, v, l)
           filled == AdmitFullChildren(purged, v, full, m)
           moved == TravelAll(filled, v, m)
           locked == RelockRendezvous(moved)
           out == {a \in Queued(w) : ~StaysQueued(w, v, l, a)}
<1>1. x \in AdvancePhase(locked, v, full, m)
  BY DEF Coordinate
<1>2. FlowMoves(w, m) /\ FlowType(w)
  BY GoodMoves DEF FlowMoves
<1>3. /\ FlowMoves(purged, m) /\ purged.phase = w.phase
      /\ Shorter(purged.queue, w.queue) /\ Elems(purged.queue) = Elems(w.queue) \ out
      /\ \A a \in Accounts : a \notin out => purged.ticket[a] = w.ticket[a]
  BY <1>2, PurgeMoves, PurgeParts
<1>4. \A a \in out : a \notin CanJoin(v, full)
  BY DEF CanJoin, TradeStateReady, Placed, StaysQueued
<1>5. \A a \in Elems(w.queue) : a \in Accounts
  BY <1>2 DEF FlowType, Elems
<1> HIDE DEF purged, out
<1>6. /\ FlowMoves(filled, m)
      /\ purged.phase = "Sequence" => filled = purged
      /\ Elems(filled.queue) \subseteq Elems(purged.queue) \cup CanJoin(v, full)
      /\ \A a \in Elems(purged.queue) : filled.ticket[a] = purged.ticket[a]
  BY <1>3, AdmitMoves
<1> HIDE DEF filled
<1>7. FlowMoves(moved, m) /\ moved.queue = filled.queue /\ moved.ticket = filled.ticket
  BY <1>6, TravelMoves
<1> HIDE DEF moved
<1>8. FlowMoves(locked, m) /\ locked.queue = moved.queue /\ locked.ticket = moved.ticket
  BY <1>7, RelockMoves
<1> HIDE DEF locked
<1>9. FlowGood(x) /\ KeepsLine(locked, x)
  BY <1>1, <1>8, AdvanceIsGood
<1>10. ASSUME NEW a \in Elems(w.queue) \cap Elems(x.queue)
       PROVE  x.ticket[a] = w.ticket[a]
  <2>1. a \in Elems(filled.queue) /\ x.ticket[a] = filled.ticket[a]
    BY <1>7, <1>8, <1>9 DEF KeepsLine
  <2>2. a \in Elems(purged.queue) /\ a \notin out
    BY <1>3, <1>4, <1>6, <2>1
  <2>3. a \in Accounts
    BY <1>5
  <2> QED BY <1>3, <1>6, <2>1, <2>2, <2>3
<1>11. ASSUME w.phase = "Sequence", x.phase = "Sequence"
       PROVE  Len(x.queue) <= Len(w.queue)
  <2>1. filled = purged
    BY <1>3, <1>6, <1>11
  <2>2. IsFlow(purged) /\ IsFlow(moved)
    BY <1>3, <1>7 DEF FlowMoves, FlowType
  <2>3. moved.phase = "Sequence"
    BY <1>3, <1>11, <2>1, <2>2, TravelKeepsTrade DEF SameTrade, moved
  <2>4. locked.phase = "Sequence"
    BY <2>2, <2>3, RelockServesOldest DEF locked
  <2>5. x = locked
    <3>1. IsFlow(locked)
      BY <1>8 DEF FlowMoves, FlowType
    <3> QED BY <1>1, <1>11, <2>4, <3>1, AdvanceKeepsPair
  <2> QED BY <1>3, <1>7, <1>8, <2>1, <2>5 DEF Shorter
<1> QED BY <1>9, <1>10, <1>11 DEF KeepsTickets

\* The account that TradeMain finds is MAIN.
LEMMA MainIsFound ==
  ASSUME TradeMain # None
  PROVE  IsMain(TradeMain)
<1>1. \E a \in Accounts \cup {None} : IF WithRole(1) = {} THEN a = None ELSE a \in WithRole(1)
  BY DEF WithRole
<1>2. /\ TradeMain \in Accounts \cup {None}
      /\ IF WithRole(1) = {} THEN TradeMain = None ELSE TradeMain \in WithRole(1)
  BY <1>1, Zenon DEF TradeMain, AccountByTradeRole
<1>3. TradeMain \in Accounts /\ role[TradeMain] = 1
  BY <1>2 DEF WithRole
<1> QED BY <1>3, CoordinatorAssumption DEF IsMain, IsCon

\* The barriers and the parts: every tick keeps a flow good.
LEMMA TickIsGood ==
  ASSUME role \in [Accounts -> 0 .. Slots + 1], SequenceEdited, NEW w, FlowGood(w),
         NEW v, NEW l, NEW full, full \subseteq Accounts,
         NEW x \in TickTradeCoordinator(w, v, l, full, TradeMain)
  PROVE  FlowGood(x) /\ KeepsTickets(w, x)
<1> DEFINE m == TradeMain
<1>1. FlowType(w) /\ Ordered(w)
  BY DEF FlowGood
<1>2. FlowGood(AbortTrade(w)) /\ KeepsTickets(w, AbortTrade(w))
  <2>1. AbortTrade(w).phase = "Idle"
    BY <1>1, AbortIsIdle DEF FlowType
  <2> QED BY <1>1, <2>1, AbortIsGood, EmptyQueue DEF KeepsTickets
<1>3. KeepsTickets(w, w)
  BY <1>1 DEF KeepsTickets, FlowType
<1>4. x = AbortIfStarted(w) => x = w \/ x = AbortTrade(w)
  BY DEF AbortIfStarted
<1>5. \/ x = w \/ x = AbortTrade(w) \/ x = AbortIfStarted(w)
      \/ /\ m # None /\ (w.phase # "Idle" => w.main = m)
         /\ x \in Coordinate(w, v, l, full, m)
  <2> HIDE DEF m
  <2> QED BY DEF TickTradeCoordinator, m
<1> QED BY <1>2, <1>3, <1>4, <1>5, CoordinateIsGood, MainIsFound

----------------------------------------------------------------------------
(* The steps of the system *)

\* What a tick consists of.
LEMMA TickOpened ==
  ASSUME Tick
  PROVE  \E view, served, l, full :
           /\ full \in SUBSET Accounts
           /\ latched' = [a \in Accounts |-> IF a \in served THEN view[a] = "dead" ELSE latched[a]]
           /\ \E x \in TickTradeCoordinator(HandleDeath(Flow, served), view, l, full \cup Waiting,
                                            TradeMain) : Becomes(x)
<1>1. PICK m \in {TradeMain}, view \in SeenViews :
        \E served \in SUBSET LifeChanges(view) :
          /\ calm => served = LifeChanges(view)
          /\ \E l \in {[a \in Accounts |-> IF a \in served THEN view[a] = "dead" ELSE latched[a]]},
                w \in {HandleDeath(Flow, served)},
                full \in SUBSET {a \in Accounts : IsCon(a) /\ ~Staged(a) /\ view[a] = "far"} :
                /\ latched' = l
                /\ \E outcomes \in {TickTradeCoordinator(w, view, l, full \cup Waiting, m)} :
                     \E x \in outcomes : (calm => Progresses(w, outcomes, x)) /\ Becomes(x)
  BY Zenon DEF Tick
<1>2. PICK served \in SUBSET LifeChanges(view) :
        \E l \in {[a \in Accounts |-> IF a \in served THEN view[a] = "dead" ELSE latched[a]]},
           w \in {HandleDeath(Flow, served)},
           full \in SUBSET {a \in Accounts : IsCon(a) /\ ~Staged(a) /\ view[a] = "far"} :
           /\ latched' = l
           /\ \E outcomes \in {TickTradeCoordinator(w, view, l, full \cup Waiting, m)} :
                \E x \in outcomes : (calm => Progresses(w, outcomes, x)) /\ Becomes(x)
  BY <1>1, Zenon
<1>3. PICK l \in {[a \in Accounts |-> IF a \in served THEN view[a] = "dead" ELSE latched[a]]},
           w \in {HandleDeath(Flow, served)},
           full \in SUBSET {a \in Accounts : IsCon(a) /\ ~Staged(a) /\ view[a] = "far"} :
        /\ latched' = l
        /\ \E outcomes \in {TickTradeCoordinator(w, view, l, full \cup Waiting, m)} :
             \E x \in outcomes : Becomes(x)
  BY <1>2, Zenon
<1>4. full \in SUBSET Accounts
  OBVIOUS
<1>5. latched' = [a \in Accounts |-> IF a \in served THEN view[a] = "dead" ELSE latched[a]]
  BY <1>3
<1>6. \E x \in TickTradeCoordinator(HandleDeath(Flow, served), view, l, full \cup Waiting,
                                    TradeMain) : Becomes(x)
  BY <1>1, <1>3, Zenon
<1> QED BY <1>4, <1>5, <1>6, Zenon

\* The death latches stay Boolean.
LEMMA TickLatches ==
  ASSUME Tick, latched \in [Accounts -> BOOLEAN]
  PROVE  latched' \in [Accounts -> BOOLEAN]
<1>1. PICK view, served, l, full :
        /\ full \in SUBSET Accounts
        /\ latched' = [a \in Accounts |-> IF a \in served THEN view[a] = "dead" ELSE latched[a]]
        /\ \E x \in TickTradeCoordinator(HandleDeath(Flow, served), view, l, full \cup Waiting,
                                         TradeMain) : Becomes(x)
  BY TickOpened, Zenon
<1> QED BY <1>1

\* A tick in other words: the coordinator works on a good flow, in which only
\* accounts that are not held have lost their tickets.
LEMMA TickOfGoodFlow ==
  ASSUME CoordinatorInv, Tick
  PROVE  /\ role' = role /\ reassigned' = reassigned /\ edited' = edited
         /\ \E w, view, l, full :
              /\ FlowGood(w) /\ SameQueue(Flow, w) /\ full \subseteq Accounts
              /\ \A a \in Accounts : held[a] => w.ticket[a] = ticket[a]
              /\ \E x \in TickTradeCoordinator(w, view, l, full, TradeMain) : Becomes(x)
<1>1. FlowGood(Flow) /\ FlowType(Flow) /\ Flow.held = held /\ Flow.ticket = ticket
  BY InvIsGood DEF FlowGood, Flow
<1>2. ASSUME NEW served
      PROVE  LET w == HandleDeath(Flow, served) IN
             /\ FlowGood(w) /\ SameQueue(Flow, w)
             /\ \A a \in Accounts : held[a] => w.ticket[a] = ticket[a]
  <2> DEFINE w == HandleDeath(Flow, served)
  <2>1. /\ FlowType(w) /\ SameQueue(Flow, w)
        /\ \A a \in Accounts : w.ticket[a] = ticket[a] \/ (w.ticket[a] = 0 /\ ~held[a])
    BY <1>1, DeathParts
  <2> HIDE DEF w
  <2>2. FlowGood(w)
    BY <1>1, <2>1, ForgettingIsGood
  <2> QED BY <2>1, <2>2 DEF w
<1>3. Waiting \subseteq Accounts
  BY DEF Waiting, CoordinatorInv, FlowTypes
<1>4. role' = role /\ reassigned' = reassigned /\ edited' = edited
  BY DEF Tick, userVars
<1>5. PICK view, served, l, full :
        /\ full \subseteq Accounts
        /\ \E x \in TickTradeCoordinator(HandleDeath(Flow, served), view, l, full \cup Waiting,
                                         TradeMain) : Becomes(x)
  BY TickOpened
<1>6. full \cup Waiting \subseteq Accounts
  BY <1>3, <1>5
<1> QED BY <1>2, <1>4, <1>5, <1>6

\* A tick keeps the queue in good order.
LEMMA TickKeepsQueue ==
  ASSUME CoordinatorInv, Tick
  PROVE  FlowTypes' /\ QueueInv'
<1>1. PICK w, view, l, full :
        /\ FlowGood(w) /\ full \subseteq Accounts
        /\ \E x \in TickTradeCoordinator(w, view, l, full, TradeMain) : Becomes(x)
  BY TickOfGoodFlow
<1>2. PICK x \in TickTradeCoordinator(w, view, l, full, TradeMain) : Becomes(x)
  BY <1>1
<1>3. role \in [Accounts -> 0 .. Slots + 1]
  BY DEF CoordinatorInv, OtherTypes
<1>4. FlowGood(x)
  BY <1>1, <1>2, <1>3, TickIsGood DEF CoordinatorInv
<1> QED BY <1>2, <1>4, BecomesGood, TickOfGoodFlow

\* An account is stopped, started or closed.
LEMMA AccountStepKeepsQueue ==
  ASSUME CoordinatorInv, NEW a \in Accounts, StopChecked(a) \/ StartChecked(a) \/ ClientCloses(a)
  PROVE  FlowTypes' /\ QueueInv'
<1> DEFINE w == ResetRuntime(Flow, a)
<1>1. FlowGood(Flow) /\ FlowType(Flow)
  BY InvIsGood DEF FlowGood
<1>2. /\ FlowType(w) /\ SameQueue(Flow, w)
      /\ \A b \in Accounts : w.ticket[b] = Flow.ticket[b] \/ w.ticket[b] = 0
  BY <1>1, ResetParts
<1> HIDE DEF w
<1>3. FlowGood(w)
  BY <1>1, <1>2, ForgettingIsGood
<1>4. FlowGood(AbortTrade(w))
  BY <1>3, AbortIsGood DEF FlowGood
<1>5. role' = role /\ reassigned' = reassigned /\ edited' = edited
  BY DEF StopChecked, StartChecked, ClientCloses
<1>6. CASE StopChecked(a)
  <2>1. Becomes(AbortTrade(w)) \/ Becomes(w)
    BY <1>6 DEF StopChecked, w
  <2> QED BY <1>3, <1>4, <1>5, <2>1, BecomesGood
<1>7. CASE StartChecked(a)
  <2>1. Becomes(w)
    BY <1>7 DEF StartChecked, w
  <2> QED BY <1>3, <1>5, <2>1, BecomesGood
<1>8. CASE ClientCloses(a)
  <2>1. Becomes(Flow)
    BY <1>8 DEF ClientCloses, flowVars, Becomes, Flow
  <2> QED BY <1>1, <1>5, <2>1, BecomesGood
<1> QED BY <1>6, <1>7, <1>8

\* Consolidation is switched on or off.
LEMMA ToggleKeepsQueue ==
  ASSUME CoordinatorInv, ToggleConsolidationMode
  PROVE  FlowTypes' /\ QueueInv'
<1> DEFINE w == IF phase # "Idle" THEN AbortTrade(Flow) ELSE Flow
<1>1. FlowGood(Flow) /\ FlowType(Flow) /\ IsFlow(Flow) /\ Flow.phase = phase
  BY InvIsGood DEF FlowGood, FlowType, Flow
<1>2. FlowGood(AbortTrade(Flow)) /\ AbortTrade(Flow).phase = "Idle"
  BY <1>1, AbortIsGood, AbortIsIdle DEF FlowGood
<1>3. FlowGood(w) /\ w.phase = "Idle"
  BY <1>1, <1>2
<1> HIDE DEF w
<1>4. FlowGood(ReleaseTradeHolds(w))
  BY <1>3, ReleaseAllIsGood DEF FlowGood
<1>5. Becomes(Flow) \/ Becomes(ReleaseTradeHolds(w))
  BY DEF ToggleConsolidationMode, w
<1>6. role' = role /\ reassigned' = reassigned /\ edited' = edited
  BY DEF ToggleConsolidationMode, accountVars
<1> QED BY <1>1, <1>4, <1>5, <1>6, BecomesGood

\* A role is given to an account and taken from the others.
LEMMA RoleKeepsQueue ==
  ASSUME CoordinatorInv, NEW a \in Accounts, NEW r \in 0 .. Slots + 1,
         ApplySelectedTradeRole(a, r)
  PROVE  FlowTypes' /\ QueueInv'
<1>1. /\ ticket' = ticket /\ travel' = travel /\ queue' = queue /\ phase' = phase
      /\ main' = main /\ child' = child /\ counter' = counter /\ reassigned' = TRUE
  BY DEF ApplySelectedTradeRole
<1>2. held' \in [Accounts -> BOOLEAN]
  BY DEF ApplySelectedTradeRole, CoordinatorInv, FlowTypes
<1>3. FlowTypes'
  BY <1>1, <1>2 DEF FlowTypes, CoordinatorInv
<1>4. Waiting' = Waiting
  BY <1>1 DEF Waiting
<1>5. QueueOrder' /\ TicketsIssued' /\ ActiveIsQueued'
  BY <1>1, <1>4 DEF CoordinatorInv, QueueInv, QueueOrder, TicketsIssued, ActiveIsQueued
<1>6. QueuedAreCons' /\ HoldMatchesQueue'
  BY <1>1 DEF QueuedAreCons, HoldMatchesQueue
<1> QED BY <1>3, <1>5, <1>6 DEF QueueInv

\* A scan begins with an empty queue, and no hold.
LEMMA ScanKeepsQueue ==
  ASSUME CoordinatorInv, ScanClients
  PROVE  FlowTypes' /\ QueueInv'
<1>1. /\ held' = [a \in Accounts |-> FALSE] /\ ticket' = [a \in Accounts |-> 0]
      /\ travel' = [a \in Accounts |-> "none"] /\ queue' = <<>> /\ phase' = "Idle"
      /\ main' = None /\ child' = None /\ counter' = counter /\ counter \in 0 .. MaxTickets
  BY DEF ScanClients, CoordinatorInv, FlowTypes
<1>2. Waiting' = {}
  BY <1>1, EmptyQueue DEF Waiting, Elems
<1>3. FlowTypes'
  BY <1>1, EmptyQueue, CoordinatorAssumption DEF FlowTypes
<1>4. Len(queue') = 0
  BY <1>1, EmptyQueue
<1>5. QueueOrder' /\ TicketsIssued' /\ ActiveIsQueued'
  BY <1>1, <1>4, CoordinatorAssumption DEF QueueOrder, TicketsIssued, ActiveIsQueued
<1>6. QueuedAreCons' /\ HoldMatchesQueue'
  BY <1>1, <1>2 DEF QueuedAreCons, HoldMatchesQueue
<1> QED BY <1>3, <1>5, <1>6 DEF QueueInv

\* The types of the other variables, in every step.
LEMMA StepKeepsTypes ==
  ASSUME CoordinatorInv, [Next]_vars
  PROVE  OtherTypes'
<1> USE DEF CoordinatorInv, OtherTypes
<1>1. CASE Tick
  <2>1. /\ auto' = auto /\ role' = role /\ enabled' = enabled /\ scriptReady' = scriptReady
        /\ calm' = calm /\ user' = user /\ reassigned' = reassigned /\ edited' = edited
    BY <1>1 DEF Tick, userVars
  <2>2. deadSeen' \in [Accounts -> BOOLEAN]
    BY <1>1 DEF Tick
  <2>3. latched' \in [Accounts -> BOOLEAN]
    BY <1>1, TickLatches
  <2> QED BY <2>1, <2>2, <2>3
<1>2. ASSUME NEW a \in Accounts, StopChecked(a)
      PROVE  OtherTypes'
  BY <1>2, CoordinatorAssumption DEF StopChecked, Intervenes
<1>3. ASSUME NEW a \in Accounts, StartChecked(a)
      PROVE  OtherTypes'
  BY <1>3, CoordinatorAssumption DEF StartChecked, Intervenes
<1>4. ASSUME NEW a \in Accounts, ClientCloses(a)
      PROVE  OtherTypes'
  BY <1>4, CoordinatorAssumption DEF ClientCloses, Intervenes
<1>5. ASSUME NEW a \in Accounts, NEW r \in 0 .. Slots + 1, ApplySelectedTradeRole(a, r)
      PROVE  OtherTypes'
  BY <1>5, CoordinatorAssumption DEF ApplySelectedTradeRole, Intervenes
<1>6. CASE ToggleConsolidationMode
  BY <1>6, CoordinatorAssumption DEF ToggleConsolidationMode, Intervenes, accountVars
<1>7. CASE EditTradeSequence
  BY <1>7, CoordinatorAssumption DEF EditTradeSequence, Intervenes, accountVars
<1>8. CASE ScanClients
  BY <1>8, CoordinatorAssumption DEF ScanClients, Intervenes
<1>9. CASE Settle
  BY <1>9 DEF Settle, accountVars
<1>10. CASE UNCHANGED vars
  BY <1>10 DEF vars, accountVars, userVars
<1> QED BY <1>1, <1>2, <1>3, <1>4, <1>5, <1>6, <1>7, <1>8, <1>9, <1>10 DEF Next, UserStep

\* Whoever makes the sequence incomplete has edited it.
LEMMA StepKeepsEdited ==
  ASSUME CoordinatorInv, [Next]_vars
  PROVE  SequenceEdited'
<1>1. CASE EditTradeSequence
  BY <1>1 DEF EditTradeSequence, CoordinatorInv, SequenceEdited, OtherTypes
<1>2. CASE ~EditTradeSequence
  <2>1. scriptReady' = scriptReady /\ edited' = edited
    BY <1>2 DEF Next, UserStep, Tick, StopChecked, StartChecked, ClientCloses, Settle, vars,
       ApplySelectedTradeRole, ToggleConsolidationMode, ScanClients, userVars
  <2> QED BY <2>1 DEF CoordinatorInv, SequenceEdited
<1> QED BY <1>1, <1>2

\* Every step keeps the invariant.
LEMMA StepKeepsInv ==
  ASSUME CoordinatorInv, [Next]_vars
  PROVE  CoordinatorInv'
<1>1. OtherTypes'
  BY StepKeepsTypes
<1>2. FlowTypes' /\ QueueInv'
  <2>1. CASE Tick
    BY <2>1, TickKeepsQueue
  <2>2. CASE \E a \in Accounts : StopChecked(a) \/ StartChecked(a) \/ ClientCloses(a)
    BY <2>2, AccountStepKeepsQueue
  <2>3. CASE \E a \in Accounts, r \in 0 .. Slots + 1 : ApplySelectedTradeRole(a, r)
    BY <2>3, RoleKeepsQueue
  <2>4. CASE ToggleConsolidationMode
    BY <2>4, ToggleKeepsQueue
  <2>5. CASE ScanClients
    BY <2>5, ScanKeepsQueue
  <2>6. CASE EditTradeSequence \/ Settle \/ UNCHANGED vars
    <3>1. Becomes(Flow) /\ role' = role /\ reassigned' = reassigned
      BY <2>6 DEF EditTradeSequence, Settle, vars, accountVars, flowVars, userVars, Becomes, Flow
    <3>2. edited => edited'
      BY <2>6, Zenon DEF EditTradeSequence, Settle, vars, userVars
    <3> QED BY <3>1, <3>2, InvIsGood, BecomesGood
  <2> QED BY <2>1, <2>2, <2>3, <2>4, <2>5, <2>6 DEF Next, UserStep
<1>3. SequenceEdited'
  BY StepKeepsEdited
<1> QED BY <1>1, <1>2, <1>3 DEF CoordinatorInv

\* The first state satisfies it.
LEMMA InitHasInv ==
  ASSUME Init
  PROVE  CoordinatorInv
<1>1. OtherTypes
  <2>1. /\ auto = [a \in Accounts |-> "on"] /\ latched = [a \in Accounts |-> FALSE]
        /\ deadSeen = [a \in Accounts |-> FALSE] /\ role = FirstRole
        /\ enabled = TRUE /\ scriptReady = TRUE /\ calm = FALSE /\ user = 0 /\ reassigned = FALSE
        /\ edited = FALSE
    BY DEF Init
  <2>2. role \in [Accounts -> 0 .. Slots + 1] /\ 0 \in 0 .. MaxUser
    BY <2>1, CoordinatorAssumption
  <2>3. auto \in [Accounts -> {"on", "off", "closed"}]
    BY <2>1
  <2>4. latched \in [Accounts -> BOOLEAN] /\ deadSeen \in [Accounts -> BOOLEAN]
    BY <2>1
  <2> QED BY <2>1, <2>2, <2>3, <2>4 DEF OtherTypes
<1>2. FlowTypes
  BY EmptyQueue, CoordinatorAssumption DEF Init, FlowTypes
<1>3. Waiting = {} /\ Len(queue) = 0 /\ queue = <<>>
  BY EmptyQueue DEF Init, Waiting
<1>4. QueueOrder /\ TicketsIssued /\ ActiveIsQueued
  BY <1>3, CoordinatorAssumption DEF Init, QueueOrder, TicketsIssued, ActiveIsQueued
<1>5. QueuedAreCons /\ HoldMatchesQueue
  BY <1>3 DEF Init, QueuedAreCons, HoldMatchesQueue
<1> QED BY <1>1, <1>2, <1>4, <1>5 DEF CoordinatorInv, QueueInv, Init, SequenceEdited

----------------------------------------------------------------------------
(* The theorems *)

\* Whatever the accounts and the user do, the invariant holds.
THEOREM CoordinatorIsGood == Spec => []CoordinatorInv
<1>1. Init => CoordinatorInv
  BY InitHasInv
<1>2. CoordinatorInv /\ [Next]_vars => CoordinatorInv'
  BY StepKeepsInv
<1> QED BY <1>1, <1>2, PTL DEF Spec

\* Every variable keeps its type: tickets and the counter stay in their bounds.
THEOREM CoordinatorTypes == Spec => []TypeOK
<1>1. CoordinatorInv => TypeOK
  BY DEF CoordinatorInv, OtherTypes, FlowTypes, TypeOK
<1> QED BY <1>1, CoordinatorIsGood, PTL

\* For any number of accounts and any limit of the queue: it is never longer than
\* the limit, has nobody twice, and the tickets in it rise (the queue is never
\* sorted; only the admission, the purge and the resets touch it).
THEOREM QueueStaysInOrder == Spec => []QueueOrder
<1>1. CoordinatorInv => QueueOrder
  BY DEF CoordinatorInv, QueueInv
<1> QED BY <1>1, CoordinatorIsGood, PTL

\* A transaction that has begun always has a MAIN and a queued child: no purge,
\* death, stop, scan or change of a role takes the child from the queue alone.
THEOREM ActiveStaysQueued == Spec => []ActiveIsQueued
<1>1. CoordinatorInv => ActiveIsQueued
  BY DEF CoordinatorInv, QueueInv
<1> QED BY <1>1, CoordinatorIsGood, PTL

\* Until a role is changed nobody is held but the queued children, and MAIN while
\* there are any, and these are.
THEOREM HoldsMatchQueue == Spec => []HoldMatchesQueue
<1>1. CoordinatorInv => HoldMatchesQueue
  BY DEF CoordinatorInv, QueueInv
<1> QED BY <1>1, CoordinatorIsGood, PTL

\* What a tick leaves to the queue: the tickets of the held accounts that stay in
\* it and, while the clicks run, its length.
LEMMA TickKeepsTickets ==
  ASSUME CoordinatorInv, Tick
  PROVE  /\ \A a \in Accounts :
              held[a] /\ a \in Waiting /\ a \in Waiting' => ticket'[a] = ticket[a]
         /\ phase = "Sequence" /\ phase' = "Sequence" => Len(queue') <= Len(queue)
<1>1. PICK w, view, l, full :
        /\ FlowGood(w) /\ SameQueue(Flow, w) /\ full \subseteq Accounts
        /\ \A a \in Accounts : held[a] => w.ticket[a] = ticket[a]
        /\ \E x \in TickTradeCoordinator(w, view, l, full, TradeMain) : Becomes(x)
  BY TickOfGoodFlow
<1>2. PICK x \in TickTradeCoordinator(w, view, l, full, TradeMain) : Becomes(x)
  BY <1>1
<1>3. KeepsTickets(w, x)
  BY <1>1, <1>2, TickIsGood DEF CoordinatorInv, OtherTypes
<1>4. w.queue = queue /\ w.phase = phase
  BY <1>1 DEF SameQueue, Flow
<1>5. x.queue = queue' /\ x.phase = phase' /\ x.ticket = ticket'
  BY <1>2 DEF Becomes
<1>6. Elems(w.queue) = Waiting /\ Elems(x.queue) = Waiting'
  BY <1>4, <1>5 DEF Elems, Waiting
<1>7. ASSUME NEW a \in Accounts, held[a], a \in Waiting, a \in Waiting'
      PROVE  ticket'[a] = ticket[a]
  BY <1>1, <1>3, <1>5, <1>6, <1>7 DEF KeepsTickets
<1>8. phase = "Sequence" /\ phase' = "Sequence" => Len(queue') <= Len(queue)
  BY <1>3, <1>4, <1>5 DEF KeepsTickets
<1> QED BY <1>7, <1>8

\* The user does not lengthen the queue of a transaction that goes on.
LEMMA UserKeepsLine ==
  ASSUME CoordinatorInv, [Next]_vars, ~Tick, phase = "Sequence", phase' = "Sequence"
  PROVE  queue' = queue
<1>1. CASE \E a \in Accounts : StopChecked(a)
  <2>1. PICK a \in Accounts : StopChecked(a)
    BY <1>1
  <2>2. IsFlow(Flow) /\ SameTrade(Flow, ResetRuntime(Flow, a))
    BY ResetKeepsTrade DEF IsFlow, Flow
  <2>3. AbortTrade(ResetRuntime(Flow, a)).phase = "Idle"
    BY <2>2, AbortIsIdle DEF SameTrade
  <2>5. ResetRuntime(Flow, a).queue = queue
    BY DEF ResetRuntime, Flow
  <2>4. Becomes(ResetRuntime(Flow, a))
    BY <2>1, <2>3 DEF StopChecked, Becomes
  <2> QED BY <2>5, <2>4 DEF Becomes
<1>2. CASE \E a \in Accounts : StartChecked(a)
  <2>1. PICK a \in Accounts : Becomes(ResetRuntime(Flow, a))
    BY <1>2 DEF StartChecked
  <2> QED BY <2>1 DEF Becomes, ResetRuntime, Flow
<1>3. CASE \E a \in Accounts : ClientCloses(a)
  BY <1>3 DEF ClientCloses, flowVars
<1>4. CASE \E a \in Accounts, r \in 0 .. Slots + 1 : ApplySelectedTradeRole(a, r)
  BY <1>4 DEF ApplySelectedTradeRole
<1>5. CASE ToggleConsolidationMode
  <2>1. IsFlow(Flow) /\ Flow.phase = phase
    BY DEF IsFlow, Flow
  <2>2. IsFlow(AbortTrade(Flow)) /\ AbortTrade(Flow).phase = "Idle"
    BY <2>1, AbortIsIdle
  <2>3. ReleaseTradeHolds(AbortTrade(Flow)).phase = "Idle"
    BY <2>2 DEF ReleaseTradeHolds, IsFlow
  <2>4. Becomes(Flow)
    BY <1>5, <2>3 DEF ToggleConsolidationMode, Becomes
  <2> QED BY <2>4 DEF Becomes, Flow
<1>6. CASE ScanClients
  BY <1>6 DEF ScanClients
<1>7. CASE EditTradeSequence \/ Settle \/ UNCHANGED vars
  BY <1>7 DEF EditTradeSequence, Settle, vars, flowVars
<1> QED BY <1>1, <1>2, <1>3, <1>4, <1>5, <1>6, <1>7 DEF Next, UserStep

\* From the first trade click until the transaction ends the pair stays the same
\* and nobody joins the queue, whatever the user does meanwhile.
THEOREM PairStaysStable == Spec => PairIsStable
<1>1. CoordinatorInv /\ [Next]_vars =>
        [phase = "Sequence" /\ phase' = "Sequence" =>
           main' = main /\ child' = child /\ Len(queue') <= Len(queue)]_vars
  <2> SUFFICES ASSUME CoordinatorInv, [Next]_vars, phase = "Sequence", phase' = "Sequence"
               PROVE  main' = main /\ child' = child /\ Len(queue') <= Len(queue)
    OBVIOUS
  <2>1. main' = main /\ child' = child
    BY StepKeepsPair
  <2>2. Len(queue) \in Nat
    BY DEF CoordinatorInv, FlowTypes
  <2>3. Len(queue') <= Len(queue)
    BY <2>2, TickKeepsTickets, UserKeepsLine
  <2> QED BY <2>1, <2>3
<1> QED BY <1>1, CoordinatorIsGood, PTL DEF Spec, PairIsStable

\* No tick changes the ticket of a held child that stays queued: neither a death
\* nor a revival moves it back in the line (ResetRuntimeForLifeBoundary).
THEOREM TicketsSurvive == Spec => TicketSurvivesDeath
<1>1. CoordinatorInv /\ [Next]_vars =>
        [\A a \in Accounts : held[a] /\ user' = user /\ a \in Waiting /\ a \in Waiting' =>
            ticket'[a] = ticket[a]]_vars
  <2> SUFFICES ASSUME CoordinatorInv, [Next]_vars,
                      NEW a \in Accounts, held[a], user' = user, a \in Waiting, a \in Waiting'
               PROVE  ticket'[a] = ticket[a]
    OBVIOUS
  <2>1. CASE Tick
    BY <2>1, TickKeepsTickets
  <2>2. ~Intervenes
    BY DEF Intervenes, CoordinatorInv, OtherTypes
  <2>3. CASE UserStep
    BY <2>2, <2>3 DEF UserStep, StopChecked, StartChecked, ClientCloses, ScanClients,
       ApplySelectedTradeRole, ToggleConsolidationMode, EditTradeSequence
  <2>4. CASE Settle \/ UNCHANGED vars
    BY <2>4 DEF Settle, vars, flowVars
  <2> QED BY <2>1, <2>3, <2>4 DEF Next
<1> QED BY <1>1, CoordinatorIsGood, PTL DEF Spec, TicketSurvivesDeath

=============================================================================
