------------------------- MODULE RoutingOrderProofs -------------------------
(***************************************************************************)
(* The ranking of RoutingOrder is sound in every state the manager can     *)
(* reach, for any number of backends, any priorities, measurements and     *)
(* offsets.                                                                *)
(*                                                                         *)
(* The comparison of the sort depends on the positions of what it compares *)
(* and is not transitive, so nothing general about sorting applies.  The   *)
(* invariant of the insertions is that no element is followed by one that  *)
(* is faster beyond the tolerance (rankedTo): an element stops behind the  *)
(* first neighbour it does not belong before, and it belonged before the   *)
(* neighbour it passed last, both by the comparison as it was at those     *)
(* positions.  What the comparison said before does not matter.            *)
(*                                                                         *)
(* The recursive functions behind the sort and the joined groups are       *)
(* followed by induction over sets of numbers.                             *)
(***************************************************************************)
EXTENDS RoutingOrder, BackendRuntimeProofs
-----------------------------------------------------------------------------
(* Numbers in ascending order.                                             *)

Joins == INSTANCE FoldInduction WITH Op <- Append

\* s has the numbers of S in ascending order.
lists(s, S) ==
  /\ s \in [1..Cardinality(S) -> S]
  /\ ToSet(s) = S
  /\ \A i, j \in 1..Cardinality(S) : i < j => s[i] < s[j]

\* Finitely many numbers have a greatest one.
LEMMA HasGreatest ==
  ASSUME NEW S \in SUBSET Int, IsFiniteSet(S), S # {}
  PROVE  \E m \in S : \A x \in S : x <= m
<1> DEFINE great(T) == \E m \in T : \A x \in T : x <= m
           Z == {n \in Nat : \A T \in SUBSET Int :
                   IsFiniteSet(T) /\ Cardinality(T) = n + 1 => great(T)}
<1>1. 0 \in Z
  <2> SUFFICES ASSUME NEW T \in SUBSET Int, IsFiniteSet(T), Cardinality(T) = 1
               PROVE  great(T)
    OBVIOUS
  <2>1. PICK x : T = {x}
    BY FS_Singleton
  <2> QED  BY <2>1
<1>2. ASSUME NEW n \in Nat, n \in Z
      PROVE  n + 1 \in Z
  <2> SUFFICES ASSUME NEW T \in SUBSET Int, IsFiniteSet(T), Cardinality(T) = n + 2
               PROVE  great(T)
    OBVIOUS
  <2>1. PICK x : x \in T
    BY FS_EmptySet
  <2>2. IsFiniteSet(T \ {x}) /\ Cardinality(T \ {x}) = n + 1 /\ T \ {x} \in SUBSET Int
    BY <2>1, FS_RemoveElement
  <2>3. PICK m \in T \ {x} : \A y \in T \ {x} : y <= m
    BY <1>2, <2>2
  <2>4. CASE x <= m
    BY <2>1, <2>3, <2>4
  <2>5. CASE ~(x <= m)
    BY <2>1, <2>3, <2>5
  <2> QED  BY <2>4, <2>5
<1>3. Nat \subseteq Z
  <2> HIDE DEF Z
  <2> QED  BY <1>1, <1>2, Joins!NatSetInduction
<1>4. Cardinality(S) \in Nat \ {0}
  BY FS_CardinalityType, FS_EmptySet
<1>5. Cardinality(S) - 1 \in Z
  BY <1>3, <1>4
<1> QED  BY <1>4, <1>5

LEMMA ListExtended ==
  ASSUME NEW T \in SUBSET Int, IsFiniteSet(T), NEW m \in T, \A x \in T : x <= m,
         NEW n \in Nat, Cardinality(T) = n + 1, Cardinality(T \ {m}) = n,
         NEW t, lists(t, T \ {m})
  PROVE  \E s : lists(s, T)
<1> DEFINE s == [i \in 1..n + 1 |-> IF i = n + 1 THEN m ELSE t[i]]
<1>1. /\ t \in [1..n -> T \ {m}]
      /\ \A i, j \in 1..n : i < j => t[i] < t[j]
      /\ \A x \in T \ {m} : \E i \in 1..n : t[i] = x
  BY DEF lists, ToSet
<1>2. \A i \in 1..n : i \in 1..n + 1 /\ i # n + 1 /\ s[i] = t[i]
  OBVIOUS
<1>3. \A i \in 1..n + 1 : i = n + 1 \/ i \in 1..n
  OBVIOUS
<1>4. s[n + 1] = m /\ DOMAIN s = 1..n + 1
  OBVIOUS
<1>5. s \in [1..n + 1 -> T]
  BY <1>1
<1> HIDE DEF s
<1>6. ToSet(s) = T
  <2>1. \A x \in T : \E i \in 1..n + 1 : s[i] = x
    BY <1>1, <1>2, <1>4
  <2> QED  BY <1>4, <1>5, <2>1 DEF ToSet
<1>7. ASSUME NEW i \in 1..n + 1, NEW j \in 1..n + 1, i < j
      PROVE  s[i] < s[j]
  <2>1. i \in 1..n /\ s[i] = t[i] /\ t[i] \in T \ {m}
    BY <1>1, <1>2, <1>7
  <2>2. t[i] < m
    <3>1. t[i] \in Int /\ m \in Int /\ t[i] <= m /\ t[i] # m
      BY <2>1
    <3> QED  BY <3>1
  <2>3. CASE j = n + 1
    BY <2>1, <2>2, <2>3, <1>4
  <2>4. CASE j # n + 1
    <3>1. j \in 1..n /\ s[j] = t[j]
      BY <2>4, <1>2, <1>3
    <3> QED  BY <1>1, <1>7, <2>1, <3>1
  <2> QED  BY <2>3, <2>4
<1> QED  BY <1>5, <1>6, <1>7 DEF lists

\* Finitely many numbers can be listed, and ascending(S) is such a list.
LEMMA AscendingLists ==
  ASSUME NEW S \in SUBSET Int, IsFiniteSet(S)
  PROVE  lists(ascending(S), S)
<1> DEFINE Z == {n \in Nat : \A T \in SUBSET Int :
                   IsFiniteSet(T) /\ Cardinality(T) = n => \E s : lists(s, T)}
<1>1. 0 \in Z
  <2> SUFFICES ASSUME NEW T \in SUBSET Int, IsFiniteSet(T), Cardinality(T) = 0
               PROVE  \E s : lists(s, T)
    OBVIOUS
  <2> DEFINE s == [i \in 1..0 |-> i]
  <2>1. T = {} /\ 1..0 = {}
    BY FS_EmptySet
  <2>2. s \in [1..0 -> {}] /\ ToSet(s) = {}
    BY <2>1 DEF ToSet
  <2>3. \A i, j \in 1..0 : i < j => s[i] < s[j]
    BY <2>1
  <2> HIDE DEF s
  <2>4. lists(s, T)
    BY <2>1, <2>2, <2>3 DEF lists
  <2> QED  BY <2>4
<1>2. ASSUME NEW n \in Nat, n \in Z
      PROVE  n + 1 \in Z
  <2> SUFFICES ASSUME NEW T \in SUBSET Int, IsFiniteSet(T), Cardinality(T) = n + 1
               PROVE  \E s : lists(s, T)
    OBVIOUS
  <2>1. T # {}
    BY FS_EmptySet
  <2>2. PICK m \in T : \A x \in T : x <= m
    BY <2>1, HasGreatest
  <2>3. IsFiniteSet(T \ {m}) /\ Cardinality(T \ {m}) = n /\ T \ {m} \in SUBSET Int
    BY FS_RemoveElement
  <2>4. PICK t : lists(t, T \ {m})
    BY <1>2, <2>3
  <2> QED  BY <2>2, <2>3, <2>4, ListExtended
<1>3. Nat \subseteq Z
  <2> HIDE DEF Z
  <2> QED  BY <1>1, <1>2, Joins!NatSetInduction
<1>4. Cardinality(S) \in Nat
  BY FS_CardinalityType
<1>5. PICK s : lists(s, S)
  BY <1>3, <1>4
<1> QED  BY <1>5 DEF ascending, lists
-----------------------------------------------------------------------------
(* The sort of a group.                                                    *)

\* No element is followed by one that is faster beyond the tolerance, up to
\* position i.
rankedTo(s, i, score) ==
  \A j \in Nat : 1 <= j /\ j < i => score[s[j]] <= score[s[j + 1]] + Tolerance

LEMMA ComparisonTells ==
  ASSUME NEW score, NEW x, NEW y, score[x] \in Int, score[y] \in Int,
         NEW i, NEW j, NEW n, NEW offset
  PROVE  /\ comesBefore(x, i, y, j, n, offset, score) => score[x] <= score[y] + Tolerance
         /\ ~comesBefore(x, i, y, j, n, offset, score) => score[y] <= score[x] + Tolerance
<1> PICK a, b : a = score[x] /\ b = score[y] /\ a \in Int /\ b \in Int
  OBVIOUS
<1>1. abs(a - b) > 1 \/ (a <= b + 1 /\ b <= a + 1)
  BY DEF abs
<1>2. abs(a - b) > 1 => (a < b => a <= b + 1) /\ (~(a < b) => b <= a + 1)
  OBVIOUS
<1>3. CASE abs(a - b) > 1
  BY <1>2, <1>3 DEF comesBefore, Tolerance
<1>4. CASE ~(abs(a - b) > 1)
  BY <1>1, <1>4 DEF comesBefore, Tolerance
<1> QED  BY <1>3, <1>4

rearranged(r, s, n) ==
  /\ DOMAIN r = 1..n /\ DOMAIN s = 1..n
  /\ \A j \in 1..n : \E l \in 1..n : r[j] = s[l]
  /\ \A l \in 1..n : \E j \in 1..n : r[j] = s[l]

LEMMA SameElements ==
  ASSUME NEW n, NEW r, NEW s, rearranged(r, s, n)
  PROVE  ToSet(r) = ToSet(s)
<1> USE DEF rearranged
<1>1. ASSUME NEW x \in ToSet(r)
      PROVE  x \in ToSet(s)
  <2>1. PICK j \in 1..n : x = r[j]
    BY DEF ToSet
  <2>2. PICK l \in 1..n : r[j] = s[l]
    OBVIOUS
  <2> QED  BY <2>1, <2>2 DEF ToSet
<1>2. ASSUME NEW x \in ToSet(s)
      PROVE  x \in ToSet(r)
  <2>1. PICK l \in 1..n : x = s[l]
    BY DEF ToSet
  <2>2. PICK j \in 1..n : r[j] = s[l]
    OBVIOUS
  <2> QED  BY <2>1, <2>2 DEF ToSet
<1> QED  BY <1>1, <1>2

\* r is s with the element at i moved to k.
movedTo(r, s, i, k) ==
  /\ Len(r) = Len(s)
  /\ r[k] = s[i]
  /\ \A j \in 1..Len(s) : (j < k \/ j > i) => r[j] = s[j]
  /\ \A j \in 1..Len(s) : k < j /\ j <= i => r[j] = s[j - 1]

LEMMA ElementMoves ==
  ASSUME NEW T, NEW s \in Seq(T), NEW i \in 1..Len(s), NEW k \in 1..i
  PROVE  /\ InsertAt(RemoveAt(s, i), k, s[i]) \in Seq(T)
         /\ movedTo(InsertAt(RemoveAt(s, i), k, s[i]), s, i, k)
<1> DEFINE n == Len(s)
           u == RemoveAt(s, i)
           r == InsertAt(u, k, s[i])
<1>1. n \in Nat /\ i \in Int /\ k \in Int /\ 1 <= k /\ k <= i /\ i <= n /\ s[i] \in T
  OBVIOUS
<1>2. /\ u \in Seq(T) /\ Len(u) = n - 1
      /\ \A j \in 1..n - 1 : u[j] = IF j < i THEN s[j] ELSE s[j + 1]
  <2> DEFINE a == SubSeq(s, 1, i - 1)
             b == SubSeq(s, i + 1, n)
  <2>1. a \in Seq(T) /\ Len(a) = i - 1 /\ \A j \in 1..i - 1 : a[j] = s[j]
    BY <1>1
  <2>2. b \in Seq(T) /\ Len(b) = n - i /\ \A j \in 1..n - i : b[j] = s[i + j]
    BY <1>1
  <2>3. u = a \o b
    BY DEF RemoveAt
  <2> HIDE DEF a, b, u, n
  <2>4. a \o b \in Seq(T) /\ Len(a \o b) = n - 1
    <3>1. a \in Seq(T) /\ b \in Seq(T)
      BY <2>1, <2>2
    <3>2. a \o b \in Seq(T) /\ Len(a \o b) = Len(a) + Len(b)
      BY <3>1
    <3>3. Len(a) = i - 1 /\ Len(b) = n - i
      BY <2>1, <2>2
    <3> QED  BY <1>1, <3>2, <3>3
  <2>5. ASSUME NEW j \in 1..n - 1
        PROVE  (a \o b)[j] = IF j < i THEN s[j] ELSE s[j + 1]
    <3>1. CASE j < i
      <4>1. j \in 1..Len(a) /\ (a \o b)[j] = a[j]
        BY <1>1, <2>1, <2>2, <3>1
      <4> QED  BY <2>1, <3>1, <4>1
    <3>2. CASE ~(j < i)
      <4>1. j - (i - 1) \in 1..n - i /\ (a \o b)[j] = b[j - (i - 1)]
        BY <1>1, <2>1, <2>2, <3>2
      <4>2. i + (j - (i - 1)) = j + 1
        BY <1>1
      <4>3. b[j - (i - 1)] = s[i + (j - (i - 1))]
        BY <2>2, <4>1
      <4> QED  BY <3>2, <4>1, <4>2, <4>3
    <3> QED  BY <3>1, <3>2
  <2> QED  BY <2>3, <2>4, <2>5
<1> HIDE DEF u, n
<1>3. /\ r \in Seq(T) /\ Len(r) = n
      /\ \A j \in 1..n : r[j] = IF j < k THEN u[j] ELSE IF j = k THEN s[i] ELSE u[j - 1]
  BY <1>1, <1>2 DEF InsertAt
<1> HIDE DEF r
<1>4. r[k] = s[i]
  BY <1>1, <1>3
<1>5. ASSUME NEW j \in 1..n, j < k \/ j > i
      PROVE  r[j] = s[j]
  <2>1. CASE j < k
    <3>1. j \in 1..n - 1 /\ j < i
      BY <1>1, <2>1
    <3> QED  BY <1>2, <1>3, <2>1, <3>1
  <2>2. CASE j > i
    <3>1. j - 1 \in 1..n - 1 /\ ~(j - 1 < i) /\ (j - 1) + 1 = j /\ ~(j < k) /\ j # k
      BY <1>1, <2>2
    <3> QED  BY <1>2, <1>3, <3>1
  <2> QED  BY <1>5, <2>1, <2>2
<1>6. ASSUME NEW j \in 1..n, k < j, j <= i
      PROVE  r[j] = s[j - 1]
  <2>1. j - 1 \in 1..n - 1 /\ j - 1 < i /\ ~(j < k) /\ j # k
    BY <1>1, <1>6
  <2> QED  BY <1>2, <1>3, <2>1
<1> QED  BY <1>3, <1>4, <1>5, <1>6 DEF movedTo, r, u, n

\* The element stops behind the first neighbour it does not belong before.
LEMMA InsertMoves ==
  ASSUME NEW T, NEW s \in Seq(T), NEW i \in 1..Len(s), NEW offset,
         NEW score, \A x \in T : score[x] \in Int
  PROVE  /\ insert(s, i, offset, score) \in Seq(T)
         /\ \E k \in 1..i :
              /\ movedTo(insert(s, i, offset, score), s, i, k)
              /\ k # 1 => score[s[k - 1]] <= score[s[i]] + Tolerance
              /\ k # i => score[s[i]] <= score[s[k]] + Tolerance
<1> DEFINE stopsAt(j) ==
             \/ j = 1
             \/ ~comesBefore(s[i], j, s[j - 1], j - 1, Len(s), offset, score)
           K == {j \in 1..i : stopsAt(j)}
<1>1. /\ i \in Int /\ 1 <= i /\ i <= Len(s) /\ Len(s) \in Nat
      /\ \A j \in 1..i : s[j] \in T /\ score[s[j]] \in Int
  OBVIOUS
<1>2. 1 \in K /\ K \in SUBSET Int /\ K \subseteq 1..i
  BY <1>1
<1>3. IsFiniteSet(K)
  BY <1>1, <1>2, FS_Interval, FS_Subset
<1>4. \E m \in K : \A x \in K : x <= m
  BY <1>2, <1>3, HasGreatest
<1> PICK k : k = Max(K)
  OBVIOUS
<1>5. k \in K /\ \A x \in K : x <= k
  <2>1. \E m \in K : \A x \in K : m >= x
    BY <1>2, <1>4
  <2>2. Max(K) \in K /\ \A x \in K : Max(K) >= x
    BY <2>1 DEF Max
  <2> QED  BY <1>2, <2>2
<1>6. insert(s, i, offset, score) = InsertAt(RemoveAt(s, i), k, s[i])
  BY DEF insert
<1>7. k \in 1..i /\ k \in Int /\ 1 <= k /\ k <= i
  BY <1>1, <1>2, <1>5
<1>8. k # 1 => score[s[k - 1]] <= score[s[i]] + Tolerance
  <2> SUFFICES ASSUME k # 1
               PROVE  score[s[k - 1]] <= score[s[i]] + Tolerance
    OBVIOUS
  <2>1. ~comesBefore(s[i], k, s[k - 1], k - 1, Len(s), offset, score)
    BY <1>5
  <2>2. i \in 1..i /\ k - 1 \in 1..i
    BY <1>1, <1>7
  <2>3. score[s[i]] \in Int /\ score[s[k - 1]] \in Int
    BY <1>1, <2>2
  <2> HIDE DEF K
  <2> QED  BY <2>1, <2>3, ComparisonTells
<1>9. k # i => score[s[i]] <= score[s[k]] + Tolerance
  <2> SUFFICES ASSUME k # i
               PROVE  score[s[i]] <= score[s[k]] + Tolerance
    OBVIOUS
  <2>1. k + 1 \in 1..i /\ ~(k + 1 <= k) /\ k + 1 # 1 /\ (k + 1) - 1 = k /\ i \in 1..i
    BY <1>1, <1>7
  <2>2. k + 1 \notin K
    BY <1>5, <2>1
  <2>3. comesBefore(s[i], k + 1, s[k], k, Len(s), offset, score)
    BY <2>1, <2>2
  <2>4. score[s[i]] \in Int /\ score[s[k]] \in Int
    BY <1>1, <1>7, <2>1
  <2> HIDE DEF K
  <2> QED  BY <2>3, <2>4, ComparisonTells
<1> HIDE DEF K
<1>10. /\ insert(s, i, offset, score) \in Seq(T)
       /\ movedTo(insert(s, i, offset, score), s, i, k)
  BY <1>6, <1>7, ElementMoves
<1> QED  BY <1>7, <1>8, <1>9, <1>10

\* An insertion keeps the elements and ranks one more of them.
LEMMA InsertRanks ==
  ASSUME NEW T, NEW s \in Seq(T), NEW i \in 1..Len(s), NEW offset,
         NEW score, \A x \in T : score[x] \in Int,
         NEW r, r = insert(s, i, offset, score)
  PROVE  /\ r \in Seq(T) /\ Len(r) = Len(s) /\ ToSet(r) = ToSet(s)
         /\ rankedTo(s, i - 1, score) => rankedTo(r, i, score)
<1>1. r \in Seq(T)
  BY InsertMoves
<1>2. PICK k \in 1..i :
              /\ movedTo(r, s, i, k)
              /\ k # 1 => score[s[k - 1]] <= score[s[i]] + Tolerance
              /\ k # i => score[s[i]] <= score[s[k]] + Tolerance
  BY InsertMoves
<1> PICK n : n = Len(s)
  OBVIOUS
<1>3. /\ n \in Nat /\ i \in Int /\ k \in Int /\ 1 <= k /\ k <= i /\ i <= n
      /\ Len(s) = n /\ Len(r) = n /\ DOMAIN r = 1..n /\ DOMAIN s = 1..n
  BY <1>1, <1>2 DEF movedTo
<1>4. /\ r[k] = s[i]
      /\ \A j \in 1..n : (j < k \/ j > i) => r[j] = s[j]
      /\ \A j \in 1..n : k < j /\ j <= i => r[j] = s[j - 1]
  BY <1>2, <1>3 DEF movedTo
<1>5. ToSet(r) = ToSet(s)
  <2>1. \A j \in 1..n : \E l \in 1..n : r[j] = s[l]
    <3> SUFFICES ASSUME NEW j \in 1..n
                 PROVE  \E l \in 1..n : r[j] = s[l]
      OBVIOUS
    <3>1. CASE j = k
      BY <1>3, <1>4, <3>1
    <3>2. CASE j < k \/ j > i
      BY <1>4, <3>2
    <3>3. CASE k < j /\ j <= i
      <4>1. j - 1 \in 1..n /\ r[j] = s[j - 1]
        BY <1>3, <1>4, <3>3
      <4> QED  BY <4>1
    <3> QED  BY <1>3, <3>1, <3>2, <3>3
  <2>2. \A l \in 1..n : \E j \in 1..n : r[j] = s[l]
    <3> SUFFICES ASSUME NEW l \in 1..n
                 PROVE  \E j \in 1..n : r[j] = s[l]
      OBVIOUS
    <3>1. CASE l = i
      BY <1>3, <1>4, <3>1
    <3>2. CASE l < k \/ l > i
      BY <1>4, <3>2
    <3>3. CASE k <= l /\ l < i
      <4>1. l + 1 \in 1..n /\ k < l + 1 /\ l + 1 <= i /\ (l + 1) - 1 = l
        BY <1>3, <3>3
      <4>2. r[l + 1] = s[l]
        BY <1>4, <4>1
      <4> QED  BY <4>1, <4>2
    <3> QED  BY <1>3, <3>1, <3>2, <3>3
  <2>3. rearranged(r, s, n)
    BY <1>3, <2>1, <2>2 DEF rearranged
  <2> QED  BY <2>3, SameElements
<1>6. ASSUME rankedTo(s, i - 1, score)
      PROVE  rankedTo(r, i, score)
  <2> SUFFICES ASSUME NEW j \in Nat, 1 <= j, j < i
               PROVE  score[r[j]] <= score[r[j + 1]] + Tolerance
    BY DEF rankedTo
  <2>1. j \in 1..n /\ j + 1 \in 1..n /\ (j + 1) - 1 = j
    BY <1>3
  <2>2. CASE j + 1 < k
    <3>1. j < i - 1 /\ r[j] = s[j] /\ r[j + 1] = s[j + 1]
      BY <1>3, <1>4, <2>1, <2>2
    <3> QED  BY <1>6, <3>1 DEF rankedTo
  <2>3. CASE j + 1 = k
    <3>1. r[j] = s[k - 1] /\ r[j + 1] = s[i] /\ k # 1
      BY <1>3, <1>4, <2>1, <2>3
    <3> QED  BY <1>2, <3>1
  <2>4. CASE j = k
    <3>1. r[j] = s[i] /\ r[j + 1] = s[k] /\ k # i
      BY <1>3, <1>4, <2>1, <2>4
    <3> QED  BY <1>2, <3>1
  <2>5. CASE j > k
    <3>1. r[j] = s[j - 1] /\ r[j + 1] = s[j]
      BY <1>3, <1>4, <2>1, <2>5
    <3>2. j - 1 \in Nat /\ 1 <= j - 1 /\ j - 1 < i - 1 /\ (j - 1) + 1 = j
      BY <1>3, <2>5
    <3> QED  BY <1>6, <3>1, <3>2 DEF rankedTo
  <2> QED  BY <1>3, <2>2, <2>3, <2>4, <2>5
<1> QED  BY <1>1, <1>3, <1>5, <1>6

\* The elements of a group after i insertions.
isSort(group, offset, score, n, h) ==
  h = [i \in 0..n |->
         IF i = 0 THEN group ELSE insert(h[i - 1], i, offset, score)]

LEMMA SortExists ==
  ASSUME NEW group, NEW offset, NEW score
  PROVE  \A n \in Nat : \E h : isSort(group, offset, score, n, h)
<1> DEFINE S == {n \in Nat : \E h : isSort(group, offset, score, n, h)}
<1>1. 0 \in S
  <2> DEFINE h == [i \in 0..0 |-> group]
  <2>1. \A i \in 0..0 : i = 0
    OBVIOUS
  <2>2. isSort(group, offset, score, 0, h)
    BY <2>1 DEF isSort
  <2> QED  BY <2>2
<1>2. ASSUME NEW n \in Nat, n \in S
      PROVE  n + 1 \in S
  <2>1. PICK h : isSort(group, offset, score, n, h)
    BY <1>2
  <2> DEFINE g == [i \in 0..n + 1 |->
                     IF i = n + 1 THEN insert(h[n], n + 1, offset, score) ELSE h[i]]
  <2>2. ASSUME NEW i \in 0..n + 1
        PROVE  g[i] = IF i = 0 THEN group ELSE insert(g[i - 1], i, offset, score)
    <3>1. CASE i = n + 1
      <4>1. i # 0 /\ i - 1 = n /\ n \in 0..n + 1 /\ n # n + 1
        BY <3>1
      <4>2. g[i - 1] = h[n] /\ g[i] = insert(h[n], n + 1, offset, score)
        BY <3>1, <4>1
      <4> QED  BY <3>1, <4>1, <4>2
    <3>2. CASE i # n + 1
      <4>1. i \in 0..n
        BY <3>2
      <4>2. h[i] = IF i = 0 THEN group ELSE insert(h[i - 1], i, offset, score)
        BY <2>1, <4>1 DEF isSort
      <4>3. i # 0 => i - 1 \in 0..n + 1 /\ i - 1 # n + 1
        BY <4>1
      <4>4. g[i] = h[i] /\ (i # 0 => g[i - 1] = h[i - 1])
        BY <3>2, <4>3
      <4> QED  BY <4>2, <4>4
    <3> QED  BY <3>1, <3>2
  <2>3. isSort(group, offset, score, n + 1, g)
    BY <2>2 DEF isSort
  <2> QED  BY <2>3
<1>3. Nat \subseteq S
  <2> HIDE DEF S
  <2> QED  BY <1>1, <1>2, Joins!NatSetInduction
<1> QED  BY <1>3

\* Whatever the comparison makes of the positions on the way, the sort keeps
\* the elements of the group and ranks all of them.
THEOREM SortRanks ==
  ASSUME NEW T, NEW group \in Seq(T), NEW offset,
         NEW score, \A x \in T : score[x] \in Int,
         NEW r, r = sortByScore(group, offset, score)
  PROVE  /\ r \in Seq(T) /\ Len(r) = Len(group) /\ ToSet(r) = ToSet(group)
         /\ rankedTo(r, Len(group), score)
<1> PICK n : n = Len(group)
  OBVIOUS
<1> DEFINE H == CHOOSE h : isSort(group, offset, score, n, h)
<1>1. n \in Nat
  OBVIOUS
<1>2. isSort(group, offset, score, n, H)
  <2>1. \E h : isSort(group, offset, score, n, h)
    BY <1>1, SortExists
  <2> QED  BY <2>1
<1>3. r = H[n]
  BY DEF sortByScore, isSort
<1> HIDE DEF H
<1>4. \A i \in 0..n : H[i] = IF i = 0 THEN group ELSE insert(H[i - 1], i, offset, score)
  BY <1>2 DEF isSort
<1> DEFINE good(k) ==
             /\ H[k] \in Seq(T) /\ Len(H[k]) = n /\ ToSet(H[k]) = ToSet(group)
             /\ rankedTo(H[k], k, score)
           Z == {k \in Nat : k <= n => good(k)}
<1>5. 0 \in Z
  <2>1. H[0] = group
    BY <1>1, <1>4
  <2>2. rankedTo(group, 0, score)
    BY DEF rankedTo
  <2> QED  BY <2>1, <2>2
<1>6. ASSUME NEW k \in Nat, k \in Z
      PROVE  k + 1 \in Z
  <2> SUFFICES ASSUME k + 1 <= n
               PROVE  good(k + 1)
    OBVIOUS
  <2>1. /\ k <= n /\ k + 1 \in 1..n /\ k + 1 \in 0..n
        /\ k + 1 # 0 /\ (k + 1) - 1 = k
    BY <1>1
  <2>2. good(k)
    BY <1>6, <2>1
  <2>3. H[k + 1] = insert(H[k], k + 1, offset, score)
    BY <1>4, <2>1
  <2> PICK s, q : s = H[k] /\ q = H[k + 1]
    OBVIOUS
  <2>4. s \in Seq(T) /\ Len(s) = n /\ ToSet(s) = ToSet(group) /\ rankedTo(s, (k + 1) - 1, score)
    BY <2>1, <2>2
  <2>5. /\ q \in Seq(T) /\ Len(q) = Len(s) /\ ToSet(q) = ToSet(s)
        /\ rankedTo(s, (k + 1) - 1, score) => rankedTo(q, k + 1, score)
    <3>1. k + 1 \in 1..Len(s) /\ q = insert(s, k + 1, offset, score)
      BY <2>1, <2>3, <2>4
    <3> QED  BY <2>4, <3>1, InsertRanks, SMTT(30)
  <2> QED  BY <2>4, <2>5
<1>7. Nat \subseteq Z
  <2> HIDE DEF Z
  <2> QED  BY <1>5, <1>6, Joins!NatSetInduction
<1>8. good(n)
  BY <1>1, <1>7
<1> QED  BY <1>3, <1>8

LEMMA RemainderBelow ==
  ASSUME NEW n \in Nat, n > 0, NEW a \in Nat
  PROVE  /\ a < n => a % n = a
         /\ n <= a /\ a < 2 * n => a % n = a - n
         /\ a % n \in 0..n - 1
  OBVIOUS

\* The rotation keeps the elements; an offset below the length is the place of
\* the element it starts with.
LEMMA RotationKeeps ==
  ASSUME NEW T, NEW group \in Seq(T), group # <<>>,
         NEW offset \in 0..Len(group) - 1,
         NEW r, r = buildRandomizedAttemptOrder(group, offset)
  PROVE  /\ r \in Seq(T) /\ Len(r) = Len(group) /\ ToSet(r) = ToSet(group)
         /\ r[1] = group[offset + 1]
<1> PICK n : n = Len(group)
  OBVIOUS
<1>1. n \in Nat /\ n > 0 /\ offset \in Int /\ 0 <= offset /\ offset < n
      /\ DOMAIN group = 1..n
  OBVIOUS
<1>2. r = [i \in 1..n |-> group[1 + ((offset + i - 1) % n)]]
  BY <1>1 DEF buildRandomizedAttemptOrder
<1>3. \A a \in Nat : a % n \in 0..n - 1
  BY <1>1, RemainderBelow
<1>4. \A i \in 1..n : 1 + ((offset + i - 1) % n) \in 1..n
  <2> SUFFICES ASSUME NEW i \in 1..n
               PROVE  1 + ((offset + i - 1) % n) \in 1..n
    OBVIOUS
  <2>1. offset + i - 1 \in Nat
    BY <1>1
  <2>2. (offset + i - 1) % n \in 0..n - 1
    BY <1>3, <2>1
  <2> QED  BY <1>1, <2>2
<1>5. DOMAIN r = 1..n /\ \A i \in 1..n : r[i] = group[1 + ((offset + i - 1) % n)]
  BY <1>2
<1>6. \A j \in 1..n : \E i \in 1..n : r[i] = group[j]
  <2> SUFFICES ASSUME NEW j \in 1..n
               PROVE  \E i \in 1..n : r[i] = group[j]
    OBVIOUS
  <2>1. CASE j > offset
    <3>1. j - offset \in 1..n /\ offset + (j - offset) - 1 = j - 1 /\ j - 1 \in Nat /\ j - 1 < n
      BY <1>1, <2>1
    <3>2. (j - 1) % n = j - 1
      BY <1>1, <3>1, RemainderBelow
    <3>3. r[j - offset] = group[1 + (j - 1)] /\ 1 + (j - 1) = j
      BY <1>5, <3>1, <3>2
    <3> QED  BY <3>1, <3>3
  <2>2. CASE ~(j > offset)
    <3>1. /\ n + j - offset \in 1..n /\ offset + (n + j - offset) - 1 = n + j - 1
          /\ n + j - 1 \in Nat /\ n <= n + j - 1 /\ n + j - 1 < 2 * n
      BY <1>1, <2>2
    <3>2. (n + j - 1) % n = (n + j - 1) - n
      BY <1>1, <3>1, RemainderBelow
    <3>3. r[n + j - offset] = group[1 + ((offset + (n + j - offset) - 1) % n)]
      BY <1>5, <3>1
    <3>4. 1 + ((offset + (n + j - offset) - 1) % n) = j
      BY <1>1, <3>1, <3>2
    <3> QED  BY <3>1, <3>3, <3>4
  <2> QED  BY <2>1, <2>2
<1>7. \A i \in 1..n : \E j \in 1..n : r[i] = group[j]
  BY <1>4, <1>5
<1>8. ToSet(r) = ToSet(group)
  <2>1. rearranged(r, group, n)
    BY <1>1, <1>5, <1>6, <1>7, Zenon DEF rearranged
  <2> QED  BY <2>1, SameElements
<1>9. r[1] = group[offset + 1]
  <2>1. offset + 1 - 1 = offset /\ 1 \in 1..n /\ offset \in Nat /\ 1 + offset = offset + 1
    BY <1>1
  <2>2. offset % n = offset
    BY <1>1, <2>1, RemainderBelow
  <2> QED  BY <1>5, <2>1, <2>2
<1>10. r \in Seq(T) /\ Len(r) = n
  <2>1. \A j \in 1..n : group[j] \in T
    BY <1>1
  <2>2. r \in [1..n -> T]
    BY <1>2, <1>4, <2>1
  <2> QED  BY <1>1, <2>2
<1> QED  BY <1>8, <1>9, <1>10
-----------------------------------------------------------------------------
(* The order over all priorities.                                          *)

\* The position and the priority of the backends with room are known, and
\* there are finitely many of them.
LEMMA RoomyBackends ==
  ASSUME NEW priority \in [Config -> Int]
  PROVE  /\ roomy \in SUBSET Int /\ roomy \in SUBSET Config /\ IsFiniteSet(roomy)
         /\ {priority[c] : c \in roomy} \in SUBSET Int
         /\ IsFiniteSet({priority[c] : c \in roomy})
<1> DEFINE P == {priority[c] : c \in roomy}
           f == [c \in roomy |-> priority[c]]
<1>1. roomy \in SUBSET Config /\ roomy \in SUBSET Int /\ IsFiniteSet(Config)
  BY RoutingAssumption DEF roomy, RoutingAssumption
<1>2. IsFiniteSet(roomy)
  BY <1>1, FS_Subset
<1>3. P \in SUBSET Int
  BY <1>1
<1>4. f \in Surjection(roomy, P)
  BY DEF Surjection
<1> HIDE DEF P, f
<1>5. IsFiniteSet(P)
  BY <1>2, <1>4, FS_Surjection
<1> QED  BY <1>1, <1>2, <1>3, <1>5 DEF P

\* What a group turns into.
ranking(r, group, score) ==
  /\ r \in Seq(Config) /\ Len(r) = Len(group) /\ ToSet(r) = ToSet(group)
  /\ anyRankedConfigHasTelemetry(group) => rankedTo(r, Len(group), score)

LEMMA GroupsRanked ==
  ASSUME NEW group \in Seq(Config), group # <<>>,
         NEW offset \in 0..Len(group) - 1, NEW score \in [Config -> Int]
  PROVE  /\ ranking(orderedGroup(group, offset, score), group, score)
         /\ ~anyRankedConfigHasTelemetry(group) =>
              orderedGroup(group, offset, score)[1] = group[offset + 1]
<1>1. CASE anyRankedConfigHasTelemetry(group)
  <2> PICK r : r = sortByScore(group, offset, score)
    OBVIOUS
  <2>1. orderedGroup(group, offset, score) = r
    BY <1>1 DEF orderedGroup
  <2>2. \A x \in Config : score[x] \in Int
    OBVIOUS
  <2>3. /\ r \in Seq(Config) /\ Len(r) = Len(group) /\ ToSet(r) = ToSet(group)
        /\ rankedTo(r, Len(group), score)
    BY <2>2, SortRanks
  <2> QED  BY <1>1, <2>1, <2>3 DEF ranking
<1>2. CASE ~anyRankedConfigHasTelemetry(group)
  <2> PICK r : r = buildRandomizedAttemptOrder(group, offset)
    OBVIOUS
  <2>1. orderedGroup(group, offset, score) = r
    BY <1>2 DEF orderedGroup
  <2>2. /\ r \in Seq(Config) /\ Len(r) = Len(group) /\ ToSet(r) = ToSet(group)
        /\ r[1] = group[offset + 1]
    BY RotationKeeps
  <2> QED  BY <1>2, <2>1, <2>2 DEF ranking
<1> QED  BY <1>1, <1>2

\* The backends with room of one priority.
peers(priority, p) == {c \in roomy : priority[c] = p}

LEMMA GroupLists ==
  ASSUME NEW priority \in [Config -> Int], NEW c \in roomy, NEW p, p = priority[c]
  PROVE  /\ IsFiniteSet(peers(priority, p))
         /\ groupOf(priority, p) \in Seq(Config)
         /\ groupOf(priority, p) # <<>>
         /\ Len(groupOf(priority, p)) = Cardinality(peers(priority, p))
         /\ Len(groupOf(priority, p)) \in 1..Cardinality(Config)
         /\ ToSet(groupOf(priority, p)) = peers(priority, p)
<1> PICK S : S = peers(priority, p)
  OBVIOUS
<1>1. S \in SUBSET roomy /\ c \in S
  BY DEF peers
<1>2. S \in SUBSET Int /\ S \in SUBSET Config
  BY <1>1, RoomyBackends
<1>3. IsFiniteSet(Config)
  BY RoutingAssumption DEF RoutingAssumption
<1>4. IsFiniteSet(S) /\ Cardinality(S) <= Cardinality(Config)
  BY <1>2, <1>3, FS_Subset
<1>5. Cardinality(S) \in Nat /\ Cardinality(Config) \in Nat /\ Cardinality(S) # 0
  BY <1>1, <1>3, <1>4, FS_CardinalityType, FS_EmptySet
<1> PICK g : g = groupOf(priority, p)
  OBVIOUS
<1>6. g = ascending(S)
  BY DEF groupOf, peers
<1>7. lists(g, S)
  BY <1>2, <1>4, <1>6, AscendingLists
<1>8. g \in [1..Cardinality(S) -> S] /\ ToSet(g) = S
  BY <1>7 DEF lists
<1>9. g \in Seq(Config) /\ Len(g) = Cardinality(S)
  BY <1>2, <1>5, <1>8
<1>10. g # <<>> /\ Len(g) \in 1..Cardinality(Config)
  BY <1>4, <1>5, <1>9
<1> QED  BY <1>4, <1>8, <1>9, <1>10

\* May d be tried right after c?
mayFollow(c, d, priority, score) ==
  /\ priority[c] <= priority[d]
  /\ (priority[c] = priority[d]
      /\ anyRankedConfigHasTelemetry(groupOf(priority, priority[c]))) =>
       score[c] <= score[d] + Tolerance

soundSteps(s, priority, score) ==
  \A i \in Nat : 1 <= i /\ i < Len(s) => mayFollow(s[i], s[i + 1], priority, score)

soundOrder(s, priority, score) ==
  s \in Seq(Config) /\ s # <<>> /\ soundSteps(s, priority, score)

\* t is what the group of priority p turns into.
isPiece(t, p, priority, score) ==
  /\ soundOrder(t, priority, score)
  /\ Len(t) = Cardinality(peers(priority, p))
  /\ ToSet(t) = peers(priority, p)

\* One piece of the order: a ranked group.
LEMMA PieceIsSound ==
  ASSUME NEW priority \in [Config -> Int], NEW score \in [Config -> Int],
         NEW random \in Nat, NEW c \in roomy, NEW p, p = priority[c],
         NEW g, g = groupOf(priority, p),
         NEW r, r = orderedGroup(g, random % Len(g), score)
  PROVE  isPiece(r, p, priority, score)
<1>1. /\ g \in Seq(Config) /\ g # <<>> /\ Len(g) = Cardinality(peers(priority, p))
      /\ ToSet(g) = peers(priority, p)
  BY GroupLists
<1>2. Len(g) \in Nat /\ Len(g) > 0
  BY <1>1
<1>3. random % Len(g) \in 0..Len(g) - 1
  BY <1>2, RemainderBelow
<1>4. ranking(r, g, score)
  BY <1>1, <1>3, GroupsRanked
<1>5. /\ r \in Seq(Config) /\ Len(r) = Len(g) /\ ToSet(r) = peers(priority, p)
      /\ anyRankedConfigHasTelemetry(g) => rankedTo(r, Len(g), score)
  BY <1>1, <1>4 DEF ranking
<1>6. r # <<>>
  BY <1>2, <1>5
<1>7. soundSteps(r, priority, score)
  <2> SUFFICES ASSUME NEW i \in Nat, 1 <= i, i < Len(r)
               PROVE  mayFollow(r[i], r[i + 1], priority, score)
    BY DEF soundSteps
  <2>1. i \in DOMAIN r /\ i + 1 \in DOMAIN r
    BY <1>5
  <2>2. r[i] \in peers(priority, p) /\ r[i + 1] \in peers(priority, p)
    BY <1>5, <2>1 DEF ToSet
  <2>3. priority[r[i]] = p /\ priority[r[i + 1]] = p
    BY <2>2 DEF peers
  <2>4. p \in Int
    BY RoomyBackends
  <2>5. anyRankedConfigHasTelemetry(g) => score[r[i]] <= score[r[i + 1]] + Tolerance
    BY <1>2, <1>5 DEF rankedTo
  <2> QED  BY <2>3, <2>4, <2>5 DEF mayFollow
<1> QED  BY <1>1, <1>5, <1>6, <1>7 DEF isPiece, soundOrder

behindEachOther(r, s, t, priority, score) ==
  /\ soundOrder(r, priority, score)
  /\ Len(r) = Len(s) + Len(t) /\ r[1] = s[1] /\ ToSet(r) = ToSet(s) \cup ToSet(t)

allFollow(s, t, priority, score) ==
  \A c \in ToSet(s), d \in ToSet(t) : mayFollow(c, d, priority, score)

\* One order behind the other.
LEMMA OrdersJoin ==
  ASSUME NEW priority, NEW score,
         NEW s, soundOrder(s, priority, score),
         NEW t, soundOrder(t, priority, score),
         allFollow(s, t, priority, score),
         NEW r, r = s \o t
  PROVE  behindEachOther(r, s, t, priority, score)
<1>s. /\ s \in Seq(Config) /\ s # <<>> /\ soundSteps(s, priority, score)
      /\ t \in Seq(Config) /\ t # <<>> /\ soundSteps(t, priority, score)
  BY DEF soundOrder
<1> PICK n, m : n = Len(s) /\ m = Len(t)
  OBVIOUS
<1>1. /\ n \in Nat /\ m \in Nat /\ n > 0 /\ m > 0 /\ r \in Seq(Config) /\ Len(r) = n + m
      /\ DOMAIN s = 1..n /\ DOMAIN t = 1..m /\ DOMAIN r = 1..n + m
  BY <1>s
<1>2. /\ \A i \in 1..n : r[i] = s[i]
      /\ \A i \in 1..m : r[n + i] = t[i]
  BY <1>s
<1>3. \A i \in 1..n + m : i \in 1..n \/ (i - n \in 1..m /\ n + (i - n) = i)
  BY <1>1
<1>4. ToSet(r) = ToSet(s) \cup ToSet(t)
  <2>1. ASSUME NEW x \in ToSet(r)
        PROVE  x \in ToSet(s) \cup ToSet(t)
    <3>1. PICK i \in 1..n + m : x = r[i]
      BY <1>1 DEF ToSet
    <3>2. CASE i \in 1..n
      <4>1. x = s[i] /\ i \in DOMAIN s
        BY <1>1, <1>2, <3>1, <3>2
      <4> QED  BY <4>1 DEF ToSet
    <3>3. CASE i - n \in 1..m /\ n + (i - n) = i
      <4>1. x = t[i - n] /\ i - n \in DOMAIN t
        BY <1>1, <1>2, <3>1, <3>3
      <4> QED  BY <4>1 DEF ToSet
    <3> QED  BY <1>3, <3>2, <3>3
  <2>2. ASSUME NEW x \in ToSet(s)
        PROVE  x \in ToSet(r)
    <3>1. PICK i \in 1..n : x = s[i]
      BY <1>1 DEF ToSet
    <3>2. i \in DOMAIN r /\ x = r[i]
      BY <1>1, <1>2, <3>1
    <3> QED  BY <3>2 DEF ToSet
  <2>3. ASSUME NEW x \in ToSet(t)
        PROVE  x \in ToSet(r)
    <3>1. PICK i \in 1..m : x = t[i]
      BY <1>1 DEF ToSet
    <3>2. n + i \in DOMAIN r /\ x = r[n + i]
      BY <1>1, <1>2, <3>1
    <3> QED  BY <3>2 DEF ToSet
  <2> QED  BY <2>1, <2>2, <2>3
<1>5. soundSteps(r, priority, score)
  <2> SUFFICES ASSUME NEW i \in Nat, 1 <= i, i < n + m
               PROVE  mayFollow(r[i], r[i + 1], priority, score)
    BY <1>1 DEF soundSteps
  <2>1. CASE i < n
    <3>1. i \in 1..n /\ i + 1 \in 1..n
      BY <1>1, <2>1
    <3>2. r[i] = s[i] /\ r[i + 1] = s[i + 1]
      BY <1>2, <3>1
    <3> QED  BY <1>s, <2>1, <3>2 DEF soundSteps
  <2>2. CASE i = n
    <3>1. n \in 1..n /\ 1 \in 1..m
      BY <1>1
    <3>2. r[i] = s[n] /\ r[i + 1] = t[1]
      BY <1>2, <2>2, <3>1
    <3>3. s[n] \in ToSet(s) /\ t[1] \in ToSet(t)
      BY <1>1, <3>1 DEF ToSet
    <3> QED  BY <3>2, <3>3 DEF allFollow
  <2>3. CASE i > n
    <3>1. i - n \in 1..m /\ (i - n) + 1 \in 1..m /\ n + (i - n) = i
          /\ n + ((i - n) + 1) = i + 1 /\ i - n \in Nat /\ 1 <= i - n /\ i - n < m
      BY <1>1, <2>3
    <3>2. r[i] = t[i - n] /\ r[i + 1] = t[(i - n) + 1]
      BY <1>2, <3>1
    <3> QED  BY <1>s, <3>1, <3>2 DEF soundSteps
  <2> QED  BY <1>1, <2>1, <2>2, <2>3
<1>6. r # <<>> /\ r[1] = s[1]
  BY <1>1, <1>2
<1> QED  BY <1>1, <1>4, <1>5, <1>6 DEF soundOrder, behindEachOther

\* The backends with room of the first k priorities.
firstPriorities(priority, ps, k) ==
  {c \in roomy : \E i \in 1..k : priority[c] = ps[i]}

partialOrder(s, priority, score, ps, k) ==
  /\ soundOrder(s, priority, score)
  /\ Len(s) = Cardinality(firstPriorities(priority, ps, k))
  /\ ToSet(s) = firstPriorities(priority, ps, k)

\* ps lists the n priorities of the backends with room.
priorityList(ps, n, priority) ==
  /\ lists(ps, {priority[c] : c \in roomy})
  /\ n = Cardinality({priority[c] : c \in roomy})

LEMMA PriorityFacts ==
  ASSUME NEW priority \in [Config -> Int], NEW ps, NEW n, priorityList(ps, n, priority)
  PROVE  /\ n \in Nat /\ (roomy # {} => n > 0) /\ DOMAIN ps = 1..n
         /\ \A i \in 1..n : \E c \in roomy : ps[i] = priority[c]
         /\ \A i \in 1..n : ps[i] \in Int
         /\ \A i, j \in 1..n : i < j => ps[i] < ps[j]
         /\ \A c \in roomy : \E i \in 1..n : priority[c] = ps[i]
<1>p. PICK P : P = {priority[c] : c \in roomy}
  OBVIOUS
<1>1. IsFiniteSet(P) /\ P \in SUBSET Int
  BY <1>p, RoomyBackends
<1>2. lists(ps, P) /\ n = Cardinality(P)
  BY <1>p DEF priorityList
<1>3. n \in Nat
  BY <1>1, <1>2, FS_CardinalityType
<1>4. roomy # {} => n # 0
  <2>1. roomy # {} => P # {}
    BY <1>p
  <2> QED  BY <1>1, <1>2, <2>1, FS_EmptySet
<1>5. /\ ps \in [1..n -> P] /\ ToSet(ps) = P
      /\ \A i, j \in 1..n : i < j => ps[i] < ps[j]
  BY <1>2 DEF lists
<1>6. \A i \in 1..n : ps[i] \in P
  BY <1>5
<1>7. \A c \in roomy : priority[c] \in P
  BY <1>p
<1>8. \A x \in P : \E i \in 1..n : x = ps[i]
  BY <1>5 DEF ToSet
<1>9. \A x \in P : \E c \in roomy : x = priority[c]
  BY <1>p
<1>10. DOMAIN ps = 1..n
  BY <1>5
<1>11. \A i \in 1..n : ps[i] \in Int
  BY <1>1, <1>6
<1>12. \A c \in roomy : \E i \in 1..n : priority[c] = ps[i]
  BY <1>7, <1>8
<1>13. \A i \in 1..n : \E c \in roomy : ps[i] = priority[c]
  BY <1>6, <1>9
<1>14. roomy # {} => n > 0
  BY <1>3, <1>4
<1> QED  BY <1>3, <1>5, <1>10, <1>11, <1>12, <1>13, <1>14

extendedBy(r, s, priority, score, ps, k) ==
  partialOrder(r, priority, score, ps, k + 1) /\ r[1] = s[1]

\* One more priority.
LEMMA PartExtends ==
  ASSUME NEW priority \in [Config -> Int], NEW score \in [Config -> Int],
         NEW ps, NEW n, priorityList(ps, n, priority),
         NEW k \in Nat, k > 0, k + 1 <= n,
         NEW s, partialOrder(s, priority, score, ps, k),
         NEW t, NEW p, p = ps[k + 1], isPiece(t, p, priority, score)
  PROVE  extendedBy(s \o t, s, priority, score, ps, k)
<1> DEFINE A == firstPriorities(priority, ps, k)
           B == peers(priority, ps[k + 1])
<1>1. /\ n \in Nat
      /\ \A i \in 1..n : ps[i] \in Int
      /\ \A i, j \in 1..n : i < j => ps[i] < ps[j]
  BY PriorityFacts
<1>4. k + 1 \in 1..n /\ \A i \in 1..k : i \in 1..n /\ i < k + 1
  BY <1>1
<1>5. \A i \in 1..k : ps[i] < ps[k + 1] /\ ps[i] \in Int /\ ps[k + 1] \in Int
  BY <1>1, <1>4
<1>6. A \subseteq roomy /\ B \subseteq roomy /\ A \cap B = {}
  <2>1. A \subseteq roomy /\ B \subseteq roomy
    BY DEF firstPriorities, peers
  <2>2. \A i \in 1..k : ps[i] # ps[k + 1]
    BY <1>5
  <2>3. A \cap B = {}
    BY <2>2 DEF firstPriorities, peers
  <2> QED  BY <2>1, <2>3
<1>7. firstPriorities(priority, ps, k + 1) = A \cup B
  <2>1. \A i \in 1..k + 1 : i \in 1..k \/ i = k + 1
    OBVIOUS
  <2>2. \A i \in 1..k : i \in 1..k + 1
    OBVIOUS
  <2>3. k + 1 \in 1..k + 1
    OBVIOUS
  <2> QED  BY <2>1, <2>2, <2>3 DEF firstPriorities, peers
<1>8. ToSet(s) = A /\ ToSet(t) = B /\ Len(s) = Cardinality(A) /\ Len(t) = Cardinality(B)
      /\ soundOrder(s, priority, score) /\ soundOrder(t, priority, score)
  BY DEF partialOrder, isPiece
<1>9. allFollow(s, t, priority, score)
  <2> SUFFICES ASSUME NEW c \in ToSet(s), NEW d \in ToSet(t)
               PROVE  mayFollow(c, d, priority, score)
    BY DEF allFollow
  <2>1. PICK i \in 1..k : priority[c] = ps[i]
    BY <1>8 DEF firstPriorities
  <2>2. priority[d] = ps[k + 1]
    BY <1>8 DEF peers
  <2>3. ps[i] <= ps[k + 1] /\ ps[i] # ps[k + 1]
    BY <1>5
  <2> QED  BY <2>1, <2>2, <2>3 DEF mayFollow
<1>10. behindEachOther(s \o t, s, t, priority, score)
  BY <1>8, <1>9, OrdersJoin
<1> HIDE DEF A, B
<1>11. Cardinality(A \cup B) = Cardinality(A) + Cardinality(B)
  <2>1. IsFiniteSet(A) /\ IsFiniteSet(B)
    BY <1>6, RoomyBackends, FS_Subset
  <2>2. Cardinality(A) \in Nat /\ Cardinality(B) \in Nat /\ Cardinality(A \cap B) = 0
    BY <1>6, <2>1, FS_CardinalityType, FS_EmptySet
  <2>3. Cardinality(A \cup B) = Cardinality(A) + Cardinality(B) - Cardinality(A \cap B)
    BY <2>1, FS_Union
  <2> QED  BY <2>2, <2>3
<1> QED  BY <1>7, <1>8, <1>10, <1>11 DEF extendedBy, partialOrder, behindEachOther

\* The pieces attemptOrder joins.
pieces(priority, score, random, ps) ==
  [i \in DOMAIN ps |->
     LET group == groupOf(priority, ps[i])
     IN  orderedGroup(group, random % Len(group), score)]

arePieces(q, ps, n, priority, score) ==
  /\ DOMAIN q = 1..n /\ Len(q) = n
  /\ \A i \in 1..n : isPiece(q[i], ps[i], priority, score)

LEMMA PiecesAre ==
  ASSUME NEW priority \in [Config -> Int], NEW score \in [Config -> Int],
         NEW random \in Nat, NEW ps, NEW n, priorityList(ps, n, priority),
         NEW q, q = pieces(priority, score, random, ps)
  PROVE  arePieces(q, ps, n, priority, score)
<1>1. DOMAIN ps = 1..n /\ n \in Nat
  BY PriorityFacts
<1>2. DOMAIN q = 1..n
  BY <1>1 DEF pieces
<1>3. Len(q) = n
  BY <1>1, <1>2
<1>4. ASSUME NEW i \in 1..n
      PROVE  isPiece(q[i], ps[i], priority, score)
  <2>1. PICK c \in roomy : ps[i] = priority[c]
    BY PriorityFacts
  <2> PICK p : p = ps[i]
    OBVIOUS
  <2> PICK g : g = groupOf(priority, p)
    OBVIOUS
  <2> PICK r : r = q[i]
    OBVIOUS
  <2>2. r = orderedGroup(g, random % Len(g), score)
    BY <1>1 DEF pieces
  <2>3. p = priority[c]
    BY <2>1
  <2>4. isPiece(r, p, priority, score)
    BY <2>2, <2>3, PieceIsSound
  <2> QED  BY <2>4
<1> QED  BY <1>2, <1>3, <1>4 DEF arePieces

\* All priorities together.
LEMMA OrderIsPartial ==
  ASSUME NEW priority \in [Config -> Int], NEW score \in [Config -> Int],
         NEW q, NEW ps, NEW n \in Nat, n > 0, priorityList(ps, n, priority),
         arePieces(q, ps, n, priority, score)
  PROVE  /\ partialOrder(FlattenSeq(q), priority, score, ps, n)
         /\ FlattenSeq(q)[1] = q[1][1]
<1>q. /\ DOMAIN q = 1..n /\ Len(q) = n
      /\ \A i \in 1..n : isPiece(q[i], ps[i], priority, score)
  BY DEF arePieces
<1> DEFINE H == CHOOSE h : Joins!isFlatten(q, n, h)
<1>1. Joins!isFlatten(q, n, H)
  <2>1. \E h : Joins!isFlatten(q, n, h)
    BY Joins!FlattenExists
  <2> QED  BY <2>1
<1>2. FlattenSeq(q) = H[n]
  <2>1. n # 0
    OBVIOUS
  <2> QED  BY <1>q, <2>1 DEF FlattenSeq, Joins!isFlatten
<1> HIDE DEF H
<1>3. \A i \in 1..n : H[i] = IF i = 1 THEN q[i] ELSE H[i - 1] \o q[i]
  BY <1>1 DEF Joins!isFlatten
<1> DEFINE good(k) == partialOrder(H[k], priority, score, ps, k) /\ H[k][1] = q[1][1]
           Z == {k \in Nat : k \in 1..n => good(k)}
<1>4. good(1)
  <2>1. 1 \in 1..n /\ H[1] = q[1]
    BY <1>3
  <2>2. firstPriorities(priority, ps, 1) = peers(priority, ps[1])
    <3>1. \A i \in 1..1 : i = 1
      OBVIOUS
    <3>2. 1 \in 1..1
      OBVIOUS
    <3> QED  BY <3>1, <3>2 DEF firstPriorities, peers
  <2>3. isPiece(q[1], ps[1], priority, score)
    BY <1>q, <2>1
  <2> QED  BY <2>1, <2>2, <2>3 DEF partialOrder, isPiece
<1>5. 0 \in Z
  OBVIOUS
<1>6. ASSUME NEW k \in Nat, k \in Z
      PROVE  k + 1 \in Z
  <2> SUFFICES ASSUME k + 1 \in 1..n
               PROVE  good(k + 1)
    OBVIOUS
  <2>1. CASE k = 0
    BY <1>4, <2>1
  <2>2. CASE k # 0
    <3>1. k \in 1..n /\ k > 0 /\ k + 1 # 1 /\ (k + 1) - 1 = k /\ k + 1 <= n
      BY <2>2
    <3>2. good(k)
      BY <1>6, <3>1
    <3>3. H[k + 1] = H[k] \o q[k + 1]
      BY <1>3, <3>1
    <3> PICK s : s = H[k]
      OBVIOUS
    <3> PICK t : t = q[k + 1]
      OBVIOUS
    <3>4. isPiece(t, ps[k + 1], priority, score)
      BY <1>q
    <3>5. partialOrder(s, priority, score, ps, k) /\ s[1] = q[1][1]
      BY <3>2
    <3>6. extendedBy(s \o t, s, priority, score, ps, k)
      BY <3>1, <3>4, <3>5, PartExtends
    <3> QED  BY <3>3, <3>5, <3>6 DEF extendedBy
  <2> QED  BY <2>1, <2>2
<1>7. Nat \subseteq Z
  <2> HIDE DEF Z
  <2> QED  BY <1>5, <1>6, Joins!NatSetInduction
<1>8. good(n)
  BY <1>7
<1> QED  BY <1>2, <1>8

LEMMA OrderJoinsPieces ==
  ASSUME NEW priority \in [Config -> Int], NEW score, NEW random
  PROVE  \E ps, n :
           /\ priorityList(ps, n, priority)
           /\ attemptOrder(priority, score, random) =
                FlattenSeq(pieces(priority, score, random, ps))
<1> DEFINE ps == ascending({priority[c] : c \in roomy})
           n == Cardinality({priority[c] : c \in roomy})
<1>1. priorityList(ps, n, priority)
  <2>1. lists(ps, {priority[c] : c \in roomy})
    BY RoomyBackends, AscendingLists
  <2> QED  BY <2>1 DEF priorityList
<1>2. attemptOrder(priority, score, random) = FlattenSeq(pieces(priority, score, random, ps))
  BY DEF attemptOrder, pieces
<1> HIDE DEF ps, n
<1> QED  BY <1>1, <1>2

\* The ranking is sound, for any scores, priorities and offsets.
THEOREM RankingIsSound ==
  ASSUME NEW priority \in [Config -> Int], NEW score \in [Config -> Int],
         NEW random \in Nat
  PROVE  rankedSoundly(attemptOrder(priority, score, random), priority, score)
<1> PICK order : order = attemptOrder(priority, score, random)
  OBVIOUS
<1>1. PICK ps, n : /\ priorityList(ps, n, priority)
                   /\ order = FlattenSeq(pieces(priority, score, random, ps))
  BY OrderJoinsPieces
<1> PICK q : q = pieces(priority, score, random, ps)
  OBVIOUS
<1>2. n \in Nat /\ arePieces(q, ps, n, priority, score)
  BY <1>1, PriorityFacts, PiecesAre
<1>3. /\ Len(order) \in Nat /\ Len(order) = Cardinality(roomy) /\ ToSet(order) = roomy
      /\ soundSteps(order, priority, score)
  <2>1. CASE n = 0
    <3>1. q = <<>>
      BY <1>1, <1>2, <2>1, PriorityFacts DEF pieces
    <3>2. order = <<>>
      BY <1>1, <3>1 DEF FlattenSeq
    <3>3. Len(order) = 0 /\ ToSet(order) = {}
      BY <3>2 DEF ToSet
    <3>4. roomy = {}
      BY <1>1, <2>1, PriorityFacts
    <3> QED  BY <3>3, <3>4, FS_EmptySet DEF soundSteps
  <2>2. CASE n # 0
    <3>1. n > 0
      BY <1>2, <2>2
    <3>2. partialOrder(order, priority, score, ps, n)
      BY <1>1, <1>2, <3>1, OrderIsPartial
    <3>3. firstPriorities(priority, ps, n) = roomy
      BY <1>1, PriorityFacts DEF firstPriorities
    <3> QED  BY <3>2, <3>3 DEF partialOrder, soundOrder
  <2> QED  BY <2>1, <2>2
<1>4. ASSUME NEW i \in 1..Len(order) - 1
      PROVE  mayFollow(order[i], order[i + 1], priority, score)
  BY <1>3 DEF soundSteps
<1> QED  BY <1>3, <1>4 DEF rankedSoundly, mayFollow

\* Before any backend of the best priority was used, some offset puts each of
\* them first.
LEMMA UnusedMayBeFirst ==
  ASSUME NEW priority \in [Config -> Int], NEW score \in [Config -> Int],
         NEW c \in roomy,
         \A d \in roomy : priority[c] <= priority[d] /\
                          (priority[d] = priority[c] => ~hasTelemetry(d))
  PROVE  \E random \in 0..Cardinality(Config) - 1 :
           attemptOrder(priority, score, random)[1] = c
<1> PICK p : p = priority[c]
  OBVIOUS
<1> PICK g : g = groupOf(priority, p)
  OBVIOUS
<1>1. /\ g \in Seq(Config) /\ g # <<>> /\ Len(g) \in 1..Cardinality(Config)
      /\ ToSet(g) = peers(priority, p)
  BY GroupLists
<1>2. ~anyRankedConfigHasTelemetry(g)
  <2> SUFFICES ASSUME NEW i \in DOMAIN g
               PROVE  ~hasTelemetry(g[i])
    BY DEF anyRankedConfigHasTelemetry
  <2>1. g[i] \in peers(priority, p)
    BY <1>1 DEF ToSet
  <2> QED  BY <2>1 DEF peers
<1>3. PICK j \in 1..Len(g) : g[j] = c
  <2>1. c \in ToSet(g)
    BY <1>1 DEF peers
  <2>2. DOMAIN g = 1..Len(g)
    BY <1>1
  <2> QED  BY <2>1, <2>2 DEF ToSet
<1> PICK random : random = j - 1
  OBVIOUS
<1>4. Len(g) \in Nat /\ Len(g) > 0 /\ Cardinality(Config) \in Nat
  <2>1. Cardinality(Config) \in Nat
    BY RoutingAssumption, FS_CardinalityType DEF RoutingAssumption
  <2> QED  BY <1>1, <2>1
<1>5. /\ random \in Nat /\ random < Len(g) /\ random + 1 = j
      /\ random \in 0..Len(g) - 1 /\ random \in 0..Cardinality(Config) - 1
  BY <1>1, <1>4
<1>6. random % Len(g) = random
  BY <1>4, <1>5, RemainderBelow
<1>7. orderedGroup(g, random, score)[1] = c
  BY <1>1, <1>2, <1>3, <1>5, GroupsRanked
<1>8. PICK ps, n : /\ priorityList(ps, n, priority)
                   /\ attemptOrder(priority, score, random) =
                        FlattenSeq(pieces(priority, score, random, ps))
  BY OrderJoinsPieces
<1> PICK q : q = pieces(priority, score, random, ps)
  OBVIOUS
<1>9. /\ n \in Nat /\ n > 0 /\ DOMAIN ps = 1..n
      /\ \A i \in 1..n : \E d \in roomy : ps[i] = priority[d]
      /\ \A i \in 1..n : ps[i] \in Int
      /\ \A i, k \in 1..n : i < k => ps[i] < ps[k]
      /\ \A d \in roomy : \E i \in 1..n : priority[d] = ps[i]
  <2>1. priorityList(ps, n, priority)
    BY <1>8
  <2>2. n \in Nat /\ (roomy # {} => n > 0) /\ DOMAIN ps = 1..n
    BY <2>1, PriorityFacts
  <2>3. /\ \A i \in 1..n : \E d \in roomy : ps[i] = priority[d]
        /\ \A i \in 1..n : ps[i] \in Int
    <3>1. \A i \in 1..n : \E d \in roomy : ps[i] = priority[d]
      BY <2>1, PriorityFacts
    <3>2. \A i \in 1..n : ps[i] \in Int
      BY <2>1, PriorityFacts
    <3> QED  BY <3>1, <3>2
  <2>4. \A i, k \in 1..n : i < k => ps[i] < ps[k]
    BY <2>1, PriorityFacts
  <2>5. \A d \in roomy : \E i \in 1..n : priority[d] = ps[i]
    BY <2>1, PriorityFacts
  <2> QED  BY <2>2, <2>3, <2>4, <2>5
<1>10. ps[1] = p
  <2>1. PICK i \in 1..n : p = ps[i]
    BY <1>9
  <2>2. 1 \in 1..n
    BY <1>9
  <2>3. PICK d \in roomy : ps[1] = priority[d]
    BY <1>9, <2>2
  <2>4. ps[1] \in Int /\ ps[i] \in Int /\ ps[i] <= ps[1]
    BY <1>9, <2>1, <2>2, <2>3
  <2>5. i # 1 => ps[1] < ps[i]
    BY <1>9, <2>2
  <2> QED  BY <2>1, <2>4, <2>5
<1>11. q[1] = orderedGroup(g, random, score)
  <2>1. 1 \in DOMAIN ps
    BY <1>9
  <2>2. q[1] = orderedGroup(g, random % Len(g), score)
    BY <1>10, <2>1 DEF pieces
  <2> QED  BY <1>6, <2>2
<1>12. arePieces(q, ps, n, priority, score)
  BY <1>5, <1>8, PiecesAre
<1>13. FlattenSeq(q)[1] = q[1][1]
  BY <1>8, <1>9, <1>12, OrderIsPartial
<1> QED  BY <1>5, <1>7, <1>8, <1>11, <1>13
-----------------------------------------------------------------------------
(* The scores of a state.                                                  *)

LEMMA ScoresAreNumbers ==
  ASSUME RuntimeTypeOK, NEW latency \in [measured -> Latencies], NEW c \in Config
  PROVE  scoreOf(c, latency) \in Int
<1>1. c \in measured => latency[c] \in Nat
  BY RoutingAssumption DEF RoutingAssumption
<1>2. activeRequests[c] \in Nat /\ totalRequests[c] \in Nat /\ failureCount[c] \in Nat
  BY DEF RuntimeTypeOK
<1> PICK a : a = (IF c \in measured THEN latency[c]
                  ELSE defaultBackendLatencyScore + defaultFirstTokenScore)
  OBVIOUS
<1> PICK b : b = activeRequests[c] * activeRequestPenaltyPerConn
  OBVIOUS
<1> PICK d : d = (IF totalRequests[c] > 0
                  THEN (failureCount[c] * failureRatePenaltyMultiplier) \div totalRequests[c]
                  ELSE 0)
  OBVIOUS
<1>3. a \in Int
  BY <1>1 DEF defaultBackendLatencyScore, defaultFirstTokenScore
<1>4. b \in Int
  BY <1>2 DEF activeRequestPenaltyPerConn
<1>5. d \in Int
  BY <1>2 DEF failureRatePenaltyMultiplier
<1>6. computeAdaptiveScore(c, latency) = a + b + d
  BY DEF computeAdaptiveScore
<1>7. computeAdaptiveScore(c, latency) \in Int
  BY <1>3, <1>4, <1>5, <1>6
<1>8. defaultBackendLatencyScore \in Int
  BY DEF defaultBackendLatencyScore
<1> QED  BY <1>7, <1>8 DEF scoreOf

\* In every state with sound types the order is a sound ranking.
LEMMA TypesRankSoundly == RuntimeTypeOK => AttemptOrdersSound
<1> SUFFICES ASSUME RuntimeTypeOK,
                    NEW latency \in [measured -> Latencies],
                    NEW priority \in Prioritized,
                    NEW score, score = [c \in Config |-> scoreOf(c, latency)],
                    NEW orders,
                    orders = {attemptOrder(priority, score, random) :
                                random \in 0..Cardinality(Config) - 1}
             PROVE  /\ \A order \in orders : rankedSoundly(order, priority, score)
                    /\ eachMayBeFirst(orders, priority)
  BY Zenon DEF AttemptOrdersSound
<1>1. priority \in [Config -> Int]
  BY RoutingAssumption DEF RoutingAssumption
<1>2. \A c \in Config : scoreOf(c, latency) \in Int
  BY ScoresAreNumbers
<1>3. score \in [Config -> Int]
  BY <1>2
<1>4. ASSUME NEW order \in orders
      PROVE  rankedSoundly(order, priority, score)
  <2>1. PICK random \in 0..Cardinality(Config) - 1 :
               order = attemptOrder(priority, score, random)
    OBVIOUS
  <2>2. Cardinality(Config) \in Nat
    BY RoutingAssumption, FS_CardinalityType DEF RoutingAssumption
  <2>3. random \in Nat
    BY <2>2
  <2> QED  BY <1>1, <1>3, <2>1, <2>3, RankingIsSound
<1>5. eachMayBeFirst(orders, priority)
  <2> SUFFICES ASSUME NEW c \in roomy,
                      \A d \in roomy : priority[c] <= priority[d] /\
                        (priority[d] = priority[c] => ~hasTelemetry(d))
               PROVE  \E order \in orders : order[1] = c
    BY DEF eachMayBeFirst
  <2>1. PICK random \in 0..Cardinality(Config) - 1 :
               attemptOrder(priority, score, random)[1] = c
    BY <1>1, <1>3, UnusedMayBeFirst
  <2>2. attemptOrder(priority, score, random) \in orders
    OBVIOUS
  <2> QED  BY <2>1, <2>2
<1> QED  BY <1>4, <1>5

\* Whatever was started, finished, reset or measured before, buildAttemptOrder
\* returns every backend that has room once, in the order of priority and,
\* where something was measured, of the score, and while nothing of the best
\* priority was used each of its backends may come first.
THEOREM OrdersSound == RuntimeSpec => []AttemptOrdersSound
  BY RuntimeTypeCorrect, TypesRankSoundly, PTL
=============================================================================
