---------------------------- MODULE FoldInduction ----------------------------
(***************************************************************************)
(* Lemmas about a sequence folded from left to right by some operator, and *)
(* about sequences joined to one, for the proofs about the models that are *)
(* built from them.  They instantiate this module with the operator they   *)
(* fold by.                                                                *)
(*                                                                         *)
(* FoldLeft is defined by a function over the subsets of the domain, which *)
(* takes out the greatest index first; the proofs show that there is such  *)
(* a function and follow it along the intervals 1..k.                      *)
(***************************************************************************)
EXTENDS Integers, SequencesExt, WellFoundedInduction, TLAPS

CONSTANT Op(_, _)

fold(base, seq) == FoldLeft(Op, base, seq)
-----------------------------------------------------------------------------
(* Induction, over numbers and over sequences, as facts about sets.        *)

\* A set that has 0 and with every number the next has all of them.
LEMMA NatSetInduction ==
  ASSUME NEW S, 0 \in S, \A n \in Nat : n \in S => n + 1 \in S
  PROVE  Nat \subseteq S
<1>1. IsWellFoundedOn(OpToRel(<, Nat), Nat)
  BY NatLessThanWellFounded
<1>2. SUFFICES ASSUME Nat \ S # {} PROVE FALSE
  OBVIOUS
<1>3. PICK x \in Nat \ S : \A y \in Nat \ S : ~(<<y, x>> \in OpToRel(<, Nat))
  BY <1>1, <1>2, WFMin
<1>4. x # 0
  OBVIOUS
<1>5. x - 1 \in Nat \ S
  BY <1>4
<1>6. <<x - 1, x>> \in OpToRel(<, Nat)
  BY <1>4 DEF OpToRel
<1> QED  BY <1>3, <1>5, <1>6

\* A set that has the empty sequence and is closed under Append has all.
LEMMA SeqSetInduction ==
  ASSUME NEW E, NEW Z, <<>> \in Z,
         \A s \in Seq(E), e \in E : s \in Z => Append(s, e) \in Z
  PROVE  Seq(E) \subseteq Z
<1> DEFINE S == {n \in Nat : \A s \in Seq(E) : Len(s) = n => s \in Z}
<1>1. 0 \in S
  OBVIOUS
<1>2. ASSUME NEW n \in Nat, n \in S
      PROVE  n + 1 \in S
  <2> SUFFICES ASSUME NEW s \in Seq(E), Len(s) = n + 1
               PROVE  s \in Z
    OBVIOUS
  <2> DEFINE t == SubSeq(s, 1, n)
  <2>1. t \in Seq(E) /\ Len(t) = n
    OBVIOUS
  <2>2. s[n + 1] \in E
    OBVIOUS
  <2>3. s = Append(t, s[n + 1])
    OBVIOUS
  <2> QED  BY <1>2, <2>1, <2>2, <2>3
<1>3. Nat \subseteq S
  BY <1>1, <1>2, NatSetInduction
<1> QED  BY <1>3
-----------------------------------------------------------------------------
(* The function behind a fold.                                             *)

isFold(base, seq, D, h) ==
  h = [s \in SUBSET D |->
         IF s = {} THEN base
         ELSE LET x == Max(s) IN Op(h[s \ {x}], seq[x])]

LEMMA MaxOfNext ==
  ASSUME NEW n \in Nat, NEW s \in SUBSET (1..n + 1), n + 1 \in s
  PROVE  Max(s) = n + 1
<1>1. \A y \in s : n + 1 >= y
  OBVIOUS
<1>2. \A x \in s : (\A y \in s : x >= y) => x = n + 1
  OBVIOUS
<1> DEFINE M == CHOOSE x \in s : \A y \in s : x >= y
<1>3. M \in s /\ \A y \in s : M >= y
  BY <1>1
<1>4. M = n + 1
  BY <1>2, <1>3
<1> QED  BY <1>4 DEF Max

\* There is one for every length: the one for n + 1 extends that for n by the
\* sets that have n + 1 in them.
LEMMA FoldExists ==
  ASSUME NEW base, NEW seq
  PROVE  \A n \in Nat : \E h : isFold(base, seq, 1..n, h)
<1> DEFINE S == {n \in Nat : \E h : isFold(base, seq, 1..n, h)}
<1>1. 0 \in S
  <2> DEFINE h == [s \in SUBSET (1..0) |-> base]
  <2>1. 1..0 = {}
    OBVIOUS
  <2>2. isFold(base, seq, 1..0, h)
    BY <2>1 DEF isFold
  <2> QED  BY <2>2
<1>2. ASSUME NEW n \in Nat, n \in S
      PROVE  n + 1 \in S
  <2>1. PICK h : isFold(base, seq, 1..n, h)
    BY <1>2
  <2> DEFINE g == [s \in SUBSET (1..n + 1) |->
                     IF n + 1 \in s THEN Op(h[s \ {n + 1}], seq[n + 1])
                     ELSE h[s]]
  <2>2. ASSUME NEW s \in SUBSET (1..n + 1)
        PROVE  g[s] = IF s = {} THEN base
                      ELSE LET x == Max(s) IN Op(g[s \ {x}], seq[x])
    <3>1. CASE n + 1 \in s
      <4>1. Max(s) = n + 1
        BY <3>1, MaxOfNext
      <4>2. g[s \ {n + 1}] = h[s \ {n + 1}]
        OBVIOUS
      <4> QED  BY <3>1, <4>1, <4>2
    <3>2. CASE n + 1 \notin s
      <4>1. s \in SUBSET (1..n) /\ g[s] = h[s]
        BY <3>2
      <4>2. h[s] = IF s = {} THEN base
                   ELSE LET x == Max(s) IN Op(h[s \ {x}], seq[x])
        BY <4>1, <2>1 DEF isFold
      <4>3. g[s \ {Max(s)}] = h[s \ {Max(s)}]
        BY <3>2
      <4> QED  BY <4>1, <4>2, <4>3
    <3> QED  BY <3>1, <3>2
  <2>3. isFold(base, seq, 1..n + 1, g)
    BY <2>2 DEF isFold
  <2> QED  BY <2>3
<1>3. Nat \subseteq S
  <2> HIDE DEF S
  <2> QED  BY <1>1, <1>2, NatSetInduction
<1> QED  BY <1>3

LEMMA FoldIsFunction ==
  ASSUME NEW base, NEW S, NEW seq \in Seq(S)
  PROVE  \E h : isFold(base, seq, 1..Len(seq), h) /\ fold(base, seq) = h[1..Len(seq)]
<1> DEFINE H == CHOOSE h : isFold(base, seq, DOMAIN seq, h)
<1>1. DOMAIN seq = 1..Len(seq) /\ Len(seq) \in Nat
  OBVIOUS
<1>2. \E h : isFold(base, seq, DOMAIN seq, h)
  BY <1>1, FoldExists
<1>3. isFold(base, seq, DOMAIN seq, H)
  BY <1>2
<1>4. fold(base, seq) = H[DOMAIN seq]
  BY DEF fold, FoldLeft, MapThenFoldSet, isFold
<1> QED  BY <1>1, <1>3, <1>4

LEMMA FoldUnfolds ==
  ASSUME NEW base, NEW seq, NEW n \in Nat, NEW h, isFold(base, seq, 1..n, h)
  PROVE  h[1..0] = base /\ \A k \in 1..n : h[1..k] = Op(h[1..k - 1], seq[k])
<1>1. h[1..0] = base
  <2>1. 1..0 = {} /\ {} \in SUBSET (1..n)
    OBVIOUS
  <2> QED  BY <2>1 DEF isFold
<1>2. ASSUME NEW k \in 1..n
      PROVE  h[1..k] = Op(h[1..k - 1], seq[k])
  <2>1. k - 1 \in Nat /\ (k - 1) + 1 = k /\ k \in 1..k /\ 1..k \in SUBSET (1..k)
    OBVIOUS
  <2>2. Max(1..k) = k
    BY <2>1, MaxOfNext
  <2>3. \A i \in 1..k : i \in 1..n
    OBVIOUS
  <2>4. 1..k \in SUBSET (1..n) /\ 1..k # {}
    BY <2>1, <2>3
  <2>5. (1..k) \ {k} = 1..k - 1
    OBVIOUS
  <2> QED  BY <2>2, <2>4, <2>5 DEF isFold
<1> QED  BY <1>1, <1>2
-----------------------------------------------------------------------------
(* What a fold computes.                                                   *)

\* Folding nothing gives the base.
THEOREM FoldEmpty == \A base : fold(base, <<>>) = base
<1> TAKE base
<1>1. <<>> \in Seq({}) /\ Len(<<>>) = 0
  OBVIOUS
<1>2. PICK h : isFold(base, <<>>, 1..0, h) /\ fold(base, <<>>) = h[1..0]
  BY <1>1, FoldIsFunction
<1> QED  BY <1>2, FoldUnfolds

\* Folding one more element applies the operator once more.
THEOREM FoldAppend ==
  ASSUME NEW base, NEW S, NEW s \in Seq(S), NEW e \in S
  PROVE  fold(base, Append(s, e)) = Op(fold(base, s), e)
<1> DEFINE n == Len(s)
           t == Append(s, e)
<1>1. n \in Nat /\ t \in Seq(S) /\ Len(t) = n + 1 /\ t[n + 1] = e
  OBVIOUS
<1>2. \A i \in 1..n : t[i] = s[i]
  OBVIOUS
<1> HIDE DEF t, n
<1>3. PICK h : isFold(base, t, 1..n + 1, h) /\ fold(base, t) = h[1..n + 1]
  BY <1>1, FoldIsFunction
<1>4. PICK g : isFold(base, s, 1..n, g) /\ fold(base, s) = g[1..n]
  BY <1>1, FoldIsFunction DEF n
<1>5. h[1..0] = base /\ \A k \in 1..n + 1 : h[1..k] = Op(h[1..k - 1], t[k])
  BY <1>1, <1>3, FoldUnfolds
<1>6. g[1..0] = base /\ \A k \in 1..n : g[1..k] = Op(g[1..k - 1], s[k])
  BY <1>1, <1>4, FoldUnfolds
<1> DEFINE Z == {k \in Nat : k <= n => h[1..k] = g[1..k]}
<1>7. 0 \in Z
  BY <1>5, <1>6
<1>8. ASSUME NEW k \in Nat, k \in Z
      PROVE  k + 1 \in Z
  <2> SUFFICES ASSUME k + 1 <= n
               PROVE  h[1..k + 1] = g[1..k + 1]
    OBVIOUS
  <2>1. /\ k + 1 \in 1..n /\ k + 1 \in 1..n + 1
        /\ (k + 1) - 1 = k /\ k <= n
    BY <1>1
  <2>2. h[1..k] = g[1..k]
    BY <1>8, <2>1
  <2>3. h[1..k + 1] = Op(h[1..k], t[k + 1])
    BY <1>5, <2>1
  <2>4. g[1..k + 1] = Op(g[1..k], s[k + 1])
    BY <1>6, <2>1
  <2> QED  BY <1>2, <2>1, <2>2, <2>3, <2>4
<1>9. Nat \subseteq Z
  <2> HIDE DEF Z
  <2> QED  BY <1>7, <1>8, NatSetInduction
<1>10. h[1..n] = g[1..n]
  BY <1>1, <1>9
<1>11. h[1..n + 1] = Op(h[1..n], t[n + 1])
  <2>1. n + 1 \in 1..n + 1 /\ (n + 1) - 1 = n
    BY <1>1
  <2> QED  BY <1>5, <2>1
<1> QED  BY <1>1, <1>3, <1>4, <1>10, <1>11 DEF t

\* A single element.
LEMMA FoldOne == \A base, e : fold(base, <<e>>) = Op(base, e)
<1> TAKE base, e
<1>1. <<>> \in Seq({e}) /\ e \in {e} /\ Append(<<>>, e) = <<e>>
  OBVIOUS
<1>2. fold(base, Append(<<>>, e)) = Op(fold(base, <<>>), e)
  BY <1>1, FoldAppend
<1> QED  BY <1>1, <1>2, FoldEmpty

\* What the base is in and no step leaves, the result is in.
LEMMA FoldKeeps ==
  ASSUME NEW E, NEW s \in Seq(E), NEW X, NEW base \in X,
         \A x \in X, e \in E : Op(x, e) \in X
  PROVE  fold(base, s) \in X
<1> DEFINE Z == {t \in Seq(E) : fold(base, t) \in X}
<1>1. <<>> \in Z
  BY FoldEmpty
<1>2. ASSUME NEW t \in Seq(E), NEW e \in E, t \in Z
      PROVE  Append(t, e) \in Z
  BY <1>2, FoldAppend
<1>3. Seq(E) \subseteq Z
  <2> HIDE DEF Z
  <2> QED  BY <1>1, <1>2, SeqSetInduction
<1> QED  BY <1>3
-----------------------------------------------------------------------------
(* Sequences joined to one by FlattenSeq.                                  *)

isFlatten(seqs, n, h) ==
  h = [i \in 1..n |-> IF i = 1 THEN seqs[i] ELSE h[i - 1] \o seqs[i]]

LEMMA FlattenExists ==
  ASSUME NEW seqs
  PROVE  \A n \in Nat : \E h : isFlatten(seqs, n, h)
<1> DEFINE S == {n \in Nat : \E h : isFlatten(seqs, n, h)}
<1>1. 0 \in S
  <2> DEFINE h == [i \in 1..0 |-> i]
  <2>1. 1..0 = {}
    OBVIOUS
  <2>2. isFlatten(seqs, 0, h)
    BY <2>1 DEF isFlatten
  <2> QED  BY <2>2
<1>2. ASSUME NEW n \in Nat, n \in S
      PROVE  n + 1 \in S
  <2>1. PICK h : isFlatten(seqs, n, h)
    BY <1>2
  <2> DEFINE last == IF n = 0 THEN seqs[1] ELSE h[n] \o seqs[n + 1]
             g == [i \in 1..n + 1 |-> IF i = n + 1 THEN last ELSE h[i]]
  <2>2. ASSUME NEW i \in 1..n + 1
        PROVE  g[i] = IF i = 1 THEN seqs[i] ELSE g[i - 1] \o seqs[i]
    <3>1. CASE i = n + 1
      <4>1. CASE n = 0
        BY <3>1, <4>1
      <4>2. CASE n # 0
        <5>1. i # 1 /\ i - 1 = n /\ n \in 1..n + 1 /\ n # n + 1
          BY <3>1, <4>2
        <5>2. g[i - 1] = h[n] /\ g[i] = h[n] \o seqs[i]
          BY <3>1, <4>2, <5>1
        <5> QED  BY <5>1, <5>2
      <4> QED  BY <4>1, <4>2
    <3>2. CASE i # n + 1
      <4>1. i \in 1..n
        BY <3>2
      <4>2. h[i] = IF i = 1 THEN seqs[i] ELSE h[i - 1] \o seqs[i]
        BY <2>1, <4>1 DEF isFlatten
      <4>3. i # 1 => i - 1 \in 1..n + 1 /\ i - 1 # n + 1
        BY <4>1
      <4>4. g[i] = h[i] /\ (i # 1 => g[i - 1] = h[i - 1])
        BY <3>2, <4>3
      <4> QED  BY <4>2, <4>4
    <3> QED  BY <3>1, <3>2
  <2> HIDE DEF last
  <2>3. isFlatten(seqs, n + 1, g)
    BY <2>2 DEF isFlatten
  <2> QED  BY <2>3
<1>3. Nat \subseteq S
  <2> HIDE DEF S
  <2> QED  BY <1>1, <1>2, NatSetInduction
<1> QED  BY <1>3

\* Sequences over a set give one over the set.
LEMMA FlattenInSeq ==
  ASSUME NEW S, NEW seqs \in Seq(Seq(S))
  PROVE  FlattenSeq(seqs) \in Seq(S)
<1> DEFINE n == Len(seqs)
           H == CHOOSE h : isFlatten(seqs, n, h)
<1>1. CASE n = 0
  <2>1. FlattenSeq(seqs) = seqs
    BY <1>1 DEF FlattenSeq
  <2>2. seqs = <<>>
    BY <1>1
  <2> QED  BY <2>1, <2>2
<1>2. CASE n # 0
  <2>1. n \in Nat \ {0} /\ \A i \in 1..n : seqs[i] \in Seq(S)
    BY <1>2
  <2>2. isFlatten(seqs, n, H)
    <3>1. \E h : isFlatten(seqs, n, h)
      BY <2>1, FlattenExists
    <3> QED  BY <3>1
  <2>3. FlattenSeq(seqs) = H[n]
    BY <1>2 DEF FlattenSeq, isFlatten
  <2> HIDE DEF H, n
  <2>4. \A i \in 1..n : H[i] = IF i = 1 THEN seqs[i] ELSE H[i - 1] \o seqs[i]
    BY <2>2 DEF isFlatten
  <2> DEFINE Z == {k \in Nat : k \in 1..n => H[k] \in Seq(S)}
  <2>5. 0 \in Z
    OBVIOUS
  <2>6. ASSUME NEW k \in Nat, k \in Z
        PROVE  k + 1 \in Z
    <3> SUFFICES ASSUME k + 1 \in 1..n
                 PROVE  H[k + 1] \in Seq(S)
      OBVIOUS
    <3>1. seqs[k + 1] \in Seq(S)
      BY <2>1
    <3>2. CASE k = 0
      BY <2>4, <3>1, <3>2
    <3>3. CASE k # 0
      <4>1. k \in 1..n /\ k + 1 # 1 /\ (k + 1) - 1 = k
        BY <2>1, <3>3
      <4>2. H[k] \in Seq(S)
        BY <2>6, <4>1
      <4>3. H[k + 1] = H[k] \o seqs[k + 1]
        BY <2>4, <4>1
      <4> QED  BY <3>1, <4>2, <4>3
    <3> QED  BY <3>2, <3>3
  <2>7. Nat \subseteq Z
    <3> HIDE DEF Z
    <3> QED  BY <2>5, <2>6, NatSetInduction
  <2> QED  BY <2>1, <2>3, <2>7
<1> QED  BY <1>1, <1>2

joins(seqs, s) ==
  /\ \E S : s \in Seq(S)
  /\ \A k \in DOMAIN s :
       \E i \in DOMAIN seqs : \E j \in DOMAIN seqs[i] : s[k] = seqs[i][j]

\* What is in the joined sequence is in one of those it was joined from.
THEOREM FlattenElements ==
  ASSUME NEW T, NEW seqs \in Seq(T),
         \A i \in DOMAIN seqs : \E S : seqs[i] \in Seq(S)
  PROVE  joins(seqs, FlattenSeq(seqs))
<1> DEFINE E == UNION {{seqs[i][j] : j \in DOMAIN seqs[i]} : i \in DOMAIN seqs}
<1>1. ASSUME NEW i \in DOMAIN seqs
      PROVE  seqs[i] \in Seq(E)
  <2>1. PICK S : seqs[i] \in Seq(S)
    OBVIOUS
  <2>2. \A j \in DOMAIN seqs[i] : seqs[i][j] \in E
    OBVIOUS
  <2>3. Len(seqs[i]) \in Nat /\ DOMAIN seqs[i] = 1..Len(seqs[i])
        /\ seqs[i] = [j \in DOMAIN seqs[i] |-> seqs[i][j]]
    BY <2>1
  <2> HIDE DEF E
  <2>4. seqs[i] \in [1..Len(seqs[i]) -> E]
    BY <2>2, <2>3
  <2> QED  BY <2>3, <2>4
<1> HIDE DEF E
<1>2. seqs \in Seq(Seq(E))
  BY <1>1
<1>3. FlattenSeq(seqs) \in Seq(E)
  BY <1>2, FlattenInSeq
<1>4. \A k \in DOMAIN FlattenSeq(seqs) : FlattenSeq(seqs)[k] \in E
  BY <1>3
<1> QED  BY <1>3, <1>4 DEF E, joins
-----------------------------------------------------------------------------
(* What FlattenSeq makes of no sequence, of one, and of one more.          *)

LEMMA FlattenEmpty == FlattenSeq(<<>>) = <<>>
BY DEF FlattenSeq

LEMMA FlattenFollows ==
  ASSUME NEW U, NEW seqs \in Seq(U), NEW n \in Nat, Len(seqs) = n, n # 0
  PROVE  \E h : isFlatten(seqs, n, h) /\ FlattenSeq(seqs) = h[n]
<1> DEFINE H == CHOOSE h : isFlatten(seqs, n, h)
<1>1. isFlatten(seqs, n, H)
  <2>1. \E h : isFlatten(seqs, n, h)
    BY FlattenExists
  <2> QED  BY <2>1
<1>2. FlattenSeq(seqs) = H[n]
  BY DEF FlattenSeq, isFlatten
<1> QED  BY <1>1, <1>2

LEMMA FlattenOne == \A x : FlattenSeq(<<x>>) = x
<1> TAKE x
<1>1. <<x>> \in Seq({x}) /\ Len(<<x>>) = 1 /\ 1 \in Nat /\ 1 # 0
  OBVIOUS
<1>2. PICK h : isFlatten(<<x>>, 1, h) /\ FlattenSeq(<<x>>) = h[1]
  BY <1>1, FlattenFollows
<1>3. h[1] = x
  BY <1>2 DEF isFlatten
<1> QED  BY <1>2, <1>3

THEOREM FlattenAppend ==
  ASSUME NEW S, NEW seqs \in Seq(Seq(S)), NEW x \in Seq(S)
  PROVE  FlattenSeq(Append(seqs, x)) = FlattenSeq(seqs) \o x
<1> DEFINE n == Len(seqs)
           t == Append(seqs, x)
<1>1. CASE n = 0
  <2>1. seqs = <<>> /\ t = <<x>>
    BY <1>1
  <2> HIDE DEF t
  <2>2. FlattenSeq(t) = x /\ FlattenSeq(seqs) = <<>>
    BY <2>1, FlattenOne, FlattenEmpty
  <2> QED  BY <2>2 DEF t
<1>2. CASE n # 0
  <2>1. n \in Nat /\ n # 0 /\ t \in Seq(Seq(S)) /\ Len(t) = n + 1 /\ t[n + 1] = x
    BY <1>2
  <2>2. \A i \in 1..n : t[i] = seqs[i]
    OBVIOUS
  <2> HIDE DEF t, n
  <2>. n + 1 \in Nat /\ n + 1 # 0
    BY <2>1
  <2>3. PICK h : isFlatten(t, n + 1, h) /\ FlattenSeq(t) = h[n + 1]
    BY <2>1, FlattenFollows
  <2>4. PICK g : isFlatten(seqs, n, g) /\ FlattenSeq(seqs) = g[n]
    BY <1>2, FlattenFollows DEF n
  <2>5. \A i \in 1..n + 1 : h[i] = IF i = 1 THEN t[i] ELSE h[i - 1] \o t[i]
    BY <2>3 DEF isFlatten
  <2>6. \A i \in 1..n : g[i] = IF i = 1 THEN seqs[i] ELSE g[i - 1] \o seqs[i]
    BY <2>4 DEF isFlatten
  <2> DEFINE Z == {k \in Nat : k \in 1..n => h[k] = g[k]}
  <2>7. 0 \in Z
    OBVIOUS
  <2>8. ASSUME NEW k \in Nat, k \in Z
        PROVE  k + 1 \in Z
    <3> SUFFICES ASSUME k + 1 \in 1..n
                 PROVE  h[k + 1] = g[k + 1]
      OBVIOUS
    <3>1. t[k + 1] = seqs[k + 1] /\ k + 1 \in 1..n + 1
      BY <2>1, <2>2
    <3>2. CASE k = 0
      BY <2>5, <2>6, <3>1, <3>2
    <3>3. CASE k # 0
      <4>1. k \in 1..n /\ k + 1 # 1 /\ (k + 1) - 1 = k
        BY <2>1, <3>3
      <4>2. h[k] = g[k]
        BY <2>8, <4>1
      <4> QED  BY <2>5, <2>6, <3>1, <4>1, <4>2
    <3> QED  BY <3>2, <3>3
  <2>9. Nat \subseteq Z
    <3> HIDE DEF Z
    <3> QED  BY <2>7, <2>8, NatSetInduction
  <2>10. h[n] = g[n] /\ n + 1 \in 1..n + 1 /\ n + 1 # 1 /\ (n + 1) - 1 = n
    <3>1. n \in Z /\ n \in 1..n
      BY <2>1, <2>9
    <3> QED  BY <2>1, <3>1
  <2>11. h[n + 1] = h[n] \o t[n + 1]
    BY <2>5, <2>10
  <2> QED  BY <2>1, <2>3, <2>4, <2>10, <2>11 DEF t
<1> QED  BY <1>1, <1>2
-----------------------------------------------------------------------------
(* A sequence whose elements, through the operator under one first         *)
(* argument, are joined.                                                   *)

join(c, s) == FlattenSeq([i \in DOMAIN s |-> Op(c, s[i])])
givesSeqs(c, E, T) == \A e \in E : Op(c, e) \in Seq(T)

THEOREM JoinEmpty == \A c : join(c, <<>>) = <<>>
<1> TAKE c
<1>1. [i \in DOMAIN <<>> |-> Op(c, <<>>[i])] = <<>>
  OBVIOUS
<1> QED  BY <1>1, FlattenEmpty DEF join

THEOREM JoinOne == \A c, e : join(c, <<e>>) = Op(c, e)
<1> TAKE c, e
<1>1. [i \in DOMAIN <<e>> |-> Op(c, <<e>>[i])] = <<Op(c, e)>>
  OBVIOUS
<1> QED  BY <1>1, FlattenOne DEF join

THEOREM JoinType ==
  ASSUME NEW c, NEW E, NEW T, givesSeqs(c, E, T), NEW s \in Seq(E)
  PROVE  join(c, s) \in Seq(T)
<1>1. [i \in DOMAIN s |-> Op(c, s[i])] \in Seq(Seq(T))
  <2>1. DOMAIN s = 1..Len(s) /\ Len(s) \in Nat /\ \A i \in DOMAIN s : s[i] \in E
    OBVIOUS
  <2> QED  BY <2>1 DEF givesSeqs
<1> QED  BY <1>1, FlattenInSeq DEF join

THEOREM JoinAppend ==
  ASSUME NEW c, NEW E, NEW T, givesSeqs(c, E, T), NEW s \in Seq(E), NEW e \in E
  PROVE  join(c, Append(s, e)) = join(c, s) \o Op(c, e)
<1> DEFINE m == [i \in DOMAIN s |-> Op(c, s[i])]
           t == Append(s, e)
<1>1. m \in Seq(Seq(T)) /\ Op(c, e) \in Seq(T)
  <2>1. DOMAIN s = 1..Len(s) /\ Len(s) \in Nat /\ \A i \in DOMAIN s : s[i] \in E
    OBVIOUS
  <2> QED  BY <2>1 DEF givesSeqs
<1>2. [i \in DOMAIN t |-> Op(c, t[i])] = Append(m, Op(c, e))
  OBVIOUS
<1> HIDE DEF m, t
<1>3. FlattenSeq(Append(m, Op(c, e))) = FlattenSeq(m) \o Op(c, e)
  BY <1>1, FlattenAppend
<1>4. join(c, s) = FlattenSeq(m)
  BY DEF join, m
<1>5. join(c, t) = FlattenSeq(Append(m, Op(c, e)))
  BY <1>2 DEF join
<1> QED  BY <1>3, <1>4, <1>5 DEF t

\* What a sequence joins to is the one map that starts with <<>> and adds,
\* for each element, what the operator makes of it.
joinsSo(c, E, F) ==
  /\ F[<<>>] = <<>>
  /\ \A s \in Seq(E), e \in E : F[Append(s, e)] = F[s] \o Op(c, e)

THEOREM JoinUnique ==
  ASSUME NEW c, NEW E, NEW T, givesSeqs(c, E, T), NEW F, joinsSo(c, E, F),
         NEW s \in Seq(E)
  PROVE  F[s] = join(c, s)
<1> DEFINE Z == {t \in Seq(E) : F[t] = join(c, t)}
<1>1. <<>> \in Z
  BY JoinEmpty DEF joinsSo
<1>2. ASSUME NEW t \in Seq(E), NEW e \in E, t \in Z
      PROVE  Append(t, e) \in Z
  <2>1. join(c, Append(t, e)) = join(c, t) \o Op(c, e)
    BY JoinAppend
  <2>2. Append(t, e) \in Seq(E) /\ t \in Seq(E)
    OBVIOUS
  <2>3. F[Append(t, e)] = F[t] \o Op(c, e)
    BY <2>2 DEF joinsSo
  <2> QED  BY <1>2, <2>1, <2>2, <2>3, Zenon
<1>3. Seq(E) \subseteq Z
  <2> HIDE DEF Z
  <2> QED  BY <1>1, <1>2, SeqSetInduction
<1> QED  BY <1>3

THEOREM JoinConcat ==
  ASSUME NEW c, NEW E, NEW T, givesSeqs(c, E, T), NEW s \in Seq(E), NEW t \in Seq(E)
  PROVE  join(c, s \o t) = join(c, s) \o join(c, t)
<1> DEFINE Z == {u \in Seq(E) : join(c, s \o u) = join(c, s) \o join(c, u)}
<1>1. join(c, s) \in Seq(T)
  BY JoinType
<1>2. <<>> \in Z
  <2>1. s \o <<>> = s /\ join(c, s) \o <<>> = join(c, s)
    BY <1>1
  <2>2. join(c, <<>>) = <<>>
    BY JoinEmpty
  <2>3. join(c, s \o <<>>) = join(c, s) \o join(c, <<>>)
    BY <2>1, <2>2, Zenon
  <2>4. <<>> \in Seq(E)
    OBVIOUS
  <2> QED  BY <2>3, <2>4, Zenon
<1>3. ASSUME NEW u \in Seq(E), NEW e \in E, u \in Z
      PROVE  Append(u, e) \in Z
  <2>1. s \o Append(u, e) = Append(s \o u, e) /\ s \o u \in Seq(E)
    OBVIOUS
  <2>2. join(c, Append(s \o u, e)) = join(c, s \o u) \o Op(c, e)
    BY <2>1, JoinAppend
  <2>3. join(c, Append(u, e)) = join(c, u) \o Op(c, e)
    BY JoinAppend
  <2>4. join(c, u) \in Seq(T) /\ Op(c, e) \in Seq(T)
    BY JoinType DEF givesSeqs
  <2>5. (join(c, s) \o join(c, u)) \o Op(c, e) = join(c, s) \o (join(c, u) \o Op(c, e))
    BY <1>1, <2>4
  <2>6. Append(u, e) \in Seq(E)
    OBVIOUS
  <2>7. join(c, s \o u) = join(c, s) \o join(c, u)
    BY <1>3
  <2>8. join(c, s \o Append(u, e)) = join(c, s) \o join(c, Append(u, e))
    BY <2>1, <2>2, <2>3, <2>5, <2>7, Zenon
  <2> QED  BY <2>6, <2>8, Zenon
<1>4. Seq(E) \subseteq Z
  <2> HIDE DEF Z
  <2> QED  BY <1>2, <1>3, SeqSetInduction
<1> QED  BY <1>4

\* The same of sequences of anything.
isSeq(s) == \E S : s \in Seq(S)
givesFrom(c, s) == isSeq(s) /\ \A i \in DOMAIN s : isSeq(Op(c, s[i]))

LEMMA GivesFromTyped ==
  ASSUME NEW c, NEW s, NEW t, givesFrom(c, s), givesFrom(c, t)
  PROVE  \E E, T : s \in Seq(E) /\ t \in Seq(E) /\ givesSeqs(c, E, T)
<1> DEFINE E == {s[i] : i \in DOMAIN s} \union {t[i] : i \in DOMAIN t}
           T == UNION {{Op(c, e)[j] : j \in DOMAIN Op(c, e)} : e \in E}
<1>1. ASSUME NEW u, isSeq(u), NEW X, \A i \in DOMAIN u : u[i] \in X
      PROVE  u \in Seq(X)
  <2>1. PICK S : u \in Seq(S)
    BY <1>1 DEF isSeq
  <2>2. /\ Len(u) \in Nat /\ DOMAIN u = 1..Len(u)
        /\ u = [i \in 1..Len(u) |-> u[i]]
    BY <2>1
  <2>3. u \in [1..Len(u) -> X]
    BY <1>1, <2>2
  <2> QED  BY <2>2, <2>3
<1>2. s \in Seq(E) /\ t \in Seq(E)
  <2>1. /\ isSeq(s) /\ isSeq(t)
        /\ \A i \in DOMAIN s : s[i] \in E
        /\ \A i \in DOMAIN t : t[i] \in E
    BY DEF givesFrom
  <2> HIDE DEF E
  <2> QED  BY <1>1, <2>1
<1>3. ASSUME NEW e \in E PROVE Op(c, e) \in Seq(T)
  <2>1. isSeq(Op(c, e))
    BY <1>3 DEF givesFrom
  <2>2. \A j \in DOMAIN Op(c, e) : Op(c, e)[j] \in T
    BY <1>3
  <2> HIDE DEF E, T
  <2> QED  BY <1>1, <2>1, <2>2
<1> HIDE DEF E, T
<1> QED  BY <1>2, <1>3 DEF givesSeqs

joinsTo(c, s, result) == join(c, s) = result /\ isSeq(result) /\ givesFrom(c, s)

THEOREM JoinsConcat ==
  ASSUME NEW c, NEW s, NEW t, NEW x, NEW y, joinsTo(c, s, x), joinsTo(c, t, y)
  PROVE  joinsTo(c, s \o t, x \o y)
<1>1. PICK E, T : s \in Seq(E) /\ t \in Seq(E) /\ givesSeqs(c, E, T)
  BY GivesFromTyped DEF joinsTo
<1>2. join(c, s \o t) = x \o y
  BY <1>1, JoinConcat DEF joinsTo
<1>3. x \in Seq(T) /\ y \in Seq(T)
  BY <1>1, JoinType DEF joinsTo
<1>4. s \o t \in Seq(E) /\ x \o y \in Seq(T)
  BY <1>1, <1>3
<1>5. isSeq(s \o t) /\ isSeq(x \o y)
  BY <1>4 DEF isSeq
<1>6. ASSUME NEW i \in DOMAIN (s \o t) PROVE isSeq(Op(c, (s \o t)[i]))
  <2>1. (s \o t)[i] \in E
    BY <1>4
  <2> QED  BY <1>1, <2>1 DEF givesSeqs, isSeq
<1> QED  BY <1>2, <1>5, <1>6 DEF joinsTo, givesFrom

THEOREM JoinsNothing == \A c : joinsTo(c, <<>>, <<>>)
<1>1. isSeq(<<>>) /\ DOMAIN <<>> = {}
  <2>1. <<>> \in Seq({}) /\ DOMAIN <<>> = {}
    OBVIOUS
  <2> QED  BY <2>1 DEF isSeq
<1> QED  BY <1>1, JoinEmpty DEF joinsTo, givesFrom

THEOREM JoinsThree ==
  ASSUME NEW c, NEW s, NEW t, NEW u, NEW x, NEW y, NEW z,
         joinsTo(c, s, x), joinsTo(c, t, y), joinsTo(c, u, z)
  PROVE  joinsTo(c, (s \o t) \o u, (x \o y) \o z)
<1>1. joinsTo(c, s \o t, x \o y)
  BY JoinsConcat
<1> QED  BY <1>1, JoinsConcat

THEOREM JoinsOne ==
  ASSUME NEW c, NEW e, NEW x, Op(c, e) = x, isSeq(x)
  PROVE  joinsTo(c, <<e>>, x)
<1>1. <<e>> \in Seq({e}) /\ DOMAIN <<e>> = {1} /\ <<e>>[1] = e
  OBVIOUS
<1>2. isSeq(<<e>>)
  BY <1>1 DEF isSeq
<1> QED  BY <1>1, <1>2, JoinOne, Zenon DEF joinsTo, givesFrom

\* Of every element one, and of every element none.
LEMMA FlattenSingles ==
  ASSUME NEW E, NEW x \in Seq(E)
  PROVE  FlattenSeq([i \in DOMAIN x |-> <<x[i]>>]) = x
<1> DEFINE m(t) == [i \in DOMAIN t |-> <<t[i]>>]
           Z == {t \in Seq(E) : FlattenSeq(m(t)) = t}
<1>1. <<>> \in Z
  <2>1. m(<<>>) = <<>> /\ <<>> \in Seq(E)
    OBVIOUS
  <2> QED  BY <2>1, FlattenEmpty
<1>2. ASSUME NEW t \in Seq(E), NEW e \in E, t \in Z
      PROVE  Append(t, e) \in Z
  <2>1. m(Append(t, e)) = Append(m(t), <<e>>)
    OBVIOUS
  <2>2. m(t) \in Seq(Seq(E)) /\ <<e>> \in Seq(E)
    <3>1. Len(t) \in Nat /\ DOMAIN t = 1..Len(t) /\ \A i \in DOMAIN t : t[i] \in E
      OBVIOUS
    <3>2. \A y \in E : <<y>> \in Seq(E)
      OBVIOUS
    <3>3. m(t) \in [1..Len(t) -> Seq(E)]
      BY <3>1, <3>2
    <3> QED  BY <3>1, <3>2, <3>3
  <2>3. FlattenSeq(m(t)) = t
    BY <1>2
  <2>4. Append(t, e) \in Seq(E) /\ t \o <<e>> = Append(t, e)
    OBVIOUS
  <2> HIDE DEF m
  <2>5. FlattenSeq(Append(m(t), <<e>>)) = FlattenSeq(m(t)) \o <<e>>
    BY <2>2, FlattenAppend
  <2>6. FlattenSeq(m(Append(t, e))) = Append(t, e)
    BY <2>1, <2>3, <2>4, <2>5, Zenon
  <2> QED  BY <2>4, <2>6, Zenon
<1>3. Seq(E) \subseteq Z
  <2> HIDE DEF Z
  <2> QED  BY <1>1, <1>2, SeqSetInduction
<1>4. x \in Z
  BY <1>3
<1> QED  BY <1>4

THEOREM JoinsSingles ==
  ASSUME NEW c, NEW s, isSeq(s), NEW x, isSeq(x), DOMAIN x = DOMAIN s,
         \A i \in DOMAIN s : Op(c, s[i]) = <<x[i]>>
  PROVE  joinsTo(c, s, x)
<1>1. PICK E : x \in Seq(E)
  BY DEF isSeq
<1>2. [i \in DOMAIN s |-> Op(c, s[i])] = [i \in DOMAIN x |-> <<x[i]>>]
  OBVIOUS
<1>3. join(c, s) = x
  BY <1>1, <1>2, FlattenSingles DEF join
<1>4. ASSUME NEW i \in DOMAIN s PROVE isSeq(Op(c, s[i]))
  <2>1. Op(c, s[i]) = <<x[i]>> /\ <<x[i]>> \in Seq({x[i]})
    OBVIOUS
  <2> QED  BY <2>1 DEF isSeq
<1> QED  BY <1>3, <1>4 DEF joinsTo, givesFrom

LEMMA FlattenNothings ==
  ASSUME NEW s \in Seq({<<>>})
  PROVE  FlattenSeq(s) = <<>>
<1> DEFINE Z == {t \in Seq({<<>>}) : FlattenSeq(t) = <<>>}
<1>1. <<>> \in Z
  BY FlattenEmpty
<1>2. ASSUME NEW t \in Seq({<<>>}), NEW e \in {<<>>}, t \in Z
      PROVE  Append(t, e) \in Z
  <2>1. t \in Seq(Seq({})) /\ e \in Seq({}) /\ <<>> \o e = <<>>
    <3>1. <<>> \in Seq({}) /\ <<>> \o <<>> = <<>>
      OBVIOUS
    <3>2. PICK X : X = {<<>>} /\ X \subseteq Seq({})
      BY <3>1
    <3>3. \A Y, W : X \subseteq Y /\ W \in Seq(X) => W \in Seq(Y)
      OBVIOUS
    <3> QED  BY <3>1, <3>2, <3>3, Zenon
  <2>2. FlattenSeq(Append(t, e)) = FlattenSeq(t) \o e
    BY <2>1, FlattenAppend
  <2>3. FlattenSeq(t) = <<>>
    BY <1>2
  <2>4. Append(t, e) \in Seq({<<>>})
    OBVIOUS
  <2> QED  BY <2>1, <2>2, <2>3, <2>4, Zenon
<1>3. Seq({<<>>}) \subseteq Z
  <2> HIDE DEF Z
  <2> QED  BY <1>1, <1>2, SeqSetInduction
<1> QED  BY <1>3

THEOREM JoinsNone ==
  ASSUME NEW c, NEW s, isSeq(s), \A i \in DOMAIN s : Op(c, s[i]) = <<>>
  PROVE  joinsTo(c, s, <<>>)
<1>1. PICK E : s \in Seq(E)
  BY DEF isSeq
<1>2. [i \in DOMAIN s |-> Op(c, s[i])] \in Seq({<<>>})
  <2>1. Len(s) \in Nat /\ DOMAIN s = 1..Len(s)
    BY <1>1
  <2> QED  BY <2>1
<1>3. join(c, s) = <<>>
  BY <1>2, FlattenNothings DEF join
<1>4. isSeq(<<>>)
  <2>1. <<>> \in Seq({})
    OBVIOUS
  <2> QED  BY <2>1 DEF isSeq
<1> QED  BY <1>3, <1>4 DEF joinsTo, givesFrom
=============================================================================
