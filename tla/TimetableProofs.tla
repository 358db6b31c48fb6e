--------------------------- MODULE TimetableProofs ---------------------------
(***************************************************************************)
(* What the interval algorithms of Timetable compute, for every finite set *)
(* of rules and overrides.                                                 *)
(*                                                                         *)
(* Induction over the lists that the code goes through is written with     *)
(* sets: a set of naturals that has 0 and, with a number, the next one     *)
(* has them all.  The set is the set of the lengths for which a statement  *)
(* about a fold holds.                                                     *)
(***************************************************************************)
EXTENDS Timetable, FiniteSetTheorems, WellFoundedInduction, TLAPS

Intervals == {i \in [from: Nat, to: Nat] : i.from < i.to}

\* No two of them overlap or touch.
Apart(S) == \A i, j \in S : i # j => i.to < j.from \/ j.to < i.from

----------------------------------------------------------------------------
(* Natural numbers and finite sets. *)

LEMMA Least ==
  ASSUME NEW S \in SUBSET Nat, S # {}
  PROVE  \E m \in S : \A k \in S : m <= k
  <1>1. PICK R : (\A k, n \in Nat : k < n => <<k, n>> \in R) /\ IsWellFoundedOn(R, Nat)
    <2>1. \A k, n \in Nat : k < n => <<k, n>> \in OpToRel(<, Nat)
      BY DEF OpToRel
    <2> QED
      BY <2>1, NatLessThanWellFounded
  <1>2. PICK m \in S : \A k \in S : <<k, m>> \notin R
    <2>1. IsWellFoundedOn(R, Nat) /\ S \subseteq Nat /\ S # {}
      BY <1>1
    <2>2. \E m \in S : \A k \in S : ~(<<k, m>> \in R)
      BY ONLY <2>1, WFMin, Zenon
    <2> QED
      BY <2>2
  <1>3. \A k \in S : ~(k < m)
    BY <1>1, <1>2
  <1> QED
    BY <1>3

LEMMA UpTo ==
  ASSUME NEW n \in Nat, NEW S, 0 \in S, \A k \in 0 .. n - 1 : k \in S => k + 1 \in S
  PROVE  n \in S
  <1> SUFFICES ASSUME n \notin S PROVE FALSE
    OBVIOUS
  <1> DEFINE T == {k \in 0 .. n : k \notin S}
  <1>1. T \in SUBSET Nat /\ T # {}
    OBVIOUS
  <1>2. PICK m \in T : \A k \in T : m <= k
    BY <1>1, Least
  <1>3. m - 1 \in 0 .. n - 1 /\ m - 1 \in S
    BY <1>2
  <1> QED
    BY <1>2, <1>3

LEMMA FiniteImage ==
  ASSUME NEW S, IsFiniteSet(S), NEW f, DOMAIN f = S
  PROVE  IsFiniteSet({f[x] : x \in S})
  <1>1. [x \in S |-> f[x]] \in Surjection(S, {f[x] : x \in S})
    BY DEF Surjection
  <1> QED
    BY <1>1, FS_Surjection

----------------------------------------------------------------------------
(* Sorting. *)

Below(x, S, R) == {y \in S : <<y, x>> \in R}
StrictOrder(S, R) ==
  /\ \A x \in S : <<x, x>> \notin R
  /\ \A x, y, z \in S : <<x, y>> \in R /\ <<y, z>> \in R => <<x, z>> \in R
  /\ \A x, y \in S : x = y \/ <<x, y>> \in R \/ <<y, x>> \in R

LEMMA RankGrows ==
  ASSUME NEW S, IsFiniteSet(S), NEW R, StrictOrder(S, R)
  PROVE  /\ \A x \in S : Cardinality(Below(x, S, R)) \in 0 .. Cardinality(S) - 1
         /\ \A x, y \in S : <<x, y>> \in R =>
              Cardinality(Below(x, S, R)) < Cardinality(Below(y, S, R))
  <1> DEFINE B(x) == Below(x, S, R)
  <1>1. ASSUME NEW x \in S, NEW T \in SUBSET S, B(x) \subseteq T, x \in T
        PROVE  Cardinality(B(x)) \in Nat /\ Cardinality(B(x)) < Cardinality(T)
    <2>1. x \notin B(x)
      BY DEF StrictOrder, Below
    <2>2. IsFiniteSet(T)
      BY FS_Subset
    <2>3. IsFiniteSet(T \ {x}) /\ Cardinality(T \ {x}) = Cardinality(T) - 1 /\ Cardinality(T) \in Nat
      BY <1>1, <2>2, FS_RemoveElement, FS_CardinalityType
    <2>4. B(x) \in SUBSET (T \ {x})
      BY <1>1, <2>1
    <2>5. Cardinality(B(x)) <= Cardinality(T \ {x}) /\ IsFiniteSet(B(x))
      BY <2>3, <2>4, FS_Subset
    <2>6. Cardinality(B(x)) \in Nat
      BY <2>5, FS_CardinalityType
    <2> QED
      BY <2>3, <2>5, <2>6
  <1>2. \A x \in S : B(x) \in SUBSET S
    BY DEF Below
  <1>3. Cardinality(S) \in Nat
    BY FS_CardinalityType
  <1>4. ASSUME NEW x \in S PROVE Cardinality(B(x)) \in 0 .. Cardinality(S) - 1
    <2>1. Cardinality(B(x)) \in Nat /\ Cardinality(B(x)) < Cardinality(S)
      BY <1>1, <1>2
    <2> QED
      BY <1>3, <2>1
  <1>5. ASSUME NEW x \in S, NEW y \in S, <<x, y>> \in R PROVE Cardinality(B(x)) < Cardinality(B(y))
    <2>1. B(x) \subseteq B(y) /\ x \in B(y)
      BY <1>5 DEF StrictOrder, Below
    <2> QED
      BY <1>1, <1>2, <2>1
  <1> QED
    BY <1>4, <1>5

LEMMA EveryRank ==
  ASSUME NEW S, IsFiniteSet(S), NEW R, StrictOrder(S, R), NEW n \in 1 .. Cardinality(S)
  PROVE  \E x \in S : Cardinality(Below(x, S, R)) = n - 1
  <1> DEFINE N == Cardinality(S)
             rank == [x \in S |-> Cardinality(Below(x, S, R)) + 1]
  <1>1. N \in Nat
    BY FS_CardinalityType
  <1>2. rank \in [S -> 1 .. N]
    <2>1. ASSUME NEW x \in S PROVE Cardinality(Below(x, S, R)) + 1 \in 1 .. N
      <3>1. Cardinality(Below(x, S, R)) \in 0 .. N - 1
        BY RankGrows
      <3> QED
        BY <1>1, <3>1
    <2> QED
      BY <2>1
  <1>3. ASSUME NEW x \in S, NEW y \in S, x # y PROVE rank[x] # rank[y]
    <2>1. <<x, y>> \in R \/ <<y, x>> \in R
      BY <1>3 DEF StrictOrder
    <2>2. Cardinality(Below(x, S, R)) # Cardinality(Below(y, S, R))
      <3>1. Cardinality(Below(x, S, R)) \in 0 .. N - 1 /\ Cardinality(Below(y, S, R)) \in 0 .. N - 1
        BY RankGrows
      <3>2. \/ Cardinality(Below(x, S, R)) < Cardinality(Below(y, S, R))
            \/ Cardinality(Below(y, S, R)) < Cardinality(Below(x, S, R))
        BY <2>1, RankGrows
      <3> QED
        BY <1>1, <3>1, <3>2
    <2>3. Cardinality(Below(x, S, R)) \in 0 .. N - 1 /\ Cardinality(Below(y, S, R)) \in 0 .. N - 1
      BY RankGrows
    <2> QED
      BY <1>1, <2>2, <2>3
  <1>4. rank \in Injection(S, 1 .. N)
    BY <1>2, <1>3 DEF Injection, IsInjective
  <1>5. IsFiniteSet(1 .. N) /\ Cardinality(1 .. N) = N
    BY <1>1, FS_Interval
  <1>6. rank \in Surjection(S, 1 .. N)
    BY <1>4, <1>5, FS_Injection
  <1>7. PICK x \in S : rank[x] = n
    BY <1>6 DEF Surjection
  <1>8. Cardinality(Below(x, S, R)) \in 0 .. N - 1
    BY RankGrows
  <1> QED
    BY <1>1, <1>7, <1>8

\* Sorted has every interval of the set once, by the time it begins.
LEMMA SortedFacts ==
  ASSUME NEW S \in SUBSET [from: Nat, to: Nat], IsFiniteSet(S)
  PROVE  /\ Cardinality(S) \in Nat
         /\ Sorted(S) \in [1 .. Cardinality(S) -> S]
         /\ \A x \in S : \E k \in 1 .. Cardinality(S) : Sorted(S)[k] = x
         /\ \A j, k \in 1 .. Cardinality(S) : j < k => Sorted(S)[j].from <= Sorted(S)[k].from
  <1> DEFINE N == Cardinality(S)
             R == {p \in S \X S : Before(p[1], p[2])}
  <1>1. N \in Nat
    BY FS_CardinalityType
  <1>2. \A x, y \in S : <<x, y>> \in R <=> Before(x, y)
    OBVIOUS
  <1>3. StrictOrder(S, R)
    <2>1. \A x, y \in S : x.from = y.from /\ x.to = y.to => x = y
      OBVIOUS
    <2>2. \A x \in S : x.from \in Nat /\ x.to \in Nat
      OBVIOUS
    <2>3. \A x \in S : ~Before(x, x)
      BY <2>2 DEF Before
    <2>4. \A x, y, z \in S : Before(x, y) /\ Before(y, z) => Before(x, z)
      BY <2>2 DEF Before
    <2>5. \A x, y \in S : x = y \/ Before(x, y) \/ Before(y, x)
      BY <2>1, <2>2 DEF Before
    <2> HIDE DEF R
    <2> QED
      BY <1>2, <2>3, <2>4, <2>5 DEF StrictOrder
  <1>4. \A x \in S : {y \in S : Before(y, x)} = Below(x, S, R)
    BY <1>2 DEF Below
  <1> HIDE DEF R
  <1>5. \A n \in 1 .. N : \E x \in S : Cardinality({y \in S : Before(y, x)}) = n - 1
    <2> TAKE n \in 1 .. N
    <2>1. \E x \in S : Cardinality(Below(x, S, R)) = n - 1
      BY <1>3, EveryRank
    <2> QED
      BY <1>4, <2>1
  <1>6. \A n \in 1 .. N : Sorted(S)[n] \in S /\ Cardinality(Below(Sorted(S)[n], S, R)) = n - 1
    <2> TAKE n \in 1 .. N
    <2>1. Sorted(S)[n] = CHOOSE x \in S : Cardinality({y \in S : Before(y, x)}) = n - 1
      BY DEF Sorted
    <2>2. Sorted(S)[n] \in S /\ Cardinality({y \in S : Before(y, Sorted(S)[n])}) = n - 1
      BY <1>5, <2>1
    <2> QED
      BY <1>4, <2>2
  <1>7. Sorted(S) \in [1 .. N -> S]
    <2>1. DOMAIN Sorted(S) = 1 .. N /\ Sorted(S) = [n \in DOMAIN Sorted(S) |-> Sorted(S)[n]]
      BY DEF Sorted
    <2> QED
      BY <1>6, <2>1
  <1>8. ASSUME NEW x \in S PROVE \E k \in 1 .. N : Sorted(S)[k] = x
    <2>1. PICK r \in 0 .. N - 1 : r = Cardinality(Below(x, S, R))
      BY <1>3, RankGrows
    <2>2. r + 1 \in 1 .. N
      BY <1>1, <2>1
    <2>3. PICK y \in S : y = Sorted(S)[r + 1]
      BY <1>7, <2>2
    <2>4. Cardinality(Below(y, S, R)) = r
      BY <1>6, <2>2, <2>3
    <2>5. ~(<<x, y>> \in R) /\ ~(<<y, x>> \in R)
      BY <1>3, <2>1, <2>4, RankGrows
    <2> QED
      BY <1>3, <2>2, <2>3, <2>5 DEF StrictOrder
  <1>9. ASSUME NEW j \in 1 .. N, NEW k \in 1 .. N, j < k PROVE Sorted(S)[j].from <= Sorted(S)[k].from
    <2>1. PICK x \in S, y \in S : x = Sorted(S)[j] /\ y = Sorted(S)[k]
      BY <1>7
    <2>2. Cardinality(Below(x, S, R)) = j - 1 /\ Cardinality(Below(y, S, R)) = k - 1
      BY <1>6, <2>1
    <2>3. x # y /\ <<y, x>> \notin R
      BY <1>1, <1>3, <1>9, <2>2, RankGrows
    <2>4. Before(x, y)
      BY <1>2, <1>3, <2>3 DEF StrictOrder
    <2>5. x.from \in Nat /\ y.from \in Nat
      OBVIOUS
    <2> QED
      BY <2>1, <2>4, <2>5 DEF Before
  <1> QED
    BY <1>1, <1>7, <1>8, <1>9

----------------------------------------------------------------------------
(* Folds. *)

LEMMA MaxIs ==
  ASSUME NEW S \in SUBSET Nat, NEW m \in S, \A x \in S : x <= m
  PROVE  Max(S) = m
  <1>1. \A x \in S : (\A y \in S : x >= y) => x = m
    OBVIOUS
  <1>2. m \in S /\ \A y \in S : m >= y
    OBVIOUS
  <1> QED
    BY <1>1, <1>2 DEF Max

\* The fold of _merge_intervals goes through the list from its first element.
LEMMA JoinFolds ==
  ASSUME NEW n \in Nat, NEW s, DOMAIN s = 1 .. n
  PROVE  \E out : /\ DOMAIN out = 0 .. n /\ out[0] = <<>>
                  /\ \A k \in 1 .. n : out[k] = Join(out[k - 1], s[k])
                  /\ FoldLeft(Join, <<>>, s) = out[n]
  <1> DEFINE Fold(f, k) == f = [x \in SUBSET (1 .. k) |-> IF x = {} THEN <<>> ELSE Join(f[x \ {Max(x)}], s[Max(x)])]
             Has == {k \in 0 .. n : \E f : Fold(f, k)}
  <1>1. 0 \in Has
    <2>1. 1 .. 0 = {} /\ SUBSET (1 .. 0) = {{}}
      OBVIOUS
    <2>2. Fold([x \in SUBSET (1 .. 0) |-> <<>>], 0)
      BY <2>1
    <2> QED
      BY <2>2
  <1>2. ASSUME NEW k \in 0 .. n - 1, k \in Has PROVE k + 1 \in Has
    <2>1. PICK f : Fold(f, k)
      BY <1>2
    <2> DEFINE h == [x \in SUBSET (1 .. k + 1) |-> IF k + 1 \in x THEN Join(f[x \ {k + 1}], s[k + 1]) ELSE f[x]]
    <2>2. ASSUME NEW x \in SUBSET (1 .. k + 1)
          PROVE h[x] = IF x = {} THEN <<>> ELSE Join(h[x \ {Max(x)}], s[Max(x)])
      <3>1. CASE k + 1 \in x
        <4>1. Max(x) = k + 1
          <5>1. x \in SUBSET Nat /\ \A y \in x : y <= k + 1
            OBVIOUS
          <5> QED
            BY <3>1, <5>1, MaxIs
        <4>2. x \ {k + 1} \in SUBSET (1 .. k + 1) /\ x # {}
          BY <3>1
        <4>3. h[x \ {k + 1}] = f[x \ {k + 1}] /\ h[x] = Join(f[x \ {k + 1}], s[k + 1])
          BY <3>1, <4>2
        <4> HIDE DEF h
        <4> QED
          BY <4>1, <4>2, <4>3
      <3>2. CASE k + 1 \notin x
        <4>1. x \in SUBSET (1 .. k) /\ x \ {Max(x)} \in SUBSET (1 .. k + 1) /\ k + 1 \notin x \ {Max(x)}
          <5> HIDE DEF h
          <5>1. \A y \in x : y \in 1 .. k
            BY <3>2
          <5> QED
            BY <3>2, <5>1
        <4>2. h[x] = f[x] /\ h[x \ {Max(x)}] = f[x \ {Max(x)}]
          BY <3>2, <4>1
        <4>3. f[x] = IF x = {} THEN <<>> ELSE Join(f[x \ {Max(x)}], s[Max(x)])
          BY <2>1, <4>1
        <4> HIDE DEF h
        <4> QED
          BY <4>2, <4>3
      <3> QED
        BY <3>1, <3>2
    <2>3. h = [x \in SUBSET (1 .. k + 1) |-> h[x]]
      OBVIOUS
    <2> HIDE DEF h
    <2>4. Fold(h, k + 1)
      BY <2>2, <2>3
    <2>5. k + 1 \in 0 .. n
      OBVIOUS
    <2> HIDE DEF Fold
    <2> QED
      BY <2>4, <2>5
  <1>3. PICK f : Fold(f, n)
    <2> HIDE DEF Has
    <2>1. n \in Has
      BY <1>1, <1>2, UpTo
    <2> QED
      BY <2>1 DEF Has
  <1>4. PICK g : Fold(g, n) /\ FoldLeft(Join, <<>>, s) = g[1 .. n]
    BY <1>3 DEF FoldLeft, MapThenFoldSet
  <1>5. ASSUME NEW k \in 1 .. n PROVE g[1 .. k] = Join(g[1 .. k - 1], s[k])
    <2>1. Max(1 .. k) = k
      BY MaxIs
    <2>2. (1 .. k) \ {k} = 1 .. k - 1 /\ 1 .. k # {} /\ 1 .. k \in SUBSET (1 .. n)
      OBVIOUS
    <2> QED
      BY <1>4, <2>1, <2>2
  <1>6. g[1 .. 0] = <<>>
    <2>1. 1 .. 0 = {}
      OBVIOUS
    <2> QED
      BY <1>4, <2>1
  <1> DEFINE out == [k \in 0 .. n |-> g[1 .. k]]
  <1>7. \A k \in 1 .. n : out[k] = Join(out[k - 1], s[k])
    BY <1>5
  <1>8. DOMAIN out = 0 .. n /\ out[0] = <<>> /\ FoldLeft(Join, <<>>, s) = out[n]
    <2>1. out[0] = g[1 .. 0] /\ out[n] = g[1 .. n]
      OBVIOUS
    <2> QED
      BY <1>4, <1>6, <2>1
  <1> HIDE DEF out
  <1> QED
    BY <1>7, <1>8

\* The fold over the cuts, likewise.
Cutting(out, S, s, n) ==
  /\ DOMAIN out = 0 .. n /\ out[0] = S
  /\ \A k \in 1 .. n : out[k] = Cut(out[k - 1], s[k])

LEMMA CutFolds ==
  ASSUME NEW n \in Nat, NEW s, DOMAIN s = 1 .. n, NEW S
  PROVE  \E out : Cutting(out, S, s, n) /\ FoldLeft(Cut, S, s) = out[n]
  <1> DEFINE Fold(f, k) == f = [x \in SUBSET (1 .. k) |-> IF x = {} THEN S ELSE Cut(f[x \ {Max(x)}], s[Max(x)])]
             Has == {k \in 0 .. n : \E f : Fold(f, k)}
  <1>1. 0 \in Has
    <2>1. 1 .. 0 = {} /\ SUBSET (1 .. 0) = {{}}
      OBVIOUS
    <2>2. Fold([x \in SUBSET (1 .. 0) |-> S], 0)
      BY <2>1
    <2> QED
      BY <2>2
  <1>2. ASSUME NEW k \in 0 .. n - 1, k \in Has PROVE k + 1 \in Has
    <2>1. PICK f : Fold(f, k)
      BY <1>2
    <2> DEFINE h == [x \in SUBSET (1 .. k + 1) |-> IF k + 1 \in x THEN Cut(f[x \ {k + 1}], s[k + 1]) ELSE f[x]]
    <2>2. ASSUME NEW x \in SUBSET (1 .. k + 1)
          PROVE h[x] = IF x = {} THEN S ELSE Cut(h[x \ {Max(x)}], s[Max(x)])
      <3>1. CASE k + 1 \in x
        <4>1. Max(x) = k + 1
          <5>1. x \in SUBSET Nat /\ \A y \in x : y <= k + 1
            OBVIOUS
          <5> QED
            BY <3>1, <5>1, MaxIs
        <4>2. x \ {k + 1} \in SUBSET (1 .. k + 1) /\ x # {}
          BY <3>1
        <4>3. h[x \ {k + 1}] = f[x \ {k + 1}] /\ h[x] = Cut(f[x \ {k + 1}], s[k + 1])
          BY <3>1, <4>2
        <4> HIDE DEF h
        <4> QED
          BY <4>1, <4>2, <4>3
      <3>2. CASE k + 1 \notin x
        <4>1. x \in SUBSET (1 .. k) /\ x \ {Max(x)} \in SUBSET (1 .. k + 1) /\ k + 1 \notin x \ {Max(x)}
          <5> HIDE DEF h
          <5>1. \A y \in x : y \in 1 .. k
            BY <3>2
          <5> QED
            BY <3>2, <5>1
        <4>2. h[x] = f[x] /\ h[x \ {Max(x)}] = f[x \ {Max(x)}]
          BY <3>2, <4>1
        <4>3. f[x] = IF x = {} THEN S ELSE Cut(f[x \ {Max(x)}], s[Max(x)])
          BY <2>1, <4>1
        <4> HIDE DEF h
        <4> QED
          BY <4>2, <4>3
      <3> QED
        BY <3>1, <3>2
    <2>3. h = [x \in SUBSET (1 .. k + 1) |-> h[x]]
      OBVIOUS
    <2> HIDE DEF h
    <2>4. Fold(h, k + 1)
      BY <2>2, <2>3
    <2>5. k + 1 \in 0 .. n
      OBVIOUS
    <2> HIDE DEF Fold
    <2> QED
      BY <2>4, <2>5
  <1>3. PICK f : Fold(f, n)
    <2> HIDE DEF Has
    <2>1. n \in Has
      BY <1>1, <1>2, UpTo
    <2> QED
      BY <2>1 DEF Has
  <1>4. PICK g : Fold(g, n) /\ FoldLeft(Cut, S, s) = g[1 .. n]
    BY <1>3 DEF FoldLeft, MapThenFoldSet
  <1>5. ASSUME NEW k \in 1 .. n PROVE g[1 .. k] = Cut(g[1 .. k - 1], s[k])
    <2>1. Max(1 .. k) = k
      BY MaxIs
    <2>2. (1 .. k) \ {k} = 1 .. k - 1 /\ 1 .. k # {} /\ 1 .. k \in SUBSET (1 .. n)
      OBVIOUS
    <2> QED
      BY <1>4, <2>1, <2>2
  <1>6. g[1 .. 0] = S
    <2>1. 1 .. 0 = {}
      OBVIOUS
    <2> QED
      BY <1>4, <2>1
  <1> DEFINE out == [k \in 0 .. n |-> g[1 .. k]]
  <1>7. \A k \in 1 .. n : out[k] = Cut(out[k - 1], s[k])
    BY <1>5
  <1>8. DOMAIN out = 0 .. n /\ out[0] = S /\ FoldLeft(Cut, S, s) = out[n]
    <2>1. out[0] = g[1 .. 0] /\ out[n] = g[1 .. n]
      OBVIOUS
    <2> QED
      BY <1>4, <1>6, <2>1
  <1> HIDE DEF out
  <1>9. Cutting(out, S, s, n)
    BY <1>7, <1>8 DEF Cutting
  <1> QED
    BY <1>8, <1>9

----------------------------------------------------------------------------
(* Merging. *)

In(t, i) == i.from <= t /\ t < i.to
\* A list of intervals in order, with gaps between them.
Gapped(out) == out \in Seq(Intervals) /\ \A a, b \in 1 .. Len(out) : a < b => out[a].to < out[b].from
Within(out, t) == \E a \in 1 .. Len(out) : In(t, out[a])

LEMMA MaxOfTwo ==
  ASSUME NEW a \in Nat, NEW b \in Nat
  PROVE  Max({a, b}) = IF a >= b THEN a ELSE b
  BY MaxIs

\* Join keeps the gaps, and adds the instants of the interval, if the list's
\* last one does not begin after it.
LEMMA JoinStep ==
  ASSUME NEW out, Gapped(out), NEW i \in Intervals,
         out # <<>> => out[Len(out)].from <= i.from
  PROVE  /\ Gapped(Join(out, i)) /\ Len(Join(out, i)) \in Nat \ {0}
         /\ Join(out, i)[Len(Join(out, i))].from <= i.from
         /\ \A t \in Nat : Within(Join(out, i), t) <=> Within(out, t) \/ In(t, i)
  <1> DEFINE n == Len(out)
  <1>1. out \in Seq(Intervals) /\ n \in Nat /\ (out # <<>> <=> n > 0)
    BY DEF Gapped
  <1>2. i.from \in Nat /\ i.to \in Nat /\ i.from < i.to
    BY DEF Intervals
  <1>3. \A a \in 1 .. n : out[a] \in Intervals /\ out[a].from \in Nat /\ out[a].to \in Nat /\ out[a].from < out[a].to
    BY <1>1 DEF Intervals
  <1>4. CASE out # <<>> /\ i.from <= Last(out).to
    <2>1. PICK last \in Intervals : last = out[n]
      BY <1>1, <1>3, <1>4
    <2>2. PICK m \in Nat : m = (IF last.to >= i.to THEN last.to ELSE i.to) /\ m = Max({last.to, i.to})
      BY <1>2, MaxOfTwo DEF Intervals
    <2>3. PICK joined : joined = [last EXCEPT !.to = m]
      OBVIOUS
    <2>4. joined \in Intervals /\ joined.from = last.from /\ joined.to = m
      <3>1. last \in [from: Nat, to: Nat] /\ last.from < last.to /\ m >= last.to
        BY <1>2, <2>2 DEF Intervals
      <3>2. joined \in [from: Nat, to: Nat] /\ joined.from = last.from /\ joined.to = m
        BY <2>3, <3>1
      <3> QED
        BY <3>1, <3>2 DEF Intervals
    <2>5. PICK res : res = Join(out, i)
      OBVIOUS
    <2>6. res = [out EXCEPT ![n] = joined]
      BY <1>4, <2>1, <2>2, <2>3, <2>5 DEF Join, Last
    <2>7. res \in Seq(Intervals) /\ Len(res) = n /\ n > 0 /\ res[n] = joined
          /\ \A a \in 1 .. n : a # n => res[a] = out[a]
      BY <1>1, <1>4, <2>4, <2>6
    <2>8. Gapped(res)
      <3> SUFFICES ASSUME NEW a \in 1 .. n, NEW b \in 1 .. n, a < b PROVE res[a].to < res[b].from
        BY <2>7 DEF Gapped
      <3>1. out[a].to < out[b].from /\ a # n
        BY DEF Gapped
      <3> QED
        BY <2>1, <2>4, <2>7, <3>1
    <2>9. ASSUME NEW t \in Nat PROVE Within(res, t) <=> Within(out, t) \/ In(t, i)
      <3>1. In(t, joined) <=> In(t, last) \/ In(t, i)
        <4>1. last.from <= i.from /\ i.from <= last.to
          BY <1>1, <1>4, <2>1 DEF Last
        <4>2. last.from \in Nat /\ last.to \in Nat /\ last.from < last.to
          BY DEF Intervals
        <4>3. m = IF last.to >= i.to THEN last.to ELSE i.to
          BY <2>2
        <4>4. joined.from = last.from /\ joined.to = m
          BY <2>4
        <4> QED
          BY <1>2, <4>1, <4>2, <4>3, <4>4 DEF In
      <3>2. n \in 1 .. n
        BY <1>1, <2>7
      <3> QED
        BY <2>1, <2>7, <3>1, <3>2 DEF Within
    <2>10. res[n].from <= i.from
      BY <1>1, <1>4, <2>1, <2>4, <2>7
    <2> QED
      BY <1>1, <2>5, <2>7, <2>8, <2>9, <2>10
  <1>5. CASE ~(out # <<>> /\ i.from <= Last(out).to)
    <2>1. PICK res : res = Join(out, i)
      OBVIOUS
    <2>2. res = Append(out, i)
      BY <1>5, <2>1 DEF Join
    <2>3. res \in Seq(Intervals) /\ Len(res) = n + 1 /\ res[n + 1] = i /\ \A a \in 1 .. n : res[a] = out[a]
      BY <1>1, <2>2
    <2>4. \A a \in 1 .. n : out[a].to < i.from
      <3> TAKE a \in 1 .. n
      <3>1. n \in 1 .. n /\ out[n].to < i.from
        BY <1>1, <1>2, <1>3, <1>5 DEF Last
      <3>2. a < n => out[a].to < out[n].from
        BY <3>1 DEF Gapped
      <3> QED
        BY <1>1, <1>2, <1>3, <3>1, <3>2
    <2>5. Gapped(res)
      <3> SUFFICES ASSUME NEW a \in 1 .. n + 1, NEW b \in 1 .. n + 1, a < b PROVE res[a].to < res[b].from
        BY <2>3 DEF Gapped
      <3>1. a \in 1 .. n
        BY <1>1
      <3>2. CASE b = n + 1
        BY <2>3, <2>4, <3>1, <3>2
      <3>3. CASE b \in 1 .. n
        BY <2>3, <3>1, <3>3 DEF Gapped
      <3> QED
        BY <1>1, <3>2, <3>3
    <2>6. ASSUME NEW t \in Nat PROVE Within(res, t) <=> Within(out, t) \/ In(t, i)
      <3>1. 1 .. n + 1 = (1 .. n) \cup {n + 1}
        BY <1>1
      <3> QED
        BY <2>3, <3>1 DEF Within
    <2> QED
      BY <1>1, <1>2, <2>1, <2>3, <2>5, <2>6
  <1> QED
    BY <1>4, <1>5

\* Merge makes intervals that neither overlap nor touch, of the same instants.
LEMMA MergeExact ==
  ASSUME NEW S \in SUBSET Intervals, IsFiniteSet(S)
  PROVE  /\ Merge(S) \in SUBSET Intervals /\ IsFiniteSet(Merge(S)) /\ Apart(Merge(S))
         /\ \A t \in Nat : Covers(Merge(S), t) <=> Covers(S, t)
  <1>1. PICK n \in Nat : n = Cardinality(S)
    BY FS_CardinalityType
  <1>2. PICK s \in [1 .. n -> S] :
          /\ s = Sorted(S)
          /\ \A x \in S : \E k \in 1 .. n : s[k] = x
          /\ \A j, k \in 1 .. n : j < k => s[j].from <= s[k].from
    <2>1. S \in SUBSET [from: Nat, to: Nat]
      BY DEF Intervals
    <2> QED
      BY <1>1, <2>1, SortedFacts
  <1>3. PICK out : /\ DOMAIN out = 0 .. n /\ out[0] = <<>>
                   /\ \A k \in 1 .. n : out[k] = Join(out[k - 1], s[k])
                   /\ FoldLeft(Join, <<>>, s) = out[n]
    BY JoinFolds
  <1> DEFINE Good(k) == /\ Gapped(out[k])
                        /\ out[k] # <<>> => k > 0 /\ out[k][Len(out[k])].from <= s[k].from
                        /\ \A t \in Nat : Within(out[k], t) <=> \E j \in 1 .. k : In(t, s[j])
             Upto == {k \in 0 .. n : Good(k)}
  <1>4. 0 \in Upto
    <2>1. Len(<<>>) = 0 /\ <<>> \in Seq(Intervals)
      OBVIOUS
    <2> QED
      BY <1>3, <2>1 DEF Gapped, Within
  <1>5. ASSUME NEW k \in 0 .. n - 1, k \in Upto PROVE k + 1 \in Upto
    <2>1. PICK i \in Intervals : i = s[k + 1]
      BY <1>1, <1>2
    <2>2. out[k + 1] = Join(out[k], i)
      <3>1. k + 1 \in 1 .. n /\ (k + 1) - 1 = k
        OBVIOUS
      <3> QED
        BY <1>3, <2>1, <3>1
    <2>3. out[k] # <<>> => out[k][Len(out[k])].from <= i.from
      <3> SUFFICES ASSUME out[k] # <<>> PROVE out[k][Len(out[k])].from <= i.from
        OBVIOUS
      <3>1. k \in 1 .. n /\ out[k][Len(out[k])].from <= s[k].from
        BY <1>5
      <3>2. s[k].from <= i.from /\ s[k].from \in Nat /\ i.from \in Nat
        BY <1>2, <2>1, <3>1 DEF Intervals
      <3>3. out[k][Len(out[k])].from \in Nat
        <4>1. out[k] \in Seq(Intervals) /\ Len(out[k]) \in 1 .. Len(out[k])
          BY <1>5 DEF Gapped
        <4> QED
          BY <4>1 DEF Intervals
      <3> QED
        BY <3>1, <3>2, <3>3
    <2>4. Gapped(out[k])
      BY <1>5
    <2>5. /\ Gapped(out[k + 1]) /\ out[k + 1][Len(out[k + 1])].from <= i.from
          /\ \A t \in Nat : Within(out[k + 1], t) <=> Within(out[k], t) \/ In(t, i)
      BY <2>2, <2>3, <2>4, JoinStep
    <2>6. ASSUME NEW t \in Nat PROVE Within(out[k + 1], t) <=> \E j \in 1 .. k + 1 : In(t, s[j])
      <3>1. Within(out[k], t) <=> \E j \in 1 .. k : In(t, s[j])
        BY <1>5
      <3>2. 1 .. k + 1 = (1 .. k) \cup {k + 1}
        OBVIOUS
      <3> QED
        BY <2>1, <2>5, <3>1, <3>2
    <2> QED
      BY <2>1, <2>5, <2>6
  <1>6. Good(n)
    <2> HIDE DEF Good
    <2>1. n \in Upto
      <3> HIDE DEF Upto
      <3> QED
        BY <1>4, <1>5, UpTo
    <2> QED
      BY <2>1
  <1>7. PICK final \in Seq(Intervals) : final = out[n]
    BY <1>6 DEF Gapped
  <1>8. Merge(S) = {final[a] : a \in 1 .. Len(final)}
    BY <1>2, <1>3, <1>7 DEF Merge, ToSet
  <1>9. Merge(S) \in SUBSET Intervals
    BY <1>8
  <1>10. IsFiniteSet(Merge(S))
    <2>1. IsFiniteSet(1 .. Len(final)) /\ DOMAIN final = 1 .. Len(final)
      BY FS_Interval
    <2> QED
      BY <1>8, <2>1, FiniteImage
  <1>11. Apart(Merge(S))
    <2> SUFFICES ASSUME NEW a \in 1 .. Len(final), NEW b \in 1 .. Len(final), final[a] # final[b]
                 PROVE  final[a].to < final[b].from \/ final[b].to < final[a].from
      BY <1>8 DEF Apart
    <2>1. a < b \/ b < a
      OBVIOUS
    <2> QED
      BY <1>6, <1>7, <2>1 DEF Gapped
  <1>12. ASSUME NEW t \in Nat PROVE Covers(Merge(S), t) <=> Covers(S, t)
    <2>1. Covers(Merge(S), t) <=> Within(final, t)
      BY <1>8 DEF Covers, Within, In
    <2>2. Within(final, t) <=> \E j \in 1 .. n : In(t, s[j])
      BY <1>6, <1>7
    <2>3. Covers(S, t) <=> \E j \in 1 .. n : In(t, s[j])
      BY <1>2 DEF Covers, In
    <2> QED
      BY <2>1, <2>2, <2>3
  <1> QED
    BY <1>9, <1>10, <1>11, <1>12

----------------------------------------------------------------------------
(* Cutting. *)

LEMMA RemainsExact ==
  ASSUME NEW i \in Intervals, NEW c \in Intervals
  PROVE  /\ Remains(i, c) \in SUBSET Intervals /\ IsFiniteSet(Remains(i, c)) /\ Apart(Remains(i, c))
         /\ \A p \in Remains(i, c) : i.from <= p.from /\ p.to <= i.to
         /\ \A t \in Nat : Covers(Remains(i, c), t) <=> In(t, i) /\ ~In(t, c)
  <1>1. i.from \in Nat /\ i.to \in Nat /\ i.from < i.to /\ c.from \in Nat /\ c.to \in Nat /\ c.from < c.to
    BY DEF Intervals
  <1>2. CASE Meet(i, c)
    <2>1. PICK a : a = Interval(i.from, c.from)
      OBVIOUS
    <2>2. PICK b : b = Interval(c.to, i.to)
      OBVIOUS
    <2>3. a \in [from: Nat, to: Nat] /\ a.from = i.from /\ a.to = c.from
      BY <1>1, <2>1 DEF Interval
    <2>4. b \in [from: Nat, to: Nat] /\ b.from = c.to /\ b.to = i.to
      BY <1>1, <2>2 DEF Interval
    <2>5. Remains(i, c) = {p \in {a, b} : p.from < p.to}
      BY <1>2, <2>1, <2>2 DEF Remains
    <2>6. i.from < c.to /\ c.from < i.to
      BY <1>2 DEF Meet
    <2>7. Remains(i, c) \in SUBSET Intervals
      BY <2>3, <2>4, <2>5 DEF Intervals
    <2>8. IsFiniteSet(Remains(i, c))
      <3>1. IsFiniteSet({a}) /\ IsFiniteSet({a} \cup {b})
        BY FS_Singleton, FS_AddElement
      <3>2. Remains(i, c) \in SUBSET ({a} \cup {b})
        BY <2>5
      <3> QED
        BY <3>1, <3>2, FS_Subset
    <2>9. Apart(Remains(i, c))
      BY <1>1, <2>3, <2>4, <2>5 DEF Apart
    <2>10. \A p \in Remains(i, c) : i.from <= p.from /\ p.to <= i.to
      BY <1>1, <2>3, <2>4, <2>5, <2>6
    <2>11. ASSUME NEW t \in Nat PROVE Covers(Remains(i, c), t) <=> In(t, i) /\ ~In(t, c)
      <3>1. Covers(Remains(i, c), t) <=> In(t, a) \/ In(t, b)
        BY <1>1, <2>3, <2>4, <2>5 DEF Covers, In
      <3> QED
        BY <1>1, <2>3, <2>4, <2>6, <3>1 DEF In
    <2> QED
      BY <2>7, <2>8, <2>9, <2>10, <2>11
  <1>3. CASE ~Meet(i, c)
    <2>1. Remains(i, c) = {i}
      BY <1>3 DEF Remains
    <2>2. \A t \in Nat : Covers(Remains(i, c), t) <=> In(t, i) /\ ~In(t, c)
      BY <1>1, <1>3, <2>1 DEF Covers, In, Meet
    <2> QED
      <3>1. IsFiniteSet(Remains(i, c))
        BY <2>1, FS_Singleton
      <3>2. Remains(i, c) \in SUBSET Intervals /\ Apart(Remains(i, c))
        BY <2>1 DEF Apart
      <3>3. \A p \in Remains(i, c) : i.from <= p.from /\ p.to <= i.to
        BY <1>1, <2>1
      <3> QED
        BY <2>2, <3>1, <3>2, <3>3
  <1> QED
    BY <1>2, <1>3

LEMMA CutExact ==
  ASSUME NEW S \in SUBSET Intervals, IsFiniteSet(S), NEW c \in Intervals
  PROVE  /\ Cut(S, c) \in SUBSET Intervals /\ IsFiniteSet(Cut(S, c))
         /\ Apart(S) => Apart(Cut(S, c))
         /\ \A t \in Nat : Covers(Cut(S, c), t) <=> Covers(S, t) /\ ~In(t, c)
  <1> DEFINE left == [i \in S |-> Remains(i, c)]
  <1>1. Cut(S, c) = UNION {left[i] : i \in S}
    BY DEF Cut
  <1>2. \A i \in S : left[i] \in SUBSET Intervals /\ IsFiniteSet(left[i])
    BY RemainsExact
  <1>3. Cut(S, c) \in SUBSET Intervals
    BY <1>1, <1>2
  <1>4. IsFiniteSet(Cut(S, c))
    <2>1. IsFiniteSet({left[i] : i \in S})
      BY FiniteImage
    <2> HIDE DEF left
    <2> QED
      BY <1>1, <1>2, <2>1, FS_UNION
  <1>5. ASSUME Apart(S) PROVE Apart(Cut(S, c))
    <2> SUFFICES ASSUME NEW i \in S, NEW j \in S, NEW p \in Remains(i, c), NEW q \in Remains(j, c), p # q
                 PROVE  p.to < q.from \/ q.to < p.from
      BY <1>1 DEF Apart
    <2>1. CASE i = j
      BY <2>1, RemainsExact DEF Apart
    <2>2. CASE i # j
      <3>1. i.to < j.from \/ j.to < i.from
        BY <1>5, <2>2 DEF Apart
      <3>2. i.from <= p.from /\ p.to <= i.to /\ p \in Intervals
        BY RemainsExact
      <3>3. j.from <= q.from /\ q.to <= j.to /\ q \in Intervals
        BY RemainsExact
      <3>4. i.from \in Nat /\ i.to \in Nat /\ j.from \in Nat /\ j.to \in Nat
        BY DEF Intervals
      <3> QED
        BY <3>1, <3>2, <3>3, <3>4 DEF Intervals
    <2> QED
      BY <2>1, <2>2
  <1>6. ASSUME NEW t \in Nat PROVE Covers(Cut(S, c), t) <=> Covers(S, t) /\ ~In(t, c)
    <2>1. Covers(Cut(S, c), t) <=> \E i \in S : Covers(Remains(i, c), t)
      BY <1>1 DEF Covers
    <2>2. \A i \in S : Covers(Remains(i, c), t) <=> In(t, i) /\ ~In(t, c)
      BY RemainsExact
    <2> QED
      BY <2>1, <2>2 DEF Covers, In
  <1> QED
    BY <1>3, <1>4, <1>5, <1>6

\* All cuts, one after the other.
LEMMA CutsExact ==
  ASSUME NEW S \in SUBSET Intervals, IsFiniteSet(S), NEW C \in SUBSET Intervals, IsFiniteSet(C)
  PROVE  LET L == FoldLeft(Cut, S, Sorted(C))
         IN  /\ L \in SUBSET Intervals /\ IsFiniteSet(L)
             /\ Apart(S) => Apart(L)
             /\ \A t \in Nat : Covers(L, t) <=> Covers(S, t) /\ ~Covers(C, t)
  <1>1. PICK n \in Nat : n = Cardinality(C)
    BY FS_CardinalityType
  <1>2. PICK s \in [1 .. n -> C] : s = Sorted(C) /\ \A x \in C : \E k \in 1 .. n : s[k] = x
    <2>1. C \in SUBSET [from: Nat, to: Nat]
      BY DEF Intervals
    <2> QED
      BY <1>1, <2>1, SortedFacts
  <1>3. PICK out : Cutting(out, S, s, n) /\ FoldLeft(Cut, S, s) = out[n]
    <2>1. DOMAIN s = 1 .. n
      OBVIOUS
    <2> QED
      BY <2>1, CutFolds
  <1> DEFINE Good(k) == /\ out[k] \in SUBSET Intervals /\ IsFiniteSet(out[k])
                        /\ Apart(S) => Apart(out[k])
                        /\ \A t \in Nat : Covers(out[k], t) <=> Covers(S, t) /\ \A j \in 1 .. k : ~In(t, s[j])
             Upto == {k \in 0 .. n : Good(k)}
  <1>4. 0 \in Upto
    BY <1>3 DEF Cutting
  <1>5. ASSUME NEW k \in 0 .. n - 1, k \in Upto PROVE k + 1 \in Upto
    <2>1. PICK c \in Intervals : c = s[k + 1]
      BY <1>1, <1>2
    <2>2. out[k + 1] = Cut(out[k], c)
      <3>1. k + 1 \in 1 .. n /\ (k + 1) - 1 = k
        OBVIOUS
      <3> QED
        BY <1>3, <2>1, <3>1 DEF Cutting
    <2>3. Good(k)
      BY <1>5
    <2>4. /\ out[k + 1] \in SUBSET Intervals /\ IsFiniteSet(out[k + 1])
          /\ Apart(out[k]) => Apart(out[k + 1])
          /\ \A t \in Nat : Covers(out[k + 1], t) <=> Covers(out[k], t) /\ ~In(t, c)
      BY <2>2, <2>3, CutExact
    <2>5. 1 .. k + 1 = (1 .. k) \cup {k + 1}
      OBVIOUS
    <2> QED
      BY <2>1, <2>3, <2>4, <2>5
  <1>6. Good(n)
    <2> HIDE DEF Good
    <2>1. n \in Upto
      <3> HIDE DEF Upto
      <3> QED
        BY <1>4, <1>5, UpTo
    <2> QED
      BY <2>1
  <1>7. \A t \in Nat : Covers(C, t) <=> \E j \in 1 .. n : In(t, s[j])
    BY <1>2 DEF Covers, In
  <1> QED
    BY <1>2, <1>3, <1>6, <1>7

LEMMA SubtractExact ==
  ASSUME NEW S \in SUBSET Intervals, IsFiniteSet(S), Apart(S), NEW C \in SUBSET Intervals, IsFiniteSet(C)
  PROVE  /\ Subtract(S, C) \in SUBSET Intervals /\ IsFiniteSet(Subtract(S, C)) /\ Apart(Subtract(S, C))
         /\ \A t \in Nat : Covers(Subtract(S, C), t) <=> Covers(S, t) /\ ~Covers(C, t)
  <1>1. CASE C = {}
    BY <1>1 DEF Subtract, Covers
  <1>2. CASE C # {}
    <2>1. PICK L : L = FoldLeft(Cut, S, Sorted(C))
      OBVIOUS
    <2>2. /\ L \in SUBSET Intervals /\ IsFiniteSet(L)
          /\ \A t \in Nat : Covers(L, t) <=> Covers(S, t) /\ ~Covers(C, t)
      BY <2>1, CutsExact
    <2>3. Subtract(S, C) = Merge(L)
      BY <1>2, <2>1 DEF Subtract
    <2> QED
      BY <2>2, <2>3, MergeExact
  <1> QED
    BY <1>1, <1>2

\* Intervals that are apart are determined by their instants.
LEMMA SameInstants ==
  ASSUME NEW A \in SUBSET Intervals, NEW B \in SUBSET Intervals, Apart(A), Apart(B),
         \A t \in Nat : Covers(A, t) <=> Covers(B, t)
  PROVE  A = B
  <1>1. ASSUME NEW X \in SUBSET Intervals, NEW Y \in SUBSET Intervals, Apart(X), Apart(Y),
               \A t \in Nat : Covers(X, t) <=> Covers(Y, t), NEW i \in X
        PROVE  i \in Y
    <2>1. i.from \in Nat /\ i.to \in Nat /\ i.from < i.to /\ i \in [from: Nat, to: Nat]
      BY DEF Intervals
    <2>2. PICK j \in Y : j.from <= i.from /\ i.from < j.to
      BY <1>1, <2>1 DEF Covers
    <2>3. j.from \in Nat /\ j.to \in Nat /\ j.from < j.to /\ j \in [from: Nat, to: Nat]
      BY DEF Intervals
    <2>4. ASSUME j.from < i.from PROVE FALSE
      <3>1. i.from - 1 \in Nat /\ Covers(Y, i.from - 1)
        BY <2>1, <2>2, <2>3, <2>4 DEF Covers
      <3>2. PICK k \in X : k.from <= i.from - 1 /\ i.from - 1 < k.to
        BY <1>1, <3>1 DEF Covers
      <3>3. k.from \in Nat /\ k.to \in Nat
        BY DEF Intervals
      <3>4. i.to < k.from \/ k.to < i.from
        BY <1>1, <2>1, <3>2, <3>3 DEF Apart
      <3> QED
        BY <2>1, <3>2, <3>3, <3>4
    <2>5. ASSUME j.to < i.to PROVE FALSE
      <3>1. Covers(X, j.to)
        BY <2>1, <2>2, <2>3, <2>5 DEF Covers
      <3>2. PICK k \in Y : k.from <= j.to /\ j.to < k.to
        BY <1>1, <2>3, <3>1 DEF Covers
      <3>3. k.from \in Nat /\ k.to \in Nat
        BY DEF Intervals
      <3>4. j.to < k.from \/ k.to < j.from
        BY <1>1, <2>3, <3>2, <3>3 DEF Apart
      <3> QED
        BY <2>3, <3>2, <3>3, <3>4
    <2>6. ASSUME i.to < j.to PROVE FALSE
      <3>1. Covers(Y, i.to)
        BY <2>1, <2>2, <2>3, <2>6 DEF Covers
      <3>2. PICK k \in X : k.from <= i.to /\ i.to < k.to
        BY <1>1, <2>1, <3>1 DEF Covers
      <3>3. k.from \in Nat /\ k.to \in Nat
        BY DEF Intervals
      <3>4. i.to < k.from \/ k.to < i.from
        BY <1>1, <2>1, <3>2, <3>3 DEF Apart
      <3> QED
        BY <2>1, <3>2, <3>3, <3>4
    <2>7. i.from = j.from /\ i.to = j.to
      BY <2>1, <2>2, <2>3, <2>4, <2>5, <2>6
    <2>8. i = j
      BY <2>1, <2>3, <2>7
    <2> QED
      BY <2>8
  <1> QED
    BY <1>1

----------------------------------------------------------------------------
(* The windows of a day. *)

\* Rules or overrides as the database has them: finitely many, and those that
\* have times have them in order.
Entries(S) == /\ IsFiniteSet(S)
              /\ \A x \in S : x.from \in Nat /\ x.to \in Nat /\ (x.kind # "DAY_OFF" => x.from < x.to)

LEMMA KindsAreIntervals ==
  ASSUME NEW S, Entries(S), NEW kind \in {"OPEN", "BREAK", "BLOCK"}
  PROVE  OfKind(S, kind) \in SUBSET Intervals /\ IsFiniteSet(OfKind(S, kind))
  <1> DEFINE T == {y \in S : y.kind = kind}
             f == [x \in T |-> Span(x)]
  <1>1. IsFiniteSet(T)
    BY FS_Subset DEF Entries
  <1>2. IsFiniteSet({f[x] : x \in T})
    BY <1>1, FiniteImage
  <1>3. {f[x] : x \in T} = OfKind(S, kind)
    BY DEF OfKind
  <1>4. ASSUME NEW x \in T PROVE Span(x) \in Intervals
    <2>1. x.from \in Nat /\ x.to \in Nat /\ x.from < x.to
      BY DEF Entries
    <2> QED
      BY <2>1 DEF Span, Interval, Intervals
  <1> QED
    BY <1>2, <1>3, <1>4 DEF OfKind

\* The intervals that generate_slots emits windows from.
Left(rules, overrides) ==
  Subtract(Subtract(Merge(OfKind(rules, "OPEN")), OfKind(rules, "BREAK")), OfKind(overrides, "BLOCK"))
Runs(rules, overrides) == Merge(Left(rules, overrides) \cup OfKind(overrides, "OPEN"))

LEMMA RunsAreFree ==
  ASSUME NEW rules, NEW overrides, Entries(rules), Entries(overrides)
  PROVE  /\ Runs(rules, overrides) \in SUBSET Intervals /\ IsFiniteSet(Runs(rules, overrides))
         /\ Apart(Runs(rules, overrides))
         /\ \A t : t \in Free(rules, overrides) <=> t \in Nat /\ Covers(Runs(rules, overrides), t)
  <1>1. PICK open, breaks, blocks, extra :
          /\ open = OfKind(rules, "OPEN") /\ breaks = OfKind(rules, "BREAK")
          /\ blocks = OfKind(overrides, "BLOCK") /\ extra = OfKind(overrides, "OPEN")
    OBVIOUS
  <1>2. /\ open \in SUBSET Intervals /\ IsFiniteSet(open) /\ breaks \in SUBSET Intervals /\ IsFiniteSet(breaks)
        /\ blocks \in SUBSET Intervals /\ IsFiniteSet(blocks) /\ extra \in SUBSET Intervals /\ IsFiniteSet(extra)
    BY <1>1, KindsAreIntervals
  <1>3. PICK A : A = Merge(open)
    OBVIOUS
  <1>4. A \in SUBSET Intervals /\ IsFiniteSet(A) /\ Apart(A) /\ \A t \in Nat : Covers(A, t) <=> Covers(open, t)
    BY <1>2, <1>3, MergeExact
  <1>5. PICK B : B = Subtract(A, breaks)
    OBVIOUS
  <1>6. /\ B \in SUBSET Intervals /\ IsFiniteSet(B) /\ Apart(B)
        /\ \A t \in Nat : Covers(B, t) <=> Covers(A, t) /\ ~Covers(breaks, t)
    BY <1>2, <1>4, <1>5, SubtractExact
  <1>7. PICK C : C = Subtract(B, blocks)
    OBVIOUS
  <1>8. /\ C \in SUBSET Intervals /\ IsFiniteSet(C)
        /\ \A t \in Nat : Covers(C, t) <=> Covers(B, t) /\ ~Covers(blocks, t)
    BY <1>2, <1>6, <1>7, SubtractExact
  <1>9. PICK M : M = Merge(C \cup extra)
    OBVIOUS
  <1>10. C \cup extra \in SUBSET Intervals /\ IsFiniteSet(C \cup extra)
    BY <1>2, <1>8, FS_Union
  <1>11. /\ M \in SUBSET Intervals /\ IsFiniteSet(M) /\ Apart(M)
         /\ \A t \in Nat : Covers(M, t) <=> Covers(C \cup extra, t)
    BY <1>9, <1>10, MergeExact
  <1>12. M = Runs(rules, overrides)
    BY <1>1, <1>3, <1>5, <1>7, <1>9 DEF Runs, Left
  <1>13. \A t \in Nat : Covers(M, t) <=> \/ Covers(open, t) /\ ~Covers(breaks \cup blocks, t)
                                         \/ Covers(extra, t)
    <2>1. \A t, X, Y : Covers(X \cup Y, t) <=> Covers(X, t) \/ Covers(Y, t)
      BY DEF Covers
    <2> QED
      BY <1>4, <1>6, <1>8, <1>11, <2>1
  <1>14. \A x \in rules \cup overrides : x.from \in Nat /\ x.to \in Nat
    BY DEF Entries
  <1>15. ASSUME NEW t \in Free(rules, overrides) PROVE t \in Nat /\ Covers(M, t)
    <2>1. /\ t \in UNION {x.from .. x.to : x \in rules \cup overrides}
          /\ \/ Covers(open, t) /\ ~Covers(breaks \cup blocks, t)
             \/ Covers(extra, t)
      BY <1>1, <1>15 DEF Free
    <2>2. PICK x \in rules \cup overrides : t \in x.from .. x.to
      BY <2>1
    <2>3. t \in Nat
      BY <1>14, <2>2
    <2> QED
      BY <1>13, <2>1, <2>3
  <1>16. ASSUME NEW t \in Nat, Covers(M, t) PROVE t \in Free(rules, overrides)
    <2>1. \/ Covers(open, t) /\ ~Covers(breaks \cup blocks, t)
          \/ Covers(extra, t)
      BY <1>13, <1>16
    <2>2. Covers(open, t) \/ Covers(extra, t)
      BY <2>1
    <2>3. PICK i \in open \cup extra : i.from <= t /\ t < i.to
      BY <2>2 DEF Covers
    <2>4. PICK x \in rules \cup overrides : i = Span(x)
      BY <1>1 DEF OfKind
    <2>5. i.from = x.from /\ i.to = x.to
      BY <2>4 DEF Span, Interval
    <2>6. t \in x.from .. x.to
      BY <1>14, <2>3, <2>5
    <2> QED
      BY <1>1, <2>1, <2>6 DEF Free
  <1> QED
    BY <1>11, <1>12, <1>15, <1>16

LEMMA WindowsOfRuns ==
  ASSUME NEW rules, NEW overrides, NEW duration, NEW buffer,
         OfKind(rules, "OPEN") # {}, \A o \in overrides : o.kind # "DAY_OFF"
  PROVE  Windows(rules, overrides, duration, buffer)
           = UNION {Emit(i, duration, buffer) : i \in Runs(rules, overrides)}
  BY DEF Windows, Runs, Left

\* generate_slots: the windows are the ones that the free instants of the day
\* allow, from the start of every run of them, for every set of rules and
\* overrides, although the code merges, cuts, appends and merges lists.
THEOREM WindowsAreExact ==
  ASSUME NEW rules, NEW overrides, Entries(rules), Entries(overrides),
         NEW duration \in Nat \ {0}, NEW buffer \in Nat,
         OfKind(rules, "OPEN") # {}, \A o \in overrides : o.kind # "DAY_OFF"
  PROVE  Windows(rules, overrides, duration, buffer) = WindowsByInstants(rules, overrides, duration, buffer)
  <1>1. PICK M, free : M = Runs(rules, overrides) /\ free = Free(rules, overrides)
    OBVIOUS
  <1>2. M \in SUBSET Intervals /\ Apart(M) /\ \A t : t \in free <=> t \in Nat /\ Covers(M, t)
    BY <1>1, RunsAreFree
  <1>3. ASSUME NEW i \in M
        PROVE  i.from \in Nat /\ i.to \in Nat /\ i.from < i.to
    BY <1>2 DEF Intervals
  <1>4. ASSUME NEW i \in M
        PROVE  i.from \in free /\ i.from - 1 \notin free /\ i.to \notin free
    <2>1. i.from \in free
      BY <1>2, <1>3 DEF Covers
    <2>2. ASSUME i.from - 1 \in free PROVE FALSE
      <3>1. i.from - 1 \in Nat /\ Covers(M, i.from - 1)
        BY <1>2, <2>2
      <3>2. PICK k \in M : k.from <= i.from - 1 /\ i.from - 1 < k.to
        BY <3>1 DEF Covers
      <3>3. k.from \in Nat /\ k.to \in Nat /\ i.from \in Nat /\ i.to \in Nat /\ i.from < i.to
        BY <1>3
      <3>4. k # i
        BY <3>2, <3>3
      <3>5. i.to < k.from \/ k.to < i.from
        BY <1>2, <3>4 DEF Apart
      <3> QED
        BY <3>2, <3>3, <3>5
    <2>3. ASSUME i.to \in free PROVE FALSE
      <3>1. PICK k \in M : k.from <= i.to /\ i.to < k.to
        BY <1>2, <2>3 DEF Covers
      <3>2. k.from \in Nat /\ k.to \in Nat /\ i.from \in Nat /\ i.to \in Nat /\ i.from < i.to
        BY <1>3
      <3>3. k # i
        BY <3>1, <3>2
      <3>4. i.to < k.from \/ k.to < i.from
        BY <1>2, <3>3 DEF Apart
      <3> QED
        BY <3>1, <3>2, <3>4
    <2> QED
      BY <2>1, <2>2, <2>3
  <1>5. ASSUME NEW i \in M, NEW t \in Nat, i.from <= t, t < i.to PROVE t \in free
    BY <1>2, <1>5 DEF Covers
  <1> DEFINE Starts == {t \in free : t - 1 \notin free}
             Fits(x, s) == s <= x /\ (x - s) % (duration + buffer) = 0 /\ s .. (x + duration - 1) \subseteq free
  <1>6. WindowsByInstants(rules, overrides, duration, buffer)
          = {Interval(t, t + duration) : t \in {x \in free : \E s \in Starts : Fits(x, s)}}
    BY <1>1 DEF WindowsByInstants
  <1>7. Windows(rules, overrides, duration, buffer) = UNION {Emit(i, duration, buffer) : i \in M}
    BY <1>1, WindowsOfRuns
  <1>8. ASSUME NEW i \in M, NEW t \in i.from .. i.to, (t - i.from) % (duration + buffer) = 0, t + duration <= i.to
        PROVE  t \in free /\ i.from \in Starts /\ Fits(t, i.from)
    <2>1. i.from \in Nat /\ i.to \in Nat /\ t \in Nat /\ i.from <= t /\ t < i.to
      BY <1>3, <1>8
    <2>2. t \in free
      BY <1>5, <2>1
    <2>3. i.from \in Starts
      BY <1>4
    <2>4. ASSUME NEW x \in i.from .. (t + duration - 1) PROVE x \in free
      <3>1. x \in Nat /\ i.from <= x /\ x < i.to
        BY <1>8, <2>1
      <3> QED
        BY <1>5, <3>1
    <2> QED
      BY <1>8, <2>1, <2>2, <2>3, <2>4
  <1>9. ASSUME NEW t \in free, NEW s \in Starts, Fits(t, s)
        PROVE  \E i \in M : i.from = s /\ t \in i.from .. i.to /\ t + duration <= i.to
    <2>1. s \in Nat /\ t \in Nat /\ s \in free /\ s - 1 \notin free
      BY <1>2
    <2>2. PICK i \in M : i.from <= s /\ s < i.to
      BY <1>2, <2>1 DEF Covers
    <2>3. i.from \in Nat /\ i.to \in Nat
      BY <1>3
    <2>4. ASSUME i.from < s PROVE FALSE
      <3>1. s - 1 \in Nat /\ i.from <= s - 1 /\ s - 1 < i.to
        BY <2>1, <2>2, <2>3, <2>4
      <3> QED
        BY <1>5, <2>1, <3>1
    <2>5. i.from = s
      BY <2>1, <2>2, <2>3, <2>4
    <2>6. ASSUME i.to < t + duration PROVE FALSE
      <3>1. i.to \in s .. (t + duration - 1)
        BY <2>1, <2>2, <2>3, <2>6
      <3> QED
        BY <1>4, <1>9, <3>1
    <2>7. s <= t
      BY <1>9
    <2>8. t \in i.from .. i.to /\ t + duration <= i.to
      BY <2>1, <2>3, <2>5, <2>6, <2>7
    <2> QED
      BY <2>5, <2>8
  <1> HIDE DEF Starts, Fits
  <1>10. ASSUME NEW w \in UNION {Emit(i, duration, buffer) : i \in M}
         PROVE  w \in {Interval(t, t + duration) : t \in {x \in free : \E s \in Starts : Fits(x, s)}}
    <2>1. PICK i \in M : w \in Emit(i, duration, buffer)
      BY <1>10
    <2>2. PICK t \in i.from .. i.to : /\ (t - i.from) % (duration + buffer) = 0 /\ t + duration <= i.to
                                      /\ w = Interval(t, t + duration)
      BY <2>1 DEF Emit
    <2> QED
      BY <1>8, <2>2
  <1>11. ASSUME NEW w \in {Interval(t, t + duration) : t \in {x \in free : \E s \in Starts : Fits(x, s)}}
         PROVE  w \in UNION {Emit(i, duration, buffer) : i \in M}
    <2>1. PICK t \in free, s \in free : s \in Starts /\ Fits(t, s) /\ w = Interval(t, t + duration)
      BY <1>11 DEF Starts
    <2>2. PICK i \in M : i.from = s /\ t \in i.from .. i.to /\ t + duration <= i.to
      BY <1>9, <2>1
    <2>3. (t - i.from) % (duration + buffer) = 0
      BY <2>1, <2>2 DEF Fits
    <2>4. w \in Emit(i, duration, buffer)
      BY <2>1, <2>2, <2>3 DEF Emit
    <2> QED
      BY <2>4
  <1> QED
    BY <1>6, <1>7, <1>10, <1>11

LEMMA MultiplesApart ==
  ASSUME NEW a \in Nat, NEW b \in Nat, NEW k \in Nat \ {0}, a % k = 0, b % k = 0, a < b
  PROVE  a + k <= b
  <1>1. PICK p, q \in Nat : a = k * p /\ b = k * q
    <2>1. a \div k \in Nat /\ a = k * (a \div k)
      OBVIOUS
    <2>2. b \div k \in Nat /\ b = k * (b \div k)
      OBVIOUS
    <2> QED
      BY <2>1, <2>2
  <1>2. ASSUME q <= p PROVE FALSE
    <2>1. k * q <= k * p
      BY <1>2
    <2> QED
      BY <1>1, <2>1
  <1>3. p + 1 <= q
    BY <1>2
  <1>4. k * (p + 1) <= k * q
    BY <1>3
  <1>5. k * (p + 1) = k * p + k
    OBVIOUS
  <1> QED
    BY <1>1, <1>4, <1>5

\* The windows of one day do not overlap.
THEOREM WindowsDisjoint ==
  ASSUME NEW rules, NEW overrides, Entries(rules), Entries(overrides),
         NEW duration \in Nat \ {0}, NEW buffer \in Nat
  PROVE  LET W == Windows(rules, overrides, duration, buffer)
         IN  /\ W \in SUBSET Intervals
             /\ \A v, w \in W : v # w => ~Meet(v, w)
             /\ \A w \in W : w.to = w.from + duration
  <1> DEFINE W == Windows(rules, overrides, duration, buffer)
  <1>1. CASE OfKind(rules, "OPEN") = {} \/ \E o \in overrides : o.kind = "DAY_OFF"
    <2>1. W = {}
      BY <1>1 DEF Windows
    <2> QED
      BY <2>1
  <1>2. CASE OfKind(rules, "OPEN") # {} /\ \A o \in overrides : o.kind # "DAY_OFF"
    <2>1. PICK M : M = Runs(rules, overrides)
      OBVIOUS
    <2>2. M \in SUBSET Intervals /\ Apart(M)
      BY <2>1, RunsAreFree
    <2>3. W = UNION {Emit(i, duration, buffer) : i \in M}
      BY <1>2, <2>1, WindowsOfRuns
    <2> HIDE DEF W
    <2>4. ASSUME NEW w \in W
          PROVE  \E i \in M, t \in Nat : /\ w = Interval(t, t + duration) /\ i.from <= t /\ t + duration <= i.to
                                         /\ (t - i.from) % (duration + buffer) = 0
      <3>1. PICK i \in M : w \in Emit(i, duration, buffer)
        BY <2>3
      <3>2. i.from \in Nat /\ i.to \in Nat
        BY <2>2 DEF Intervals
      <3>3. PICK t \in i.from .. i.to : /\ (t - i.from) % (duration + buffer) = 0 /\ t + duration <= i.to
                                        /\ w = Interval(t, t + duration)
        BY <3>1 DEF Emit
      <3>4. t \in Nat /\ i.from <= t
        BY <3>2
      <3> QED
        BY <3>3, <3>4
    <2>5. ASSUME NEW w \in W PROVE w \in Intervals /\ w.to = w.from + duration
      <3>1. PICK t \in Nat : w = Interval(t, t + duration)
        BY <2>4
      <3>2. t + duration \in Nat /\ t < t + duration
        OBVIOUS
      <3> QED
        BY <3>1, <3>2 DEF Interval, Intervals
    <2>6. ASSUME NEW v \in W, NEW w \in W, v.from < w.from PROVE v.to <= w.from
      <3>1. PICK i \in M, t \in Nat : /\ v = Interval(t, t + duration) /\ i.from <= t /\ t + duration <= i.to
                                      /\ (t - i.from) % (duration + buffer) = 0
        BY <2>4
      <3>2. PICK j \in M, u \in Nat : /\ w = Interval(u, u + duration) /\ j.from <= u /\ u + duration <= j.to
                                      /\ (u - j.from) % (duration + buffer) = 0
        BY <2>4
      <3>3. v.from = t /\ v.to = t + duration /\ w.from = u /\ w.to = u + duration
        BY <3>1, <3>2 DEF Interval
      <3>4. i.from \in Nat /\ i.to \in Nat /\ j.from \in Nat /\ j.to \in Nat
        BY <2>2 DEF Intervals
      <3>5. CASE i = j
        <4>1. PICK a, b, k \in Nat : a = t - i.from /\ b = u - i.from /\ k = duration + buffer
          BY <3>1, <3>2, <3>4, <3>5
        <4>2. k # 0 /\ a < b
          BY <2>6, <3>3, <3>4, <4>1
        <4>3. a % k = 0 /\ b % k = 0
          BY <3>1, <3>2, <3>5, <4>1
        <4>4. a + k <= b
          BY <4>2, <4>3, MultiplesApart
        <4>5. t + duration <= u
          BY <3>4, <4>1, <4>4
        <4> QED
          BY <3>3, <4>5
      <3>6. CASE i # j
        <4>1. i.to < j.from \/ j.to < i.from
          BY <2>2, <3>6 DEF Apart
        <4>2. t < u
          BY <2>6, <3>3
        <4>3. t + duration <= u
          BY <3>1, <3>2, <3>4, <4>1, <4>2
        <4> QED
          BY <3>3, <4>3
      <3> QED
        BY <3>5, <3>6
    <2>7. ASSUME NEW v \in W, NEW w \in W, v # w PROVE ~Meet(v, w)
      <3>1. /\ v.from \in Nat /\ v.to = v.from + duration /\ w.from \in Nat /\ w.to = w.from + duration
            /\ v \in [from: Nat, to: Nat] /\ w \in [from: Nat, to: Nat]
        BY <2>5 DEF Intervals
      <3>2. v.from # w.from
        BY <2>7, <3>1
      <3>3. v.to <= w.from \/ w.to <= v.from
        BY <2>6, <3>1, <3>2
      <3> QED
        BY <3>1, <3>3 DEF Meet
    <2> QED
      BY <2>5, <2>7 DEF W
  <1> QED
    BY <1>1, <1>2

\* What a list of cuts leaves of one interval lies within it.
LEMMA CutsWithin ==
  ASSUME NEW o \in Intervals, NEW C \in SUBSET Intervals, IsFiniteSet(C)
  PROVE  LET L == FoldLeft(Cut, {o}, Sorted(C))
         IN  /\ L \in SUBSET Intervals /\ Apart(L)
             /\ \A p \in L : o.from <= p.from /\ p.to <= o.to
             /\ \A t \in Nat : Covers(L, t) <=> In(t, o) /\ ~Covers(C, t)
  <1>1. PICK L : L = FoldLeft(Cut, {o}, Sorted(C))
    OBVIOUS
  <1>2. {o} \in SUBSET Intervals /\ IsFiniteSet({o}) /\ Apart({o})
    BY FS_Singleton DEF Apart
  <1>3. /\ L \in SUBSET Intervals /\ Apart(L)
        /\ \A t \in Nat : Covers(L, t) <=> Covers({o}, t) /\ ~Covers(C, t)
    BY <1>1, <1>2, CutsExact
  <1>4. \A t \in Nat : Covers(L, t) <=> In(t, o) /\ ~Covers(C, t)
    BY <1>3 DEF Covers, In
  <1>5. ASSUME NEW p \in L PROVE o.from <= p.from /\ p.to <= o.to
    <2>1. p.from \in Nat /\ p.to \in Nat /\ p.from < p.to /\ o.from \in Nat /\ o.to \in Nat
      BY <1>3 DEF Intervals
    <2>2. p.from \in Nat /\ Covers(L, p.from)
      BY <2>1 DEF Covers
    <2>3. p.to - 1 \in Nat /\ Covers(L, p.to - 1)
      <3>1. p.to - 1 \in Nat /\ p.from <= p.to - 1 /\ p.to - 1 < p.to
        BY <2>1
      <3> QED
        BY <3>1 DEF Covers
    <2>4. In(p.from, o) /\ In(p.to - 1, o)
      BY <1>4, <2>2, <2>3
    <2> QED
      BY <2>1, <2>4 DEF In
  <1> QED
    BY <1>1, <1>3, <1>4, <1>5

=============================================================================
