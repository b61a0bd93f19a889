----------------------------- MODULE FiniteOrders -----------------------------
(***************************************************************************)
(* Facts about finite sets that the library does not have: in a strict     *)
(* order every rank is taken, once; there is a least element; what holds   *)
(* nowhere first holds nowhere; and a fold over the elements has a value.  *)
(* Ranks are counted, not proved by induction: a map from the elements to  *)
(* their ranks is injective, so it is onto.  The facts about numbers       *)
(* follow, induction among them.                                           *)
(***************************************************************************)
EXTENDS Integers, FiniteSets, FiniteSetTheorems, FunctionTheorems, TLAPS

\* A strict total order on S, as a set of pairs.
StrictOrder(S, R) ==
    /\ \A x \in S : <<x, x>> \notin R
    /\ \A x, y, z \in S : <<x, y>> \in R /\ <<y, z>> \in R => <<x, z>> \in R
    /\ \A x, y \in S : x = y \/ <<x, y>> \in R \/ <<y, x>> \in R

Preceding(S, R, w) == {x \in S : <<x, w>> \in R}

\* In a strict order on n elements the ranks are distinct and below n, and an
\* element that comes before another has the lower one.
LEMMA RanksDistinct ==
  ASSUME NEW S, IsFiniteSet(S), NEW R, StrictOrder(S, R)
  PROVE  /\ \A w \in S : Cardinality(Preceding(S, R, w)) \in 0..(Cardinality(S) - 1)
         /\ \A w, v \in S : <<w, v>> \in R =>
               Cardinality(Preceding(S, R, w)) < Cardinality(Preceding(S, R, v))
         /\ \A w, v \in S : Cardinality(Preceding(S, R, w)) = Cardinality(Preceding(S, R, v)) => w = v
<1>1. Cardinality(S) \in Nat
  BY FS_CardinalityType
<1>2. \A w \in S : /\ Preceding(S, R, w) \in SUBSET S
                   /\ IsFiniteSet(Preceding(S, R, w)) /\ Cardinality(Preceding(S, R, w)) \in Nat
  <2>1. \A w \in S : Preceding(S, R, w) \in SUBSET S
    BY DEF Preceding
  <2> QED BY <2>1, FS_Subset, FS_CardinalityType
<1>3. \A w \in S : Cardinality(Preceding(S, R, w)) \in 0..(Cardinality(S) - 1)
  <2> TAKE w \in S
  <2>1. Preceding(S, R, w) # S
    BY DEF Preceding, StrictOrder
  <2>2. Cardinality(Preceding(S, R, w)) <= Cardinality(S) /\ Cardinality(Preceding(S, R, w)) # Cardinality(S)
    BY <1>2, <2>1, FS_Subset
  <2> QED BY <1>1, <1>2, <2>2
<1>4. \A w, v \in S : <<w, v>> \in R =>
        Cardinality(Preceding(S, R, w)) < Cardinality(Preceding(S, R, v))
  <2> TAKE w, v \in S
  <2> HAVE <<w, v>> \in R
  <2>1. Preceding(S, R, w) \in SUBSET Preceding(S, R, v) /\ Preceding(S, R, w) # Preceding(S, R, v)
    BY DEF Preceding, StrictOrder
  <2>2. Cardinality(Preceding(S, R, w)) <= Cardinality(Preceding(S, R, v))
        /\ Cardinality(Preceding(S, R, w)) # Cardinality(Preceding(S, R, v))
    BY <1>2, <2>1, FS_Subset
  <2> QED BY <1>2, <2>2
<1>5. \A w, v \in S : Cardinality(Preceding(S, R, w)) = Cardinality(Preceding(S, R, v)) => w = v
  <2> SUFFICES ASSUME NEW w \in S, NEW v \in S, w # v
               PROVE  Cardinality(Preceding(S, R, w)) # Cardinality(Preceding(S, R, v))
    OBVIOUS
  <2>1. CASE <<w, v>> \in R
    BY <1>2, <1>4, <2>1
  <2>2. CASE <<v, w>> \in R
    BY <1>2, <1>4, <2>2
  <2> QED BY <2>1, <2>2 DEF StrictOrder
<1> QED BY <1>3, <1>4, <1>5

\* Among n elements there is one with k before it, for every k below n.
LEMMA RankTaken ==
  ASSUME NEW S, IsFiniteSet(S), NEW R, StrictOrder(S, R), NEW k \in 0..(Cardinality(S) - 1)
  PROVE  \E w \in S : Cardinality(Preceding(S, R, w)) = k
<1> DEFINE n == Cardinality(S)
           rank == [w \in S |-> Cardinality(Preceding(S, R, w))]
<1>1. n \in Nat
  BY FS_CardinalityType
<1>2. rank \in Injection(S, 0..(n - 1))
  <2>1. rank \in [S -> 0..(n - 1)]
    BY RanksDistinct
  <2>2. \A w, v \in S : rank[w] = rank[v] => w = v
    BY RanksDistinct
  <2> HIDE DEF rank
  <2> QED BY <2>1, <2>2 DEF Injection, IsInjective
<1>3. IsFiniteSet(0..(n - 1)) /\ Cardinality(0..(n - 1)) = n
  <2> HIDE DEF n
  <2> QED BY <1>1, FS_Interval
<1>4. rank \in Surjection(S, 0..(n - 1))
  <2> HIDE DEF rank
  <2> QED BY <1>2, <1>3, FS_Injection
<1>5. PICK w \in S : rank[w] = k
  <2> HIDE DEF rank
  <2> QED BY <1>4 DEF Surjection
<1> QED BY <1>5

\* A sequence that has at each place an element of that rank, where there is one, has
\* every element once.
SeeksRanks(S, R, seq) ==
    \A k \in 1..Cardinality(S) :
       (\E x \in S : Cardinality(Preceding(S, R, x)) = k - 1)
          => seq[k] \in S /\ Cardinality(Preceding(S, R, seq[k])) = k - 1

LEMMA SortedOrder ==
  ASSUME NEW S, IsFiniteSet(S), NEW R, StrictOrder(S, R), NEW seq, SeeksRanks(S, R, seq)
  PROVE  /\ Cardinality(S) \in Nat
         /\ \A k \in 1..Cardinality(S) : seq[k] \in S /\ Cardinality(Preceding(S, R, seq[k])) = k - 1
         /\ \A j, k \in 1..Cardinality(S) : seq[j] = seq[k] => j = k
         /\ \A w \in S : \E k \in 1..Cardinality(S) : seq[k] = w
<1>1. Cardinality(S) \in Nat
  BY FS_CardinalityType
<1>2. \A k \in 1..Cardinality(S) : seq[k] \in S /\ Cardinality(Preceding(S, R, seq[k])) = k - 1
  <2> TAKE k \in 1..Cardinality(S)
  <2>1. k - 1 \in 0..(Cardinality(S) - 1)
    BY <1>1
  <2>2. \E x \in S : Cardinality(Preceding(S, R, x)) = k - 1
    BY <2>1, RankTaken
  <2> QED BY <2>2 DEF SeeksRanks
<1>3. \A j, k \in 1..Cardinality(S) : seq[j] = seq[k] => j = k
  BY <1>1, <1>2
<1>4. \A w \in S : \E k \in 1..Cardinality(S) : seq[k] = w
  <2> TAKE w \in S
  <2>1. Cardinality(Preceding(S, R, w)) \in 0..(Cardinality(S) - 1)
    BY RanksDistinct
  <2>2. PICK k \in 1..Cardinality(S) : Cardinality(Preceding(S, R, w)) = k - 1
    <3>1. Cardinality(Preceding(S, R, w)) + 1 \in 1..Cardinality(S)
          /\ Cardinality(Preceding(S, R, w)) = (Cardinality(Preceding(S, R, w)) + 1) - 1
      BY <1>1, <2>1
    <3> QED BY <3>1
  <2>3. seq[k] = w
    BY <1>2, <2>2, RanksDistinct
  <2> QED BY <2>3
<1> QED BY <1>1, <1>2, <1>3, <1>4

\* Among n integers there is one with k smaller ones, for every k below n: the
\* turn of a round robin falls on a worker, whatever the counter is.
LEMMA RankExists ==
  ASSUME NEW S \in SUBSET Int, IsFiniteSet(S), NEW k \in 0..(Cardinality(S) - 1)
  PROVE  \E w \in S : Cardinality({x \in S : x < w}) = k
<1> DEFINE R == {p \in S \X S : p[1] < p[2]}
<1>1. StrictOrder(S, R)
  BY DEF StrictOrder
<1>2. \A w \in S : Preceding(S, R, w) = {x \in S : x < w}
  BY DEF Preceding
<1> HIDE DEF R
<1>3. PICK w \in S : Cardinality(Preceding(S, R, w)) = k
  BY <1>1, RankTaken
<1> QED BY <1>2, <1>3

\* A finite set of integers that is not empty has a least element.
LEMMA MinExists ==
  ASSUME NEW S \in SUBSET Int, IsFiniteSet(S), S # {}
  PROVE  \E m \in S : \A x \in S : m <= x
<1>1. Cardinality(S) \in Nat /\ Cardinality(S) # 0
  BY FS_CardinalityType, FS_EmptySet
<1>2. PICK m \in S : Cardinality({x \in S : x < m}) = 0
  BY <1>1, RankExists
<1>3. {x \in S : x < m} = {}
  BY <1>2, FS_Subset, FS_EmptySet
<1>4. \A x \in S : m <= x
  BY <1>3
<1> QED BY <1>4

\* Induction: a set of naturals that is not empty has a least element.
LEMMA NatLeast ==
  ASSUME NEW S \in SUBSET Nat, S # {}
  PROVE  \E m \in S : \A x \in S : m <= x
<1>1. PICK n \in S : TRUE
  OBVIOUS
<1> DEFINE T == {x \in S : x <= n}
<1>2. T \in SUBSET (0..n) /\ T \in SUBSET Int /\ T # {}
  <2>1. n \in Nat /\ n \in T
    BY <1>1
  <2>2. \A x \in T : x \in Nat /\ x <= n
    OBVIOUS
  <2>3. \A x \in T : x \in 0..n /\ x \in Int
    BY <2>1, <2>2
  <2> QED BY <2>1, <2>3
<1>3. IsFiniteSet(0..n)
  BY FS_Interval
<1>4. IsFiniteSet(T)
  BY <1>2, <1>3, FS_Subset
<1>5. PICK m \in T : \A x \in T : m <= x
  <2> HIDE DEF T
  <2> QED BY <1>2, <1>4, MinExists
<1>6. \A x \in S : m <= x
  BY <1>5
<1> QED BY <1>5, <1>6

\* Somewhere on a finite set a function to the integers is least.
LEMMA LeastArgument ==
  ASSUME NEW S, IsFiniteSet(S), S # {}, NEW f \in [S -> Int]
  PROVE  \E w \in S : \A x \in S : f[w] <= f[x]
<1> DEFINE values == {f[x] : x \in S}
<1>1. f \in Surjection(S, values)
  BY DEF Surjection
<1>2. IsFiniteSet(values) /\ values \in SUBSET Int /\ values # {}
  <2>1. values \in SUBSET Int /\ values # {}
    OBVIOUS
  <2> HIDE DEF values
  <2> QED BY <1>1, <2>1, FS_Surjection
<1>3. PICK m \in values : \A y \in values : m <= y
  <2> HIDE DEF values
  <2> QED BY <1>2, MinExists
<1> QED BY <1>3

\* What is compared, totally and transitively, has a least element: a minimum by a key.
LEMMA LeastExists ==
  ASSUME NEW S, IsFiniteSet(S), S # {}, NEW R,
         \A x, y \in S : <<x, y>> \in R \/ <<y, x>> \in R,
         \A x, y, z \in S : <<x, y>> \in R /\ <<y, z>> \in R => <<x, z>> \in R
  PROVE  \E m \in S : \A x \in S : <<m, x>> \in R
<1> DEFINE Beaten(w) == {y \in S : <<w, y>> \notin R}
           count == [w \in S |-> Cardinality(Beaten(w))]
<1>1. \A w \in S : Beaten(w) \in SUBSET S /\ IsFiniteSet(Beaten(w)) /\ Cardinality(Beaten(w)) \in Nat
  <2>1. \A w \in S : Beaten(w) \in SUBSET S
    OBVIOUS
  <2> HIDE DEF Beaten
  <2> QED BY <2>1, FS_Subset, FS_CardinalityType
<1>2. count \in [S -> Int]
  <2> HIDE DEF Beaten
  <2> QED BY <1>1
<1>3. PICK m \in S : \A x \in S : count[m] <= count[x]
  <2> HIDE DEF count
  <2> QED BY <1>2, LeastArgument
<1>4. \A x \in S : <<m, x>> \in R
  <2> SUFFICES ASSUME NEW x \in S, <<m, x>> \notin R
               PROVE  FALSE
    OBVIOUS
  <2>1. Beaten(x) \in SUBSET Beaten(m) /\ x \in Beaten(m) /\ x \notin Beaten(x)
    OBVIOUS
  <2>2. count[x] = Cardinality(Beaten(x)) /\ count[m] = Cardinality(Beaten(m))
    OBVIOUS
  <2> HIDE DEF Beaten, count
  <2>3. Cardinality(Beaten(x)) <= Cardinality(Beaten(m)) /\ Cardinality(Beaten(x)) # Cardinality(Beaten(m))
    BY <1>1, <2>1, FS_Subset
  <2> QED BY <1>1, <1>3, <2>2, <2>3
<1> QED BY <1>4

\* Induction over the subsets of a finite set: of those that are not as they should
\* be, there is one all of whose proper subsets are.
LEMMA MinimalSubset ==
  ASSUME NEW S, IsFiniteSet(S), NEW Bad \in SUBSET (SUBSET S), Bad # {}
  PROVE  \E T \in Bad : IsFiniteSet(T) /\ \A U \in SUBSET T : U # T => U \notin Bad
<1>1. \A T \in Bad : IsFiniteSet(T) /\ Cardinality(T) \in Nat
  BY FS_Subset, FS_CardinalityType
<1> DEFINE sizes == {Cardinality(T) : T \in Bad}
<1>2. sizes \in SUBSET Nat /\ sizes # {}
  BY <1>1
<1>3. PICK m \in sizes : \A x \in sizes : m <= x
  <2> HIDE DEF sizes
  <2> QED BY <1>2, NatLeast
<1>4. PICK T \in Bad : Cardinality(T) = m
  OBVIOUS
<1>5. \A U \in SUBSET T : U # T => U \notin Bad
  <2> SUFFICES ASSUME NEW U \in SUBSET T, U # T, U \in Bad
               PROVE  FALSE
    OBVIOUS
  <2>1. m <= Cardinality(U)
    BY <1>3
  <2>2. Cardinality(U) <= Cardinality(T) /\ Cardinality(U) # Cardinality(T)
    BY <1>1, FS_Subset
  <2> QED BY <1>1, <1>4, <2>1, <2>2
<1> QED BY <1>1, <1>5

\* it folds step over the subsets of S, from base, picking an element at a time.
Picks(S, pick) == \A T \in SUBSET S : T # {} => pick[T] \in T
Folds(S, base, pick, step, it) ==
    \A T \in SUBSET S : it[T] = IF T = {} THEN base ELSE step[<<pick[T], it[T \ {pick[T]}]>>]

\* A fold over a finite set exists.
LEMMA FoldExists ==
  ASSUME NEW S, IsFiniteSet(S), NEW V, NEW base \in V, NEW pick, Picks(S, pick),
         NEW step \in [S \X V -> V]
  PROVE  \E it \in [SUBSET S -> V] : Folds(S, base, pick, step, it)
<1> USE DEF Picks, Folds
<1> DEFINE Value(it, T) == IF T = {} THEN base ELSE step[<<pick[T], it[T \ {pick[T]}]>>]
           Small(n) == {T \in SUBSET S : Cardinality(T) <= n}
           Folded(n) == \E it \in [Small(n) -> V] : \A T \in Small(n) : it[T] = Value(it, T)
           Bad == {n \in Nat : ~Folded(n)}
<1>1. \A T \in SUBSET S : /\ IsFiniteSet(T) /\ Cardinality(T) \in Nat
                          /\ Cardinality(T) = 0 <=> T = {}
                          /\ T # {} => /\ T \ {pick[T]} \in SUBSET S
                                       /\ Cardinality(T \ {pick[T]}) = Cardinality(T) - 1
  <2> TAKE T \in SUBSET S
  <2>1. IsFiniteSet(T) /\ Cardinality(T) \in Nat
    BY FS_Subset, FS_CardinalityType
  <2>2. Cardinality(T) = 0 <=> T = {}
    BY <2>1, FS_EmptySet
  <2>3. T # {} => T \ {pick[T]} \in SUBSET S /\ Cardinality(T \ {pick[T]}) = Cardinality(T) - 1
    BY <2>1, FS_RemoveElement
  <2> QED BY <2>1, <2>2, <2>3
<1>2. Bad = {}
  <2> SUFFICES ASSUME Bad # {} PROVE FALSE
    OBVIOUS
  <2>1. PICK n \in Bad : \A m \in Bad : n <= m
    <3> HIDE DEF Folded
    <3>1. Bad \in SUBSET Nat
      OBVIOUS
    <3> HIDE DEF Bad
    <3> QED BY <3>1, NatLeast
  <2>2. CASE n = 0
    <3> DEFINE it == [T \in Small(0) |-> base]
    <3>1. \A T \in Small(0) : T = {}
      <4> TAKE T \in Small(0)
      <4>1. T \in SUBSET S /\ Cardinality(T) <= 0
        OBVIOUS
      <4> HIDE DEF Small, Folded, Bad, it
      <4>2. Cardinality(T) \in Nat /\ (Cardinality(T) = 0 <=> T = {})
        BY <1>1, <4>1
      <4> QED BY <4>1, <4>2
    <3>2. it \in [Small(0) -> V] /\ \A T \in Small(0) : it[T] = Value(it, T)
      BY <3>1
    <3>3. Folded(0)
      BY <3>2
    <3> QED BY <2>2, <3>3
  <2>3. CASE n # 0
    <3>1. n - 1 \in Nat /\ n \in Nat
      BY <2>3
    <3>2. Folded(n - 1)
      <4> HIDE DEF Folded
      <4> QED BY <2>1, <3>1
    <3>3. PICK less \in [Small(n - 1) -> V] : \A T \in Small(n - 1) : less[T] = Value(less, T)
      BY <3>2
    <3> DEFINE it == [T \in Small(n) |-> IF Cardinality(T) <= n - 1 THEN less[T] ELSE Value(less, T)]
    <3>4. \A T \in Small(n) : T # {} => T \ {pick[T]} \in Small(n - 1) /\ T \ {pick[T]} \in Small(n)
      <4> TAKE T \in Small(n)
      <4> HAVE T # {}
      <4>1. T \in SUBSET S /\ Cardinality(T) <= n
        OBVIOUS
      <4>2. /\ T \ {pick[T]} \in SUBSET S /\ Cardinality(T) \in Nat
            /\ Cardinality(T \ {pick[T]}) = Cardinality(T) - 1
        BY <1>1, <4>1
      <4>3. Cardinality(T \ {pick[T]}) <= n - 1 /\ Cardinality(T \ {pick[T]}) <= n
        BY <3>1, <4>1, <4>2
      <4> QED BY <4>2, <4>3
    <3>5. \A T \in Small(n) : /\ T \in SUBSET S
                              /\ Cardinality(T) <= n - 1 => T \in Small(n - 1)
                              /\ ~(Cardinality(T) <= n - 1) => T # {}
      BY <1>1, <3>1
    <3>6. \A T \in Small(n) : Value(less, T) \in V
      <4> TAKE T \in Small(n)
      <4>1. CASE T = {}
        BY <4>1
      <4>2. CASE T # {}
        <5>1. less[T \ {pick[T]}] \in V
          <6> HIDE DEF Small
          <6> QED BY <3>3, <3>4, <4>2
        <5>2. pick[T] \in S
          BY <3>5, <4>2
        <5>3. <<pick[T], less[T \ {pick[T]}]>> \in S \X V
          BY <5>1, <5>2
        <5> HIDE DEF Small
        <5> QED BY <4>2, <5>3
      <4> QED BY <4>1, <4>2
    <3>7. it \in [Small(n) -> V]
      <4> SUFFICES ASSUME NEW T \in Small(n)
                   PROVE  (IF Cardinality(T) <= n - 1 THEN less[T] ELSE Value(less, T)) \in V
        OBVIOUS
      <4> HIDE DEF Small, Value, Folded, Bad, it
      <4>1. CASE Cardinality(T) <= n - 1
        <5>1. T \in Small(n - 1)
          BY <3>5, <4>1
        <5>2. less[T] \in V /\ less[T] = Value(less, T)
          BY <3>3, <5>1
        <5> QED BY <4>1, <5>2
      <4>2. CASE ~(Cardinality(T) <= n - 1)
        BY <3>6, <4>2
      <4> QED BY <4>1, <4>2
    <3>8. \A T \in Small(n) : Cardinality(T) <= n - 1 => it[T] = less[T]
      <4> HIDE DEF Small, Value
      <4> QED OBVIOUS
    <3>9. \A T \in Small(n) : it[T] = Value(less, T)
      <4> HIDE DEF Small, Value, Folded, Bad
      <4> TAKE T \in Small(n)
      <4>1. CASE Cardinality(T) <= n - 1
        <5>1. T \in Small(n - 1)
          BY <3>5, <4>1
        <5>2. less[T] \in V /\ less[T] = Value(less, T)
          BY <3>3, <5>1
        <5> QED BY <4>1, <5>2
      <4>2. CASE ~(Cardinality(T) <= n - 1)
        BY <4>2
      <4> QED BY <4>1, <4>2
    <3>10. \A T \in Small(n) : T # {} => it[T \ {pick[T]}] = less[T \ {pick[T]}]
      <4> TAKE T \in Small(n)
      <4> HAVE T # {}
      <4>1. T \ {pick[T]} \in Small(n) /\ Cardinality(T \ {pick[T]}) <= n - 1
        BY <3>4
      <4> HIDE DEF Small, it
      <4> QED BY <3>8, <4>1
    <3>11. \A T \in Small(n) : Value(it, T) = Value(less, T)
      <4> HIDE DEF Small, it
      <4> QED BY <3>10
    <3>12. Folded(n)
      <4> HIDE DEF Small, it, Value
      <4> QED BY <3>7, <3>9, <3>11
    <3> QED BY <3>12
  <2> QED BY <2>2, <2>3
<1>3. Cardinality(S) \in Nat /\ Folded(Cardinality(S))
  <2>1. Cardinality(S) \in Nat
    BY <1>1
  <2> HIDE DEF Folded
  <2> QED BY <1>2, <2>1
<1>4. Small(Cardinality(S)) = SUBSET S
  BY FS_Subset
<1> HIDE DEF Small
<1> QED BY <1>3, <1>4

\* Two finite sets that differ at most in one element.
LEMMA CardinalityOneDiffers ==
  ASSUME NEW S, IsFiniteSet(S), NEW T, NEW r, \A x : x # r => (x \in S <=> x \in T)
  PROVE  /\ IsFiniteSet(T) /\ Cardinality(S) \in Nat /\ Cardinality(T) \in Nat
         /\ Cardinality(T) = Cardinality(S) - (IF r \in S THEN 1 ELSE 0) + (IF r \in T THEN 1 ELSE 0)
<1>1. Cardinality(S) \in Nat
  BY FS_CardinalityType
<1>2. CASE r \in S <=> r \in T
  <2>1. S = T
    BY <1>2
  <2> QED BY <1>1, <2>1
<1>3. CASE r \in T /\ r \notin S
  <2>1. T = S \union {r}
    BY <1>3
  <2>2. IsFiniteSet(T) /\ Cardinality(T) = Cardinality(S) + 1
    BY <1>3, <2>1, FS_AddElement
  <2> QED BY <1>1, <1>3, <2>2
<1>4. CASE r \in S /\ r \notin T
  <2>1. T = S \ {r}
    BY <1>4
  <2>2. IsFiniteSet(T) /\ Cardinality(T) = Cardinality(S) - 1
    BY <1>4, <2>1, FS_RemoveElement
  <2>3. Cardinality(T) \in Nat
    BY <2>2, FS_CardinalityType
  <2> QED BY <1>1, <1>4, <2>2, <2>3
<1> QED BY <1>2, <1>3, <1>4
===============================================================================
